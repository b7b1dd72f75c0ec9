--------------------------- MODULE TcpChatProofs ---------------------------
(***************************************************************************)
(* The safety properties of TcpChat, for any number of clients, any ids,   *)
(* tables of any size and any time-out.                                    *)
(***************************************************************************)
EXTENDS TcpChat, TLAPS, FiniteSetTheorems, SequenceTheorems, WellFoundedInduction

Requests == {"REGI", "PONG", "STOP", "TEXT"}
Answers == {"OK", "PING", "TEXT"}
Entries == [socket : {0} \union Descriptors, id : Ids \union {NoId}, age : 0 .. PING_TIMEOUT + 1]
Texts == [kind : {"2ALL", "2ONE"}, sender : Ids, author : Ids, named : Ids \union {NoId},
          to : Clients]

(* The types, and what a thread has at hand where it is. *)
StreamsTyped ==
  /\ toServer \in [Clients -> Seq(Requests)]
  /\ toClient \in [Clients -> Seq(Answers)]
  /\ reset \subseteq Clients

ThreadsTyped ==
  /\ handler \in [Clients -> {"none", "first", "loop", "recv", "remove", "ended"}]
  /\ client_socket \in [Clients -> {0} \union Descriptors]
  /\ reading \in [Clients -> Clients \union {Nobody}]
  /\ \A h \in Clients :
       /\ handler[h] \in {"first", "loop", "recv", "remove"} => client_socket[h] \in Descriptors
       /\ handler[h] = "recv" => reading[h] \in Clients

TableTyped ==
  /\ clients \in [Slots -> Entries]
  /\ open \in [Descriptors -> Clients \union {Nobody}]

RestTyped ==
  /\ setup \in Setups
  /\ main \in {"accepting", "closing", "joining", "over"} /\ checker \in {"running", "ended"}
  /\ server_running \in BOOLEAN
  /\ client \in [Clients -> {"off", "registering", "chatting", "stopping", "gone"}]
  /\ delivered \subseteq Texts

Typed == StreamsTyped /\ ThreadsTyped /\ TableTyped /\ RestTyped

(* Each entry has a number of its own, and each connection one number. *)
OneEntryEach == \A i, j \in Active : clients[i].socket = clients[j].socket => i = j

OneNumberEach ==
  \A n \in Descriptors :
    open[n] # Nobody =>
      handler[open[n]] # "none" /\ \A k \in Descriptors : open[k] = open[n] => k = n

(* The thread of a client that has not registered has its number open.     *)
FirstOwns == \A h \in Clients : handler[h] = "first" => open[client_socket[h]] = h

(* SocketsAreTheirs, also after main has closed the numbers. *)
Theirs ==
  \A i \in Active :
    LET c == open[clients[i].socket]
    IN  /\ main \in {"accepting", "closing"} => c # Nobody
        /\ c # Nobody => /\ IdOf[c] = clients[i].id
                         /\ handler[c] \in {"loop", "recv", "remove"}
                         /\ client_socket[c] = clients[i].socket

Owned == OneEntryEach /\ OneNumberEach /\ FirstOwns /\ Theirs

Consistent == CountAgrees /\ UniqueIds /\ Owned

Inv == Typed /\ Consistent

-----------------------------------------------------------------------------
(* The constants, and sets of numbers *)

LEMMA Minimum ==
  ASSUME NEW S \in SUBSET Nat, S # {}
  PROVE  Lowest(S) \in S
<1>1. PICK x \in S : \A y \in S : ~(<<y, x>> \in OpToRel(<, Nat))
  BY NatLessThanWellFounded, WFMin
<1>2. \A y \in S : ~(y < x)
  BY <1>1 DEF OpToRel
<1>3. \A y \in S : x <= y
  BY <1>2
<1> QED
  BY <1>3 DEF Lowest

LEMMA DescriptorsFinite ==
  /\ IsFiniteSet(Descriptors) /\ Cardinality(Descriptors) = Cardinality(Clients)
  /\ Descriptors \in SUBSET Nat /\ 0 \notin Descriptors
<1>1. Cardinality(Clients) \in Nat
  BY ConstantsAssumption, FS_CardinalityType DEF ConstantsAssumption
<1> QED
  BY <1>1, FS_Interval DEF Descriptors

LEMMA SetupTyped ==
  ASSUME setup \in Setups
  PROVE  /\ IdOf \in [Clients -> Ids]
         /\ MAX_CLIENTS \in Nat \ {0}
         /\ Slots \in SUBSET Nat /\ IsFiniteSet(Slots) /\ Cardinality(Slots) = MAX_CLIENTS
<1>1. IdOf \in [Clients -> Ids] /\ MAX_CLIENTS \in Nat \ {0}
  BY ConstantsAssumption DEF ConstantsAssumption, IdOf, MAX_CLIENTS
<1> QED
  BY <1>1, FS_Interval DEF Slots

LEMMA ActiveFinite ==
  ASSUME setup \in Setups
  PROVE  /\ Active \subseteq Slots /\ IsFiniteSet(Active)
         /\ Cardinality(Active) \in 0 .. MAX_CLIENTS
<1>1. Active \in SUBSET Slots
  BY DEF Active
<1>2. IsFiniteSet(Active) /\ Cardinality(Active) <= MAX_CLIENTS
  BY <1>1, SetupTyped, FS_Subset
<1> QED
  BY <1>1, <1>2, FS_CardinalityType, SetupTyped

(* Setup is a constant of the behaviour. *)
LEMMA SetupStays ==
  ASSUME setup' = setup
  PROVE  IdOf' = IdOf /\ MAX_CLIENTS' = MAX_CLIENTS /\ Slots' = Slots
BY DEF IdOf, MAX_CLIENTS, Slots

-----------------------------------------------------------------------------
(* What connections carry *)

LEMMA PutTyped ==
  ASSUME NEW M, NEW s \in Seq(M), NEW m \in M
  PROVE  Put(s, m) \in Seq(M)
BY AppendProperties DEF Put

LEMMA RestsTyped ==
  ASSUME NEW M, NEW s \in Seq(M), NEW rest \in Rests(s)
  PROVE  rest \in Seq(M)
<1>1. PICK k \in 1 .. Len(s) : rest = SubSeq(s, k + 1, Len(s))
  BY DEF Rests
<1>2. \A i \in k + 1 .. Len(s) : s[i] \in M
  OBVIOUS
<1>3. k + 1 \in Int /\ Len(s) \in Int
  OBVIOUS
<1> QED
  BY <1>1, <1>2, <1>3, SubSeqProperties

LEMMA SendsTyped ==
  ASSUME StreamsTyped, NEW S \in SUBSET Clients, NEW m \in Answers, Sends([c \in S |-> m])
  PROVE  toClient' \in [Clients -> Seq(Answers)] /\ reset' \subseteq Clients
<1>1. \A c \in Clients : Put(toClient[c], m) \in Seq(Answers)
  BY PutTyped DEF StreamsTyped
<1> QED
  BY <1>1 DEF Sends, StreamsTyped

LEMMA SaysTyped ==
  ASSUME StreamsTyped, NEW c \in Clients, NEW m \in Requests, ClientSays(c, m)
  PROVE  toServer' \in [Clients -> Seq(Requests)]
<1>1. Put(toServer[c], m) \in Seq(Requests)
  BY PutTyped DEF StreamsTyped
<1> QED
  BY <1>1 DEF ClientSays, StreamsTyped

LEMMA EmptyTyped == \A M : <<>> \in Seq(M)
  OBVIOUS

LEMMA ClosesTyped ==
  ASSUME StreamsTyped, TableTyped, NEW N, Closes(N)
  PROVE  /\ toServer' \in [Clients -> Seq(Requests)]
         /\ open' \in [Descriptors -> Clients \union {Nobody}]
BY EmptyTyped DEF Closes, StreamsTyped, TableTyped

LEMMA GoesTyped ==
  ASSUME ThreadsTyped, UNCHANGED <<client_socket, reading>>, NEW h \in Clients,
         handler[h] \in {"first", "loop", "recv", "remove"},
         NEW place \in {"loop", "remove"}, Goes(h, place)
  PROVE  ThreadsTyped'
BY DEF ThreadsTyped, Goes

LEMMA EndsTyped ==
  ASSUME ThreadsTyped, UNCHANGED reading, NEW h \in Clients, Ends(h)
  PROVE  ThreadsTyped'
BY DEF ThreadsTyped, Ends, Goes

LEMMA ReceivesTyped ==
  ASSUME Typed, NEW h \in Clients, NEW m, NEW next \in {"loop", "remove"}, Receives(h, m, next)
  PROVE  /\ toServer' \in [Clients -> Seq(Requests)] /\ ThreadsTyped'
         /\ reading[h] \in Clients /\ UNCHANGED <<open, server_running, checker, client>>
<1>1. reading[h] \in Clients
  BY DEF Typed, ThreadsTyped, Receives
<1>2. PICK rest \in IF HeldElsewhere(reading[h], h) THEN Rests(toServer[reading[h]]) ELSE {<<>>} :
        toServer' = [toServer EXCEPT ![reading[h]] = rest]
  BY DEF Receives
<1>3. rest \in Seq(Requests)
  BY <1>1, <1>2, RestsTyped, EmptyTyped DEF Typed, StreamsTyped
<1>4. toServer' \in [Clients -> Seq(Requests)]
  BY <1>2, <1>3 DEF Typed, StreamsTyped
<1>5. ThreadsTyped'
  BY DEF Typed, ThreadsTyped, Receives, Goes
<1> QED
  BY <1>1, <1>4, <1>5 DEF Receives

(* Where texts go. *)
LEMMA EntryTyped ==
  ASSUME TableTyped, NEW i \in Active
  PROVE  /\ i \in Slots /\ clients[i].socket \in Descriptors
         /\ open[clients[i].socket] \in Clients \union {Nobody}
BY DEF TableTyped, Active, Entries

LEMMA ConnectionsTyped ==
  ASSUME TableTyped, NEW S \in SUBSET Active
  PROVE  ConnectionsOf(S) \in SUBSET Clients
BY EntryTyped DEF ConnectionsOf

(* accept finds a number: as many as there are connections, and one of them *)
(* has not been accepted.                                                    *)
LEMMA NumberLeft ==
  ASSUME Typed, OneNumberEach, NEW c \in Clients, handler[c] = "none"
  PROVE  \E k \in Descriptors : open[k] = Nobody
<1> SUFFICES ASSUME \A k \in Descriptors : open[k] # Nobody PROVE FALSE
  OBVIOUS
<1>1. open \in [Descriptors -> Clients \ {c}]
  BY DEF OneNumberEach, Typed, TableTyped
<1>2. IsFiniteSet(Clients)
  BY ConstantsAssumption DEF ConstantsAssumption
<1>3. /\ IsFiniteSet(Clients \ {c})
      /\ Cardinality(Clients \ {c}) = Cardinality(Clients) - 1
      /\ Cardinality(Clients) \in Nat
  BY <1>2, FS_RemoveElement, FS_CardinalityType
<1>4. Cardinality(Clients \ {c}) < Cardinality(Descriptors)
  BY <1>3, DescriptorsFinite
<1>5. \E k, n \in Descriptors : k # n /\ open[k] = open[n]
  <2>1. IsFiniteSet(Descriptors) /\ IsFiniteSet(Clients \ {c})
    BY <1>3, DescriptorsFinite
  <2> QED
    BY ONLY <1>1, <1>4, <2>1, FS_PigeonHole
<1> QED
  BY <1>5 DEF OneNumberEach

-----------------------------------------------------------------------------
(* The types *)

LEMMA TypedInit == Init => Typed
BY EmptyTyped, ConstantsAssumption
DEF ConstantsAssumption, Init, Typed, StreamsTyped, ThreadsTyped, TableTyped, RestTyped, Free, Entries

LEMMA ClientTyped ==
  ASSUME Typed, NEW c \in Clients, Client(c)
  PROVE  Typed'
<1>1. UNCHANGED <<table, open, threads, process, setup, reset>> /\ delivered' = {}
  BY DEF Client, Silent, ClientConnects, ClientTypes, ClientStops, ClientReceives, ClientEnds
<1>2. Slots' = Slots
  BY <1>1, SetupStays
<1>3. ThreadsTyped' /\ TableTyped'
  BY <1>1, <1>2 DEF Typed, ThreadsTyped, TableTyped, table, threads
<1>4. RestTyped'
  BY <1>1 DEF Client, ClientConnects, ClientTypes, ClientStops, ClientReceives, ClientEnds,
              Typed, RestTyped, process
<1>5. toServer' \in [Clients -> Seq(Requests)]
  <2>1. UNCHANGED toServer \/ \E m \in Requests : ClientSays(c, m)
    BY DEF Client, ClientConnects, ClientTypes, ClientStops, ClientReceives, ClientEnds, Requests
  <2> QED
    BY <2>1, SaysTyped DEF Typed, StreamsTyped
<1>6. toClient' \in [Clients -> Seq(Answers)]
  <2>1. CASE ClientReceives(c)
    <3>1. PICK rest \in Rests(toClient[c]) :
            toClient' = [toClient EXCEPT ![c] = IF client'[c] = "gone" THEN <<>> ELSE rest]
      BY <2>1 DEF ClientReceives
    <3>2. rest \in Seq(Answers)
      BY <3>1, RestsTyped DEF Typed, StreamsTyped
    <3> QED
      BY <3>1, <3>2, EmptyTyped DEF Typed, StreamsTyped
  <2>2. CASE ~ClientReceives(c)
    BY <2>2, EmptyTyped DEF Client, ClientConnects, ClientTypes, ClientStops, ClientEnds,
                            Typed, StreamsTyped
  <2> QED
    BY <2>1, <2>2
<1> QED
  BY <1>1, <1>3, <1>4, <1>5, <1>6 DEF Typed, StreamsTyped

LEMMA HandlerTyped ==
  ASSUME Typed, NEW h \in Clients, Handler(h)
  PROVE  Typed'
<1>1. UNCHANGED <<setup, checker, server_running, client>>
  BY DEF Handler, Silent, HandlerBroadcasts, HandlerSendsPrivately, PassesOn
<1>2. Slots' = Slots
  BY <1>1, SetupStays
<1> USE DEF Typed
<1>s. ASSUME NEW c \in Clients, NEW m \in Answers, SendsTo(c, m)
      PROVE  toClient' \in [Clients -> Seq(Answers)] /\ reset' \subseteq Clients
  BY <1>s, SendsTyped DEF SendsTo
<1>d. ASSUME NEW to, Survives \/ Dies(to) PROVE main' \in {"accepting", "closing", "joining", "over"}
  BY <1>d DEF Survives, Dies, RestTyped
<1>r. ASSUME delivered' \subseteq Texts, main' \in {"accepting", "closing", "joining", "over"}
      PROVE  RestTyped'
  BY <1>r, <1>1 DEF RestTyped
<1>3. ASSUME NEW kind \in {"2ALL", "2ONE"}, NEW named \in Ids \union {NoId}, NEW to \in SUBSET Clients,
             PassesOn(h, kind, named, to)
      PROVE  Typed'
  <2>1. /\ Receives(h, "TEXT", "loop") /\ Sends([c \in to |-> "TEXT"])
        /\ (Survives \/ Dies(to)) /\ UNCHANGED clients
        /\ delivered' = [kind : {kind}, sender : {IdOf[h]}, author : {IdOf[reading[h]]},
                         named : {named}, to : to]
    BY <1>3 DEF PassesOn
  <2>2. /\ toServer' \in [Clients -> Seq(Requests)] /\ ThreadsTyped'
        /\ reading[h] \in Clients /\ UNCHANGED open
    BY <2>1, ReceivesTyped
  <2>3. "TEXT" \in Answers
    BY DEF Answers
  <2>4. StreamsTyped'
    BY <2>1, <2>2, <2>3, SendsTyped DEF StreamsTyped
  <2>5. IdOf[h] \in Ids /\ IdOf[reading[h]] \in Ids
    BY <2>2, SetupTyped DEF RestTyped
  <2>6. delivered' \subseteq Texts
    BY <2>1, <2>5 DEF Texts
  <2>7. RestTyped'
    BY <2>1, <2>6, <1>d, <1>r
  <2> QED
    BY <1>2, <2>1, <2>2, <2>4, <2>7 DEF TableTyped
<1>4. CASE HandlerBroadcasts(h)
  <2>1. ConnectionsOf(Others(IdOf[h])) \in SUBSET Clients
    BY ConnectionsTyped DEF Others
  <2> QED
    BY <1>3, <1>4, <2>1 DEF HandlerBroadcasts
<1>5. CASE HandlerSendsPrivately(h)
  <2>1. PICK id \in Ids :
          PassesOn(h, "2ONE", id, IF Named(id) = {} THEN {} ELSE ConnectionsOf({Lowest(Named(id))}))
    BY <1>5 DEF HandlerSendsPrivately
  <2>2. Named(id) \in SUBSET Active /\ Named(id) \in SUBSET Nat
    BY ActiveFinite, SetupTyped DEF Named, RestTyped
  <2>3. Named(id) # {} => ConnectionsOf({Lowest(Named(id))}) \in SUBSET Clients
    BY <2>2, Minimum, ConnectionsTyped
  <2> QED
    BY <1>3, <2>1, <2>3
<1>6. ASSUME Silent,
             toServer' \in [Clients -> Seq(Requests)], toClient' \in [Clients -> Seq(Answers)],
             reset' \subseteq Clients, ThreadsTyped', TableTyped',
             Survives \/ \E to : Dies(to)
      PROVE  Typed'
  BY <1>6, <1>d, <1>r DEF Silent, StreamsTyped
<1>7. CASE Silent /\ HandlerLosesClient(h)
  <2>1. /\ Closes({client_socket[h]}) /\ Ends(h)
        /\ UNCHANGED <<clients, reading, main, toClient, reset>>
    BY <1>7 DEF HandlerLosesClient, table, process
  <2> QED
    BY <1>2, <1>6, <1>7, <2>1, ClosesTyped, EndsTyped DEF Survives, TableTyped, StreamsTyped
<1>8. CASE Silent /\ HandlerRefuses(h)
  <2>1. /\ toServer' = [toServer EXCEPT ![h] = <<>>] /\ SendsTo(h, "TEXT") /\ Ends(h)
        /\ open' = [open EXCEPT ![client_socket[h]] = Nobody]
        /\ UNCHANGED <<clients, reading>> /\ (Survives \/ Dies({h}))
    BY <1>8 DEF HandlerRefuses, Greeted, table
  <2>2. toServer' \in [Clients -> Seq(Requests)] /\ TableTyped'
    BY <1>2, <2>1, EmptyTyped DEF StreamsTyped, TableTyped
  <2> QED
    BY <1>6, <1>8, <1>s, <2>1, <2>2, EndsTyped DEF Answers
<1>9. CASE Silent /\ HandlerRegisters(h)
  <2>1. /\ handler[h] = "first" /\ toServer' = [toServer EXCEPT ![h] = <<>>] /\ Goes(h, "loop")
        /\ UNCHANGED <<client_socket, reading>>
    BY <1>9 DEF HandlerRegisters, Greeted
  <2>2. toServer' \in [Clients -> Seq(Requests)] /\ ThreadsTyped'
    BY <2>1, EmptyTyped, GoesTyped DEF StreamsTyped
  <2>3. /\ Survives \/ \E to : Dies(to)
        /\ UNCHANGED <<toClient, reset>> \/ SendsTo(h, "OK")
    BY <1>9 DEF HandlerRegisters, SendFails, Survives
  <2>4. toClient' \in [Clients -> Seq(Answers)] /\ reset' \subseteq Clients
    BY <2>3, <1>s DEF StreamsTyped, Answers
  <2>5. TableTyped'
    <3>1. client_socket[h] \in Descriptors /\ IdOf[h] \in Ids
      BY <2>1, SetupTyped DEF ThreadsTyped, RestTyped
    <3>2. /\ [socket |-> client_socket[h], id |-> IdOf[h], age |-> 0] \in Entries
          /\ NotRegistered(client_socket[h], IdOf[h]) \in Entries
      BY <3>1, ConstantsAssumption DEF ConstantsAssumption, Entries, NotRegistered
    <3>3. /\ clients' = clients
             \/ \E i \in Slots, e \in Entries : clients' = [clients EXCEPT ![i] = e]
          /\ open' = open \/ open' = [open EXCEPT ![client_socket[h]] = Nobody]
      <4>1. Slots \ Active # {} => Lowest(Slots \ Active) \in Slots
        BY Minimum, SetupTyped DEF RestTyped
      <4> QED
        BY <1>9, <3>2, <4>1 DEF HandlerRegisters, table
    <3> QED
      BY <1>2, <3>3 DEF TableTyped
  <2> QED
    BY <1>6, <1>9, <2>2, <2>3, <2>4, <2>5
<1>10. CASE Silent /\ HandlerWaits(h)
  <2>1. UNCHANGED <<clients, open, main, toServer, toClient, reset>>
    BY <1>10 DEF HandlerWaits, table, process, streams
  <2>2. ThreadsTyped'
    BY <1>10 DEF HandlerWaits, Goes, ThreadsTyped, TableTyped
  <2> QED
    BY <1>2, <1>6, <1>10, <2>1, <2>2 DEF Survives, TableTyped, StreamsTyped
<1>11. CASE Silent /\ HandlerLosesConnection(h)
  <2>1. UNCHANGED <<clients, open, main, toServer, toClient, reset>>
    BY <1>11 DEF HandlerLosesConnection, table, process, streams
  <2>2. ThreadsTyped'
    BY <1>11 DEF HandlerLosesConnection, Goes, ThreadsTyped
  <2> QED
    BY <1>2, <1>6, <1>11, <2>1, <2>2 DEF Survives, TableTyped, StreamsTyped
<1>12. CASE Silent /\ HandlerTouches(h)
  <2>1. /\ Receives(h, "PONG", "loop") /\ UNCHANGED <<main, toClient, reset>>
        /\ clients' = [i \in Slots |-> IF i \in SlotOf(client_socket[h])
                                       THEN [clients[i] EXCEPT !.age = 0] ELSE clients[i]]
    BY <1>12 DEF HandlerTouches
  <2>2. clients' \in [Slots -> Entries]
    BY <2>1, ConstantsAssumption DEF ConstantsAssumption, TableTyped, Entries
  <2> QED
    BY <1>2, <1>6, <1>12, <2>1, <2>2, ReceivesTyped DEF Survives, TableTyped, StreamsTyped
<1>13. ASSUME Silent, NEW m, NEW next \in {"loop", "remove"}, Receives(h, m, next),
              UNCHANGED clients, Survives \/ \E to : Dies(to),
              UNCHANGED <<toClient, reset>> \/ \E c \in Clients : SendsTo(c, "TEXT")
       PROVE  Typed'
  <2>1. toClient' \in [Clients -> Seq(Answers)] /\ reset' \subseteq Clients
    BY <1>13, <1>s DEF StreamsTyped, Answers
  <2> QED
    BY <1>2, <1>6, <1>13, <2>1, ReceivesTyped DEF TableTyped
<1>14. CASE Silent /\ (HandlerLists(h) \/ HandlerRejects(h))
  <2>1. PICK next \in {"loop", "remove"} : \E m : Receives(h, m, next)
    BY <1>14 DEF HandlerLists, HandlerRejects
  <2>2. open[client_socket[h]] \in Clients \union {Nobody}
    BY <2>1 DEF Receives, ThreadsTyped, TableTyped
  <2> QED
    BY <1>13, <1>14, <2>2 DEF HandlerLists, HandlerRejects, SendFails, Survives
<1>15. CASE Silent /\ HandlerStops(h)
  BY <1>13, <1>15 DEF HandlerStops, Survives
<1>16. CASE Silent /\ HandlerRemoves(h)
  <2>1. /\ Ends(h) /\ UNCHANGED <<reading, main, toClient, reset>>
        /\ \/ UNCHANGED <<clients, open, toServer>>
           \/ Closes({client_socket[h]}) /\ \E i : clients' = [clients EXCEPT ![i] = Free]
    BY <1>16 DEF HandlerRemoves, table, process
  <2>2. Free \in Entries
    BY ConstantsAssumption DEF ConstantsAssumption, Free, Entries
  <2>3. TableTyped' /\ toServer' \in [Clients -> Seq(Requests)]
    BY <1>2, <2>1, <2>2, ClosesTyped DEF TableTyped, StreamsTyped
  <2> QED
    BY <1>6, <1>16, <2>1, <2>3, EndsTyped DEF Survives, StreamsTyped
<1> QED
  BY <1>4, <1>5, <1>7, <1>8, <1>9, <1>10, <1>11, <1>12, <1>14, <1>15, <1>16 DEF Handler

LEMMA MainTyped ==
  ASSUME Typed, OneNumberEach, Main
  PROVE  Typed'
<1> USE DEF Typed
<1>1. setup' = setup /\ delivered' \subseteq Texts
  BY DEF Main, Silent
<1>2. Slots' = Slots
  BY <1>1, SetupStays
<1>3. ASSUME NEW c \in Clients, MainAccepts(c) PROVE Typed'
  <2> DEFINE n == Lowest({k \in Descriptors : open[k] = Nobody})
  <2>1. n \in Descriptors
    BY <1>3, NumberLeft, Minimum, DescriptorsFinite DEF MainAccepts
  <2>2. /\ UNCHANGED <<clients, reading, checker, server_running, client>>
        /\ main' \in {"accepting", "closing"}
        /\ \/ /\ SendsTo(c, "TEXT") /\ toServer' = [toServer EXCEPT ![c] = <<>>]
              /\ handler' = [handler EXCEPT ![c] = "ended"] /\ UNCHANGED <<open, client_socket>>
           \/ /\ open' = [open EXCEPT ![n] = c]
              /\ client_socket' = [client_socket EXCEPT ![c] = n]
              /\ handler' = [handler EXCEPT ![c] = "first"]
              /\ UNCHANGED <<toServer, toClient, reset>>
    BY <1>3 DEF MainAccepts, table, streams
  <2>3. StreamsTyped'
    <3>1. SendsTo(c, "TEXT") => toClient' \in [Clients -> Seq(Answers)] /\ reset' \subseteq Clients
      BY SendsTyped DEF SendsTo, Answers
    <3>2. toServer' \in [Clients -> Seq(Requests)]
      <4>1. UNCHANGED toServer \/ toServer' = [toServer EXCEPT ![c] = <<>>]
        BY <2>2
      <4> QED
        BY <4>1, EmptyTyped DEF StreamsTyped
    <3>3. SendsTo(c, "TEXT") \/ UNCHANGED <<toClient, reset>>
      BY <2>2
    <3> QED
      BY <3>1, <3>2, <3>3 DEF StreamsTyped
  <2>4. ThreadsTyped' /\ TableTyped' /\ RestTyped'
    BY <1>1, <1>2, <2>1, <2>2 DEF ThreadsTyped, TableTyped, RestTyped
  <2> QED
    BY <2>3, <2>4
<1>4. CASE MainCloses
  <2>1. /\ Closes({clients[i].socket : i \in Active}) /\ main' = "joining"
        /\ UNCHANGED <<clients, threads, checker, server_running, client, toClient, reset>>
    BY <1>4 DEF MainCloses, table
  <2>2. StreamsTyped'
    BY <2>1, ClosesTyped DEF StreamsTyped
  <2>3. TableTyped'
    BY <1>2, <2>1, ClosesTyped DEF TableTyped
  <2>4. ThreadsTyped' /\ RestTyped'
    BY <1>1, <2>1 DEF ThreadsTyped, RestTyped, threads
  <2> QED
    BY <2>2, <2>3, <2>4
<1>5. CASE MainInterrupted \/ MainEnds
  BY <1>1, <1>2, <1>5 DEF MainInterrupted, MainEnds, StreamsTyped, ThreadsTyped, TableTyped, RestTyped,
                          table, threads, streams
<1> QED
  BY <1>3, <1>4, <1>5 DEF Main

(* One run of alive_checker, by what it drops and whom it pings. *)
Pings(gone) == {open[clients[i].socket] : i \in Active \ gone}

LEMMA CheckerDrops ==
  ASSUME CheckerPass
  PROVE  \E late \in [Active -> -1 .. 1], gone \in SUBSET Active :
           /\ \A i \in Active \ gone : ~TimedOut(i, late[i])
           /\ Nobody \notin Pings(gone)
           /\ clients' = [i \in Slots |-> IF i \in gone THEN Free
                                          ELSE IF i \in Active THEN Waited(i) ELSE clients[i]]
           /\ client_count' = client_count - Cardinality(gone)
           /\ Closes({clients[i].socket : i \in gone})
           /\ Sends([c \in Pings(gone) |-> "PING"])
           /\ Survives \/ Dies(Pings(gone))
BY DEF CheckerPass, Pings, Dropped

LEMMA CheckerTyped ==
  ASSUME Typed, CheckerPass
  PROVE  Typed'
<1> USE DEF Typed
<1>1. PICK late \in [Active -> -1 .. 1], gone \in SUBSET Active :
        /\ \A i \in Active \ gone : ~TimedOut(i, late[i])
        /\ Nobody \notin Pings(gone)
        /\ clients' = [i \in Slots |-> IF i \in gone THEN Free
                                       ELSE IF i \in Active THEN Waited(i) ELSE clients[i]]
        /\ Closes({clients[i].socket : i \in gone})
        /\ Sends([c \in Pings(gone) |-> "PING"])
        /\ Survives \/ Dies(Pings(gone))
  BY CheckerDrops
<1>2. /\ setup' = setup /\ delivered' = {} /\ checker' \in {"running", "ended"}
      /\ UNCHANGED <<handler, client_socket, reading, server_running, client>>
  BY DEF CheckerPass, Silent, threads
<1>3. Slots' = Slots
  BY <1>2, SetupStays
<1>4. Pings(gone) \in SUBSET Clients
  BY <1>1, EntryTyped DEF Pings
<1>5. StreamsTyped'
  BY <1>1, <1>4, SendsTyped, ClosesTyped DEF StreamsTyped, Answers
<1>6. ASSUME NEW i \in Active \ gone PROVE Waited(i) \in Entries
  <2>1. /\ clients[i] \in Entries /\ clients[i].age + 1 + late[i] <= PING_TIMEOUT
        /\ late[i] \in -1 .. 1 /\ PING_TIMEOUT \in Nat
    BY <1>1, <1>6, EntryTyped, ConstantsAssumption
    DEF ConstantsAssumption, TableTyped, TimedOut, Entries
  <2> QED
    BY <2>1 DEF Waited, Entries
<1>7. Free \in Entries
  BY ConstantsAssumption DEF ConstantsAssumption, Free, Entries
<1>8. TableTyped'
  <2>1. \A i \in Slots : clients'[i] \in Entries
    BY <1>1, <1>6, <1>7 DEF TableTyped
  <2>2. clients' = [i \in Slots |-> clients'[i]]
    BY <1>1
  <2>3. clients' \in [Slots -> Entries]
    BY <2>1, <2>2
  <2> QED
    BY <1>1, <1>3, <2>3, ClosesTyped DEF TableTyped
<1>9. ThreadsTyped' /\ RestTyped'
  BY <1>1, <1>2 DEF ThreadsTyped, RestTyped, Survives, Dies
<1> QED
  BY <1>5, <1>8, <1>9

-----------------------------------------------------------------------------
(* Numbers and entries, by what a step does to them *)

LEMMA FirstHasNoEntry ==
  ASSUME Typed, Owned, NEW h \in Clients, handler[h] = "first", NEW i \in Active
  PROVE  clients[i].socket # client_socket[h] /\ open[clients[i].socket] # h
BY ConstantsAssumption DEF ConstantsAssumption, Owned, FirstOwns, Theirs, Typed

(* Threads go from one place to another, entries stay. *)
LEMMA Moving ==
  ASSUME Typed, Consistent, setup' = setup, UNCHANGED <<client_count, open, client_socket>>,
         \A i \in Slots : clients'[i].socket = clients[i].socket,
         \A i \in Active : clients'[i].id = clients[i].id,
         \/ UNCHANGED handler
         \/ \E h \in Clients, place \in {"loop", "recv", "remove"} :
              /\ handler[h] \in {"first", "loop", "recv", "remove"}
              /\ handler' = [handler EXCEPT ![h] = place],
         main' \in {"accepting", "closing"} => main \in {"accepting", "closing"}
  PROVE  Consistent'
<1>1. Slots' = Slots /\ IdOf' = IdOf
  BY SetupStays
<1>2. Active' = Active
  BY <1>1 DEF Active
<1>3. CountAgrees' /\ UniqueIds' /\ OneEntryEach'
  BY <1>2, ActiveFinite DEF Consistent, CountAgrees, UniqueIds, Owned, OneEntryEach, Typed, RestTyped
<1>4. \A c \in Clients :
        /\ handler[c] # "none" => handler'[c] # "none"
        /\ handler'[c] = "first" => handler[c] = "first"
        /\ handler[c] \in {"loop", "recv", "remove"} => handler'[c] \in {"loop", "recv", "remove"}
  BY DEF Typed, ThreadsTyped
<1>5. OneNumberEach' /\ FirstOwns'
  BY <1>4 DEF Consistent, Owned, OneNumberEach, FirstOwns, Typed, TableTyped
<1>6. Theirs'
  BY <1>1, <1>2, <1>4, ActiveFinite, EntryTyped DEF Consistent, Owned, Theirs, Typed, RestTyped
<1> QED
  BY <1>3, <1>5, <1>6 DEF Consistent, Owned

(* Entries are given back, with their numbers. *)
LEMMA Leaving ==
  ASSUME Typed, Consistent, setup' = setup, NEW gone \in SUBSET Active,
         \A i \in gone : clients'[i].socket = 0,
         \A i \in Slots \ gone : /\ clients'[i].socket = clients[i].socket
                                 /\ clients'[i].id = clients[i].id,
         client_count' = client_count - Cardinality(gone),
         Closes({clients[i].socket : i \in gone}),
         \/ UNCHANGED <<handler, client_socket>>
         \/ \E h \in Clients : /\ handler[h] = "remove" /\ Ends(h)
                               /\ \A i \in Active \ gone : clients[i].socket # client_socket[h],
         main' \in {"accepting", "closing"} => main \in {"accepting", "closing"}
  PROVE  Consistent'
<1>1. Slots' = Slots /\ IdOf' = IdOf
  BY SetupStays
<1>2. Active' = Active \ gone
  BY <1>1 DEF Active
<1>3. CountAgrees'
  <2>1. IsFiniteSet(Active)
    BY ActiveFinite DEF Typed, RestTyped
  <2>2. Cardinality(Active \ gone) = Cardinality(Active) - Cardinality(Active \cap gone)
    BY <2>1, FS_Difference, Zenon
  <2>3. client_count = Cardinality(Active)
    BY DEF Consistent, CountAgrees
  <2>4. client_count' = Cardinality(Active \ gone)
    <3>1. Active \cap gone = gone
      OBVIOUS
    <3> QED
      BY <2>2, <2>3, <3>1
  <2> QED
    BY <1>2, <2>4 DEF CountAgrees
<1>4. \A i \in Active' : i \in Active /\ clients'[i].socket = clients[i].socket
                         /\ clients'[i].id = clients[i].id
  BY <1>2, ActiveFinite DEF Typed, RestTyped
<1>5. UniqueIds' /\ OneEntryEach'
  BY <1>4 DEF Consistent, Owned, UniqueIds, OneEntryEach
<1> DEFINE N == {clients[i].socket : i \in gone}
<1>6. \A n \in Descriptors : open'[n] = IF n \in N THEN Nobody ELSE open[n]
  BY DEF Closes
<1>7. \A c \in Clients :
        /\ handler[c] # "none" => handler'[c] # "none"
        /\ handler'[c] = "first" => handler[c] = "first" /\ client_socket'[c] = client_socket[c]
  BY DEF Typed, ThreadsTyped, Ends, Goes
<1>8. OneNumberEach'
  BY <1>6, <1>7 DEF Consistent, Owned, OneNumberEach, Typed, TableTyped
<1>9. FirstOwns'
  <2> SUFFICES ASSUME NEW h \in Clients, handler'[h] = "first"
               PROVE  open'[client_socket'[h]] = h
    BY DEF FirstOwns
  <2>1. handler[h] = "first" /\ client_socket'[h] = client_socket[h]
    BY <1>7
  <2>2. client_socket[h] \notin N
    BY <2>1, FirstHasNoEntry DEF Consistent
  <2>3. client_socket[h] \in Descriptors
    BY <2>1 DEF Typed, ThreadsTyped
  <2> QED
    BY <1>6, <2>1, <2>2, <2>3 DEF Consistent, Owned, FirstOwns
<1>10. Theirs'
  <2> SUFFICES ASSUME NEW i \in Active'
               PROVE  LET c == open'[clients'[i].socket]
                      IN  /\ main' \in {"accepting", "closing"} => c # Nobody
                          /\ c # Nobody => /\ IdOf'[c] = clients'[i].id
                                           /\ handler'[c] \in {"loop", "recv", "remove"}
                                           /\ client_socket'[c] = clients'[i].socket
    BY DEF Theirs
  <2> DEFINE c == open[clients[i].socket]
  <2>1. i \in Active \ gone /\ clients[i].socket \in Descriptors /\ c \in Clients \union {Nobody}
    BY <1>2, EntryTyped DEF Typed
  <2>2. clients[i].socket \notin N
    BY <2>1 DEF Consistent, Owned, OneEntryEach
  <2>3. open'[clients'[i].socket] = c
    BY <1>4, <1>6, <2>1, <2>2
  <2>4. /\ main \in {"accepting", "closing"} => c # Nobody
        /\ c # Nobody => /\ IdOf[c] = clients[i].id
                         /\ handler[c] \in {"loop", "recv", "remove"}
                         /\ client_socket[c] = clients[i].socket
    BY <2>1 DEF Consistent, Owned, Theirs
  <2>5. c # Nobody => handler'[c] = handler[c] /\ client_socket'[c] = client_socket[c]
    BY <2>1, <2>4 DEF Ends, Goes, Typed, ThreadsTyped
  <2> QED
    BY <1>1, <1>4, <2>3, <2>4, <2>5
<1> QED
  BY <1>3, <1>5, <1>8, <1>9, <1>10 DEF Consistent, Owned

(* A thread closes its number without an entry. *)
LEMMA GivingUp ==
  ASSUME Typed, Consistent, setup' = setup, NEW h \in Clients, handler[h] = "first",
         \A i \in Slots : clients'[i].socket = clients[i].socket,
         \A i \in Active : clients'[i].id = clients[i].id,
         UNCHANGED client_count,
         main' \in {"accepting", "closing"} => main \in {"accepting", "closing"},
         open' = [open EXCEPT ![client_socket[h]] = Nobody],
         \/ Goes(h, "loop") /\ UNCHANGED client_socket
         \/ Ends(h)
  PROVE  Consistent'
<1>1. Slots' = Slots /\ IdOf' = IdOf
  BY SetupStays
<1>2. Active' = Active
  BY <1>1 DEF Active
<1>3. CountAgrees' /\ UniqueIds' /\ OneEntryEach'
  BY <1>2, ActiveFinite DEF Consistent, CountAgrees, UniqueIds, Owned, OneEntryEach, Typed, RestTyped
<1>4. client_socket[h] \in Descriptors
  BY DEF Typed, ThreadsTyped
<1>5. \A n \in Descriptors : open'[n] = IF n = client_socket[h] THEN Nobody ELSE open[n]
  BY <1>4 DEF Typed, TableTyped
<1>6. /\ handler'[h] \in {"loop", "ended"}
      /\ \A c \in Clients \ {h} : handler'[c] = handler[c] /\ client_socket'[c] = client_socket[c]
  BY DEF Typed, ThreadsTyped, Goes, Ends
<1>7. OneNumberEach'
  <2>1. \A c \in Clients : handler[c] # "none" => handler'[c] # "none"
    BY <1>6
  <2> QED
    BY <1>5, <2>1 DEF Consistent, Owned, OneNumberEach, Typed, TableTyped
<1>8. FirstOwns'
  <2> SUFFICES ASSUME NEW c \in Clients, handler'[c] = "first"
               PROVE  open'[client_socket'[c]] = c
    BY DEF FirstOwns
  <2>1. c # h /\ handler[c] = "first" /\ client_socket'[c] = client_socket[c]
    BY <1>6
  <2>2. client_socket[c] \in Descriptors
    BY <2>1 DEF Typed, ThreadsTyped
  <2>3. open[client_socket[c]] = c /\ open[client_socket[h]] = h
    BY <2>1 DEF Consistent, Owned, FirstOwns
  <2> QED
    BY <1>5, <2>1, <2>2, <2>3
<1>9. Theirs'
  <2>1. \A i \in Active : /\ clients[i].socket # client_socket[h]
                          /\ open[clients[i].socket] # h
    BY FirstHasNoEntry DEF Consistent
  <2>2. \A i \in Active : /\ clients'[i].socket = clients[i].socket
                          /\ open'[clients[i].socket] = open[clients[i].socket]
                          /\ open[clients[i].socket] \in Clients \union {Nobody}
    BY <1>5, <2>1, EntryTyped, ActiveFinite DEF Typed, RestTyped
  <2> QED
    BY <1>1, <1>2, <1>6, <2>1, <2>2 DEF Consistent, Owned, Theirs
<1> QED
  BY <1>3, <1>7, <1>8, <1>9 DEF Consistent, Owned

(* A client is registered. *)
LEMMA Entering ==
  ASSUME Typed, Consistent, setup' = setup, NEW h \in Clients, handler[h] = "first",
         ~InUse(IdOf[h]), NEW i \in Slots \ Active,
         clients' = [clients EXCEPT ![i] = [socket |-> client_socket[h], id |-> IdOf[h], age |-> 0]],
         client_count' = client_count + 1,
         UNCHANGED <<open, client_socket>>, Goes(h, "loop"),
         main' \in {"accepting", "closing"} => main \in {"accepting", "closing"}
  PROVE  Consistent'
<1>1. Slots' = Slots /\ IdOf' = IdOf
  BY SetupStays
<1>2. client_socket[h] \in Descriptors /\ client_socket[h] # 0
  BY DescriptorsFinite DEF Typed, ThreadsTyped
<1>3. /\ clients'[i].socket = client_socket[h] /\ clients'[i].id = IdOf[h]
      /\ \A j \in Slots \ {i} : clients'[j] = clients[j]
  BY DEF Typed, TableTyped
<1>4. Active' = Active \union {i}
  BY <1>1, <1>2, <1>3 DEF Active
<1>5. CountAgrees'
  <2>1. IsFiniteSet(Active) /\ Cardinality(Active) \in Nat
    BY ActiveFinite, SetupTyped DEF Typed, RestTyped
  <2>2. Cardinality(Active \union {i}) = Cardinality(Active) + 1
    BY <2>1, FS_AddElement
  <2>3. client_count' = Cardinality(Active) + 1
    BY DEF Consistent, CountAgrees
  <2> QED
    BY <1>4, <2>2, <2>3 DEF CountAgrees
<1>6. \A j \in Active : j \in Slots /\ j # i /\ clients'[j] = clients[j]
  BY <1>3 DEF Active
<1>7. UniqueIds'
  BY <1>3, <1>4, <1>6 DEF Consistent, UniqueIds, InUse
<1>8. \A j \in Active : clients[j].socket # client_socket[h]
  BY FirstHasNoEntry DEF Consistent
<1>9. OneEntryEach'
  BY <1>3, <1>4, <1>6, <1>8 DEF Consistent, Owned, OneEntryEach
<1>10. /\ handler'[h] = "loop" /\ \A c \in Clients \ {h} : handler'[c] = handler[c]
  BY DEF Goes, Typed, ThreadsTyped
<1>11. OneNumberEach' /\ FirstOwns'
  BY <1>10 DEF Consistent, Owned, OneNumberEach, FirstOwns, Typed, TableTyped
<1>12. Theirs'
  <2>1. open[client_socket[h]] = h /\ h # Nobody
    BY ConstantsAssumption DEF ConstantsAssumption, Consistent, Owned, FirstOwns
  <2>2. \A j \in Active : open[clients[j].socket] \in (Clients \ {h}) \union {Nobody}
    BY FirstHasNoEntry, EntryTyped DEF Consistent, Typed
  <2> QED
    BY <1>1, <1>3, <1>4, <1>6, <1>10, <2>1, <2>2 DEF Consistent, Owned, Theirs
<1> QED
  BY <1>5, <1>7, <1>9, <1>11, <1>12 DEF Consistent, Owned

(* A connection is accepted, or refused. *)
LEMMA Accepting ==
  ASSUME Typed, Consistent, setup' = setup, NEW c \in Clients, MainAccepts(c)
  PROVE  Consistent'
<1> DEFINE n == Lowest({k \in Descriptors : open[k] = Nobody})
<1>1. Slots' = Slots /\ IdOf' = IdOf
  BY SetupStays
<1>2. /\ main = "accepting" /\ handler[c] = "none" /\ UNCHANGED <<clients, client_count>>
      /\ \/ /\ handler' = [handler EXCEPT ![c] = "ended"] /\ UNCHANGED <<open, client_socket>>
         \/ /\ open' = [open EXCEPT ![n] = c]
            /\ client_socket' = [client_socket EXCEPT ![c] = n]
            /\ handler' = [handler EXCEPT ![c] = "first"]
  BY DEF MainAccepts, table
<1>3. Active' = Active
  BY <1>1, <1>2 DEF Active
<1>4. CountAgrees' /\ UniqueIds' /\ OneEntryEach'
  BY <1>2, <1>3 DEF Consistent, CountAgrees, UniqueIds, Owned, OneEntryEach
<1>5. n \in Descriptors /\ open[n] = Nobody
  BY <1>2, NumberLeft, Minimum, DescriptorsFinite DEF Consistent, Owned
<1>6. c # Nobody /\ \A k \in Descriptors : open[k] # c
  BY <1>2, ConstantsAssumption DEF ConstantsAssumption, Consistent, Owned, OneNumberEach
<1>7. \A b \in Clients \ {c} : handler'[b] = handler[b] /\ client_socket'[b] = client_socket[b]
  BY <1>2 DEF Typed, ThreadsTyped
<1>8. handler'[c] # "none"
  BY <1>2 DEF Typed, ThreadsTyped
<1>9. \A k \in Descriptors : open'[k] = open[k] \/ (k = n /\ open'[k] = c)
  BY <1>2 DEF Typed, TableTyped
<1>10. OneNumberEach'
  <2>1. \A k \in Descriptors : open[k] # Nobody => open[k] \in Clients \ {c}
    BY <1>6 DEF Typed, TableTyped
  <2> QED
    BY <1>5, <1>6, <1>7, <1>8, <1>9, <2>1 DEF Consistent, Owned, OneNumberEach
<1>11. FirstOwns'
  <2> SUFFICES ASSUME NEW b \in Clients, handler'[b] = "first"
               PROVE  open'[client_socket'[b]] = b
    BY DEF FirstOwns
  <2>1. CASE b = c
    BY <1>2, <1>5, <2>1 DEF Typed, ThreadsTyped, TableTyped
  <2>2. CASE b # c
    <3>1. handler[b] = "first" /\ client_socket'[b] = client_socket[b]
      BY <1>7, <2>2
    <3>2. client_socket[b] \in Descriptors /\ open[client_socket[b]] = b
      BY <3>1 DEF Typed, ThreadsTyped, Consistent, Owned, FirstOwns
    <3>3. b # Nobody
      BY ConstantsAssumption DEF ConstantsAssumption
    <3> QED
      BY <1>5, <1>9, <3>1, <3>2, <3>3
  <2> QED
    BY <2>1, <2>2
<1>12. Theirs'
  <2>1. \A i \in Active : open[clients[i].socket] \in Clients \ {c}
    BY <1>2, <1>6, EntryTyped DEF Consistent, Owned, Theirs, Typed
  <2>2. \A i \in Active : open'[clients[i].socket] = open[clients[i].socket]
    BY <1>5, <1>9, <2>1, EntryTyped, ConstantsAssumption DEF ConstantsAssumption, Typed
  <2> QED
    BY <1>1, <1>2, <1>3, <1>7, <2>1, <2>2 DEF Consistent, Owned, Theirs
<1> QED
  BY <1>4, <1>10, <1>11, <1>12 DEF Consistent, Owned

(* main closes the numbers of all entries, which stay. *)
LEMMA Closing ==
  ASSUME Typed, Consistent, setup' = setup, MainCloses
  PROVE  Consistent'
<1>1. Slots' = Slots /\ IdOf' = IdOf
  BY SetupStays
<1>2. /\ UNCHANGED <<clients, client_count, handler, client_socket>> /\ main' = "joining"
      /\ Closes({clients[i].socket : i \in Active})
  BY DEF MainCloses, table, threads
<1>3. Active' = Active
  BY <1>1, <1>2 DEF Active
<1>4. CountAgrees' /\ UniqueIds' /\ OneEntryEach'
  BY <1>2, <1>3 DEF Consistent, CountAgrees, UniqueIds, Owned, OneEntryEach
<1>5. \A k \in Descriptors :
        open'[k] = IF k \in {clients[i].socket : i \in Active} THEN Nobody ELSE open[k]
  BY <1>2 DEF Closes
<1>6. OneNumberEach'
  BY <1>2, <1>5 DEF Consistent, Owned, OneNumberEach, Typed, TableTyped
<1>7. FirstOwns'
  <2> SUFFICES ASSUME NEW h \in Clients, handler[h] = "first"
               PROVE  open'[client_socket[h]] = h
    BY <1>2 DEF FirstOwns
  <2>1. client_socket[h] \notin {clients[i].socket : i \in Active}
    BY FirstHasNoEntry DEF Consistent
  <2>2. client_socket[h] \in Descriptors /\ open[client_socket[h]] = h
    BY DEF Typed, ThreadsTyped, Consistent, Owned, FirstOwns
  <2> QED
    BY <1>5, <2>1, <2>2
<1>8. Theirs'
  <2>1. \A i \in Active : open'[clients[i].socket] = Nobody
    BY <1>5, EntryTyped DEF Typed
  <2> QED
    BY <1>2, <1>3, <2>1 DEF Theirs
<1> QED
  BY <1>4, <1>6, <1>7, <1>8 DEF Consistent, Owned

-----------------------------------------------------------------------------
(* The invariant *)

LEMMA InvInit == Init => Inv
<1> SUFFICES ASSUME Init PROVE Inv
  OBVIOUS
<1>1. Typed
  BY TypedInit
<1>2. Active = {}
  BY DEF Init, Active, Free
<1>3. CountAgrees
  BY <1>2, FS_EmptySet DEF Init, CountAgrees
<1>4. UniqueIds /\ Owned
  BY <1>2 DEF Init, UniqueIds, Owned, OneEntryEach, OneNumberEach, FirstOwns, Theirs
<1> QED
  BY <1>1, <1>3, <1>4 DEF Inv, Consistent

LEMMA MainEndsOnly ==
  ASSUME main \in {"accepting", "closing", "joining", "over"}, Survives \/ \E to : Dies(to)
  PROVE  main' \in {"accepting", "closing"} => main \in {"accepting", "closing"}
BY DEF Survives, Dies

LEMMA HandlerConsistent ==
  ASSUME Typed, Consistent, NEW h \in Clients, Handler(h)
  PROVE  Consistent'
<1>1. setup' = setup
  BY DEF Handler, Silent, HandlerBroadcasts, HandlerSendsPrivately, PassesOn
<1>2. ASSUME NEW m, NEW next \in {"loop", "remove"}, Receives(h, m, next),
             \A i \in Slots : clients'[i].socket = clients[i].socket,
             \A i \in Active : clients'[i].id = clients[i].id,
             Survives \/ \E to : Dies(to)
      PROVE  Consistent'
  <2>1. /\ UNCHANGED <<client_count, open, client_socket>>
        /\ handler[h] = "recv" /\ handler' = [handler EXCEPT ![h] = next]
    BY <1>2 DEF Receives, Goes
  <2>2. main' \in {"accepting", "closing"} => main \in {"accepting", "closing"}
    BY <1>2, MainEndsOnly DEF Typed, RestTyped
  <2> QED
    BY <1>1, <1>2, <2>1, <2>2, Moving
<1>3. CASE HandlerBroadcasts(h) \/ HandlerSendsPrivately(h)
  BY <1>2, <1>3 DEF HandlerBroadcasts, HandlerSendsPrivately, PassesOn
<1>4. CASE HandlerLists(h) \/ HandlerRejects(h) \/ HandlerStops(h)
  BY <1>2, <1>4 DEF HandlerLists, HandlerRejects, HandlerStops, SendFails, Survives
<1>5. CASE HandlerTouches(h)
  <2>1. /\ Receives(h, "PONG", "loop") /\ Survives
        /\ \A i \in Slots : clients'[i].socket = clients[i].socket /\ clients'[i].id = clients[i].id
    BY <1>5 DEF HandlerTouches, Survives, Typed, TableTyped, Entries
  <2> QED
    BY <1>2, <2>1, ActiveFinite DEF Typed, RestTyped
<1>6. CASE HandlerWaits(h) \/ HandlerLosesConnection(h)
  <2>1. /\ UNCHANGED <<clients, client_count, open, client_socket, main>>
        /\ handler[h] \in {"loop", "recv"}
        /\ \E place \in {"loop", "recv", "remove"} : handler' = [handler EXCEPT ![h] = place]
    BY <1>6 DEF HandlerWaits, HandlerLosesConnection, table, process, Goes
  <2> QED
    BY <1>1, <2>1, Moving
<1>7. CASE HandlerLosesClient(h) \/ HandlerRefuses(h)
  <2>1. /\ handler[h] = "first" /\ Ends(h) /\ UNCHANGED <<clients, client_count>>
        /\ Survives \/ \E to : Dies(to)
    BY <1>7 DEF HandlerLosesClient, HandlerRefuses, Greeted, Survives, table, process
  <2>2. open' = [open EXCEPT ![client_socket[h]] = Nobody]
    BY <1>7 DEF HandlerLosesClient, HandlerRefuses, Closes, Typed, TableTyped
  <2> QED
    BY <1>1, <2>1, <2>2, MainEndsOnly, GivingUp DEF Typed, RestTyped
<1>8. CASE HandlerRegisters(h)
  <2> DEFINE i == Lowest(Slots \ Active)
  <2>1. /\ handler[h] = "first" /\ ~InUse(IdOf[h]) /\ Goes(h, "loop") /\ UNCHANGED client_socket
        /\ main' \in {"accepting", "closing"} => main \in {"accepting", "closing"}
    <3>1. Survives \/ \E to : Dies(to)
      BY <1>8 DEF HandlerRegisters, SendFails, Survives
    <3> QED
      BY <1>8, <3>1, MainEndsOnly DEF HandlerRegisters, Greeted, Typed, RestTyped
  <2>2. Slots \ Active # {} => i \in Slots \ Active
    BY Minimum, SetupTyped DEF Typed, RestTyped
  <2>3. CASE Slots \subseteq Active /\ UNCHANGED <<table, open>>
    BY <1>1, <2>1, <2>3, Moving DEF Goes, table
  <2>4. CASE /\ Slots \ Active # {}
             /\ clients' = [clients EXCEPT ![i] =
                              [socket |-> client_socket[h], id |-> IdOf[h], age |-> 0]]
             /\ client_count' = client_count + 1 /\ UNCHANGED open
    BY <1>1, <2>1, <2>2, <2>4, Entering
  <2>5. CASE /\ Slots \ Active # {}
             /\ clients' = [clients EXCEPT ![i] = NotRegistered(client_socket[h], IdOf[h])]
             /\ open' = [open EXCEPT ![client_socket[h]] = Nobody] /\ UNCHANGED client_count
    <3>1. clients[i].socket = 0 /\ i \in Slots /\ i \notin Active
      BY <2>2, <2>5 DEF Active
    <3>2. /\ \A j \in Slots : clients'[j].socket = clients[j].socket
          /\ \A j \in Active : clients'[j].id = clients[j].id
      BY <2>5, <3>1, ActiveFinite DEF NotRegistered, Typed, TableTyped, RestTyped
    <3> QED
      BY <1>1, <2>1, <2>5, <3>2, GivingUp
  <2> QED
    BY <1>8, <2>3, <2>4, <2>5 DEF HandlerRegisters
<1>9. CASE HandlerRemoves(h)
  <2> DEFINE n == client_socket[h]
  <2>1. handler[h] = "remove" /\ Ends(h) /\ UNCHANGED main /\ n \in Descriptors /\ n # 0
    BY <1>9, DescriptorsFinite DEF HandlerRemoves, process, Typed, ThreadsTyped
  <2>2. SlotOf(n) = {j \in Active : clients[j].socket = n} /\ SlotOf(n) \in SUBSET Nat
    BY <2>1, SetupTyped DEF SlotOf, Active, Typed, RestTyped
  <2>3. CASE SlotOf(n) = {}
    <3>1. UNCHANGED <<clients, client_count, open, toServer>>
      BY <1>9, <2>3 DEF HandlerRemoves, table
    <3>2. Closes({}) /\ client_count' = client_count - Cardinality({})
      BY <3>1, FS_EmptySet, ActiveFinite, SetupTyped
      DEF Closes, Typed, TableTyped, StreamsTyped, RestTyped, Consistent, CountAgrees
    <3>3. {clients[j].socket : j \in {}} = {}
      OBVIOUS
    <3> QED
      BY <1>1, <2>1, <2>2, <2>3, <3>1, <3>2, <3>3, Leaving
  <2>4. CASE SlotOf(n) # {}
    <3> DEFINE i == Lowest(SlotOf(n))
    <3>1. i \in Active /\ clients[i].socket = n
      BY <2>2, <2>4, Minimum
    <3>2. /\ clients' = [clients EXCEPT ![i] = Free] /\ client_count' = client_count - 1
          /\ Closes({n})
      BY <1>9, <2>4 DEF HandlerRemoves
    <3>3. \A j \in Active \ {i} : clients[j].socket # n
      BY <3>1 DEF Consistent, Owned, OneEntryEach
    <3>4. /\ \A j \in {i} : clients'[j].socket = 0
          /\ \A j \in Slots \ {i} : /\ clients'[j].socket = clients[j].socket
                                    /\ clients'[j].id = clients[j].id
      BY <3>1, <3>2, ActiveFinite DEF Free, Typed, TableTyped, RestTyped
    <3>5. Cardinality({i}) = 1 /\ {clients[j].socket : j \in {i}} = {n}
      BY <3>1, FS_Singleton
    <3> QED
      BY <1>1, <2>1, <3>1, <3>2, <3>3, <3>4, <3>5, Leaving
  <2> QED
    BY <2>3, <2>4
<1> QED
  BY <1>3, <1>4, <1>5, <1>6, <1>7, <1>8, <1>9 DEF Handler

LEMMA InvStep == Inv /\ [Next]_vars => Inv'
<1> SUFFICES ASSUME Inv, [Next]_vars PROVE Inv'
  OBVIOUS
<1> USE DEF Inv
<1>1. ASSUME NEW c \in Clients, Client(c) PROVE Inv'
  <2>1. UNCHANGED <<clients, client_count, open, handler, client_socket, main, setup>>
    BY <1>1 DEF Client, Silent, ClientConnects, ClientTypes, ClientStops, ClientReceives, ClientEnds,
                table, threads, process
  <2>2. Consistent'
    BY <2>1, Moving
  <2> QED
    BY <1>1, <2>2, ClientTyped
<1>2. ASSUME NEW h \in Clients, Handler(h) PROVE Inv'
  BY <1>2, HandlerTyped, HandlerConsistent
<1>3. CASE Main
  <2>1. setup' = setup
    BY <1>3 DEF Main, Silent
  <2>2. ASSUME MainInterrupted \/ MainEnds PROVE Consistent'
    <3>1. /\ UNCHANGED <<clients, client_count, open, handler, client_socket>>
          /\ main' = main \/ main' = "over"
      BY <2>2 DEF MainInterrupted, MainEnds, table, threads
    <3> QED
      BY <2>1, <3>1, Moving
  <2>3. Consistent'
    BY <1>3, <2>1, <2>2, Accepting, Closing DEF Main
  <2> QED
    BY <1>3, <2>3, MainTyped DEF Consistent, Owned
<1>4. CASE CheckerPass
  <2>1. PICK gone \in SUBSET Active :
          /\ clients' = [i \in Slots |-> IF i \in gone THEN Free
                                         ELSE IF i \in Active THEN Waited(i) ELSE clients[i]]
          /\ client_count' = client_count - Cardinality(gone)
          /\ Closes({clients[i].socket : i \in gone})
          /\ Survives \/ Dies(Pings(gone))
    BY <1>4, CheckerDrops
  <2>2. setup' = setup /\ UNCHANGED <<handler, client_socket>>
    BY <1>4 DEF CheckerPass, Silent, threads
  <2>3. /\ \A i \in gone : clients'[i].socket = 0
        /\ \A i \in Slots \ gone : /\ clients'[i].socket = clients[i].socket
                                   /\ clients'[i].id = clients[i].id
    BY <2>1, ActiveFinite DEF Waited, Free, Typed, TableTyped, RestTyped, Entries
  <2>4. main' \in {"accepting", "closing"} => main \in {"accepting", "closing"}
    BY <2>1, MainEndsOnly DEF Typed, RestTyped
  <2>5. Consistent'
    BY <2>1, <2>2, <2>3, <2>4, Leaving
  <2> QED
    BY <1>4, <2>5, CheckerTyped
<1>5. CASE UNCHANGED vars
  <2>1. UNCHANGED <<clients, client_count, open, handler, client_socket, main, setup>>
    BY <1>5 DEF vars, table, threads, process
  <2>2. Consistent'
    BY <2>1, Moving
  <2>3. Typed'
    <3>1. Slots' = Slots
      BY <2>1, SetupStays
    <3> QED
      BY <1>5, <3>1 DEF vars, table, threads, process, streams,
                        Typed, StreamsTyped, ThreadsTyped, TableTyped, RestTyped
  <2> QED
    BY <2>2, <2>3
<1> QED
  BY <1>1, <1>2, <1>3, <1>4, <1>5 DEF Next

LEMMA InvHolds == Spec => []Inv
BY InvInit, InvStep, PTL DEF Spec

-----------------------------------------------------------------------------
(* Whom a thread reads from.  As long as its client is registered, a recv    *)
(* begins, and stays, on this client's connection.                           *)

ReadsOwn == \A h \in Clients : handler[h] = "recv" /\ Registered(h) => reading[h] = h

(* A number is closed, or given to a client that had no thread. *)
LEMMA OpensForNew ==
  ASSUME Inv, [Next]_vars
  PROVE  \A n \in Descriptors :
           open'[n] = open[n] \/ open'[n] = Nobody
             \/ (open'[n] \in Clients /\ handler[open'[n]] = "none")
<1> USE DEF Inv, Typed, TableTyped
<1>1. ASSUME NEW N, Closes(N)
      PROVE  \A n \in Descriptors : open'[n] = open[n] \/ open'[n] = Nobody
  BY <1>1 DEF Closes
<1>2. ASSUME NEW c \in Clients, Client(c) PROVE UNCHANGED open
  BY <1>2 DEF Client, ClientConnects, ClientTypes, ClientStops, ClientReceives, ClientEnds
<1>3. ASSUME NEW h \in Clients, Handler(h)
      PROVE  \A n \in Descriptors : open'[n] = open[n] \/ open'[n] = Nobody
  <2>1. CASE HandlerLosesClient(h) \/ HandlerRemoves(h)
    BY <1>1, <2>1 DEF HandlerLosesClient, HandlerRemoves
  <2>2. CASE HandlerRefuses(h) \/ HandlerRegisters(h)
    BY <2>2 DEF HandlerRefuses, HandlerRegisters
  <2>3. CASE HandlerWaits(h) \/ HandlerLosesConnection(h)
    BY <2>3 DEF HandlerWaits, HandlerLosesConnection
  <2>4. CASE \E m, next : Receives(h, m, next)
    BY <2>4 DEF Receives
  <2> QED
    BY <1>3, <2>1, <2>2, <2>3, <2>4
    DEF Handler, HandlerBroadcasts, HandlerSendsPrivately, PassesOn, HandlerTouches,
        HandlerLists, HandlerRejects, HandlerStops
<1>4. ASSUME NEW c \in Clients, MainAccepts(c)
      PROVE  \A n \in Descriptors : open'[n] = open[n] \/ open'[n] = c
  BY <1>4 DEF MainAccepts
<1>5. ASSUME NEW c \in Clients, MainAccepts(c) PROVE handler[c] = "none"
  BY <1>5 DEF MainAccepts
<1>6. CASE Main
  BY <1>1, <1>4, <1>5, <1>6 DEF Main, MainInterrupted, MainCloses, MainEnds
<1>7. CASE CheckerPass
  <2>1. PICK N : Closes(N)
    BY <1>7 DEF CheckerPass
  <2> QED
    BY <1>1, <2>1
<1>8. CASE UNCHANGED vars
  BY <1>8 DEF vars
<1> QED
  BY <1>2, <1>3, <1>6, <1>7, <1>8 DEF Next

(* Entries stay or go, but for the one that a thread makes when it has heard *)
(* from its client the first time.                                           *)
LEMMA EntersOnce ==
  ASSUME Inv, [Next]_vars
  PROVE  \A i \in Active' :
           \/ i \in Active /\ clients'[i].socket = clients[i].socket /\ clients'[i].id = clients[i].id
           \/ \E h \in Clients : handler[h] = "first" /\ clients'[i].socket = client_socket[h]
<1> USE DEF Inv, Typed, TableTyped
<1>1. setup' = setup
  BY DEF Next, Client, Handler, Main, CheckerPass, Silent, HandlerBroadcasts,
         HandlerSendsPrivately, PassesOn, vars
<1>2. Slots' = Slots
  BY <1>1, SetupStays
<1>3. CASE UNCHANGED clients
  BY <1>2, <1>3 DEF Active
<1>4. CASE \A i \in Slots : \/ clients'[i].socket = 0
                            \/ clients'[i].socket = clients[i].socket /\ clients'[i].id = clients[i].id
  BY <1>2, <1>4 DEF Active
<1>5. ASSUME NEW h \in Clients, HandlerTouches(h)
      PROVE  \A i \in Slots : clients'[i].socket = clients[i].socket /\ clients'[i].id = clients[i].id
  BY <1>5 DEF HandlerTouches, Entries
<1>6. ASSUME NEW h \in Clients, HandlerRemoves(h), ~UNCHANGED clients
      PROVE  \A i \in Slots : clients'[i] = clients[i] \/ clients'[i].socket = 0
  <2>1. clients' = [clients EXCEPT ![Lowest(SlotOf(client_socket[h]))] = Free]
    BY <1>6 DEF HandlerRemoves, table
  <2> QED
    BY <2>1 DEF Free
<1>7. ASSUME NEW h \in Clients, HandlerRegisters(h), ~UNCHANGED clients
      PROVE  \A i \in Slots : \/ clients'[i] = clients[i] \/ clients'[i].socket = 0
                             \/ clients'[i].socket = client_socket[h]
  <2>1. \/ clients' = [clients EXCEPT ![Lowest(Slots \ Active)] =
                         [socket |-> client_socket[h], id |-> IdOf[h], age |-> 0]]
        \/ clients' = [clients EXCEPT ![Lowest(Slots \ Active)] =
                         NotRegistered(client_socket[h], IdOf[h])]
    BY <1>7 DEF HandlerRegisters, table
  <2> QED
    BY <2>1 DEF NotRegistered
<1>8. ASSUME NEW h \in Clients, HandlerRegisters(h) PROVE handler[h] = "first"
  BY <1>8 DEF HandlerRegisters, Greeted
<1>9. CASE CheckerPass
  <2>1. PICK gone \in SUBSET Active :
          clients' = [i \in Slots |-> IF i \in gone THEN Free
                                      ELSE IF i \in Active THEN Waited(i) ELSE clients[i]]
    BY <1>9, CheckerDrops
  <2>2. \A i \in Slots : \/ clients'[i].socket = 0
                         \/ clients'[i].socket = clients[i].socket /\ clients'[i].id = clients[i].id
    BY <2>1 DEF Waited, Free, Entries
  <2> QED
    BY <1>4, <2>2
<1>10. ASSUME NEW h \in Clients, HandlerRegisters(h), ~UNCHANGED clients, NEW i \in Active'
       PROVE  \/ i \in Active /\ clients'[i].socket = clients[i].socket /\ clients'[i].id = clients[i].id
              \/ handler[h] = "first" /\ clients'[i].socket = client_socket[h]
  BY <1>2, <1>7, <1>8, <1>10 DEF Active
<1>11. ASSUME NEW c \in Clients, Client(c) PROVE UNCHANGED clients
  BY <1>11 DEF Client, ClientConnects, ClientTypes, ClientStops, ClientReceives, ClientEnds, table
<1>12. ASSUME NEW h \in Clients, Handler(h), ~HandlerTouches(h), ~HandlerRemoves(h),
              ~HandlerRegisters(h)
       PROVE  UNCHANGED clients
  BY <1>12 DEF Handler, HandlerBroadcasts, HandlerSendsPrivately, PassesOn, HandlerLosesClient,
               HandlerRefuses, HandlerWaits, HandlerLosesConnection, HandlerLists, HandlerRejects,
               HandlerStops, table
<1>13. Main \/ UNCHANGED vars => UNCHANGED clients
  BY DEF Main, MainInterrupted, MainCloses, MainEnds, MainAccepts, table, vars
<1> QED
  BY <1>3, <1>4, <1>5, <1>6, <1>9, <1>10, <1>11, <1>12, <1>13 DEF Next

(* Who is registered was so before, or its thread has only now heard of it. *)
LEMMA RegisteredBefore ==
  ASSUME Inv, [Next]_vars, NEW h \in Clients, handler[h] \notin {"none", "first"}, Registered(h)'
  PROVE  Registered(h)
<1>1. setup' = setup
  BY DEF Next, Client, Handler, Main, CheckerPass, Silent, HandlerBroadcasts,
         HandlerSendsPrivately, PassesOn, vars
<1>2. PICK i \in Active' : clients'[i].id = IdOf[h] /\ open'[clients'[i].socket] = h
  BY <1>1, SetupStays DEF Registered
<1> DEFINE n == clients'[i].socket
<1>3. n \in Descriptors
  BY InvStep DEF Inv, Typed, TableTyped, Entries, Active, Descriptors
<1>4. h # Nobody
  BY ConstantsAssumption DEF ConstantsAssumption
<1>5. open[n] = h
  BY <1>2, <1>3, <1>4, OpensForNew
<1>6. ASSUME NEW g \in Clients, handler[g] = "first", n = client_socket[g] PROVE FALSE
  BY <1>5, <1>6 DEF Inv, Consistent, Owned, FirstOwns
<1>7. i \in Active /\ clients[i].socket = n /\ clients[i].id = IdOf[h]
  BY <1>2, <1>6, EntersOnce
<1> QED
  BY <1>5, <1>7 DEF Registered

LEMMA ReadsOwnStep == Inv /\ ReadsOwn /\ [Next]_vars => ReadsOwn'
<1> SUFFICES ASSUME Inv, ReadsOwn, [Next]_vars, NEW h \in Clients,
                    handler'[h] = "recv", Registered(h)'
             PROVE  reading'[h] = h
  BY DEF ReadsOwn
<1> USE DEF Inv, Typed, ThreadsTyped
<1>1. CASE HandlerWaits(h)
  <2>1. /\ UNCHANGED <<clients, open>> /\ handler[h] = "loop"
        /\ reading'[h] = open[client_socket[h]]
    BY <1>1 DEF HandlerWaits, Goes, table
  <2>2. Registered(h)
    BY <2>1, RegisteredBefore
  <2>3. PICK i \in Active : clients[i].id = IdOf[h] /\ open[clients[i].socket] = h
    BY <2>2 DEF Registered
  <2>4. client_socket[h] = clients[i].socket
    BY <2>3, ConstantsAssumption DEF ConstantsAssumption, Consistent, Owned, Theirs
  <2> QED
    BY <2>1, <2>3, <2>4
<1>2. CASE handler[h] = "recv" /\ reading'[h] = reading[h]
  BY <1>2, RegisteredBefore DEF ReadsOwn
<1>3. ASSUME NEW m, NEW next \in {"loop", "remove"}, NEW g \in Clients, Receives(g, m, next)
      PROVE  handler[h] = "recv" /\ reading'[h] = reading[h]
  BY <1>3 DEF Receives, Goes
<1>4. ASSUME NEW g \in Clients, Handler(g), ~HandlerWaits(h)
      PROVE  handler[h] = "recv" /\ reading'[h] = reading[h]
  <2>1. CASE HandlerBroadcasts(g) \/ HandlerSendsPrivately(g) \/ HandlerTouches(g) \/ HandlerLists(g)
               \/ HandlerRejects(g) \/ HandlerStops(g)
    BY <1>3, <2>1 DEF HandlerBroadcasts, HandlerSendsPrivately, PassesOn, HandlerTouches,
                      HandlerLists, HandlerRejects, HandlerStops
  <2>2. CASE HandlerLosesClient(g) \/ HandlerRefuses(g) \/ HandlerRegisters(g) \/ HandlerRemoves(g)
    BY <2>2 DEF HandlerLosesClient, HandlerRefuses, HandlerRegisters, HandlerRemoves, Greeted,
                Ends, Goes
  <2>3. CASE HandlerWaits(g)
    <3>1. g # h
      BY <1>4, <2>3
    <3> QED
      BY <2>3, <3>1 DEF HandlerWaits, Goes
  <2>4. CASE HandlerLosesConnection(g)
    BY <2>4 DEF HandlerLosesConnection, Goes
  <2> QED
    BY <1>4, <2>1, <2>2, <2>3, <2>4 DEF Handler
<1>5. ASSUME NEW c \in Clients, Client(c)
      PROVE  handler[h] = "recv" /\ reading'[h] = reading[h]
  BY <1>5 DEF Client, ClientConnects, ClientTypes, ClientStops, ClientReceives, ClientEnds, threads
<1>6. CASE Main
  <2>1. ASSUME NEW c \in Clients, MainAccepts(c)
        PROVE  handler[h] = "recv" /\ reading'[h] = reading[h]
    BY <2>1 DEF MainAccepts
  <2>2. CASE MainInterrupted \/ MainCloses \/ MainEnds
    BY <1>2, <2>2 DEF MainInterrupted, MainCloses, MainEnds, threads
  <2> QED
    BY <1>2, <1>6, <2>1, <2>2 DEF Main
<1>7. CASE CheckerPass \/ UNCHANGED vars
  BY <1>2, <1>7 DEF CheckerPass, vars, threads
<1> QED
  BY <1>1, <1>2, <1>4, <1>5, <1>6, <1>7 DEF Next

LEMMA ReadsOwnHolds == Spec => []ReadsOwn
<1>1. Init => ReadsOwn
  BY DEF Init, ReadsOwn
<1> QED
  BY <1>1, InvHolds, ReadsOwnStep, PTL DEF Spec

-----------------------------------------------------------------------------
(* The properties *)

(* The table, the numbers and the streams keep their types, no more clients  *)
(* are counted than the table has entries, and no age exceeds the time-out   *)
(* by more than one run of alive_checker.                                    *)
THEOREM TypeCorrect == Spec => []TypeOK
<1>1. Inv => TypeOK
  <2> SUFFICES ASSUME Inv PROVE TypeOK
    OBVIOUS
  <2>1. client_count \in 0 .. MAX_CLIENTS
    BY ActiveFinite DEF Inv, Typed, RestTyped, Consistent, CountAgrees
  <2> QED
    BY <2>1 DEF Inv, Typed, StreamsTyped, ThreadsTyped, TableTyped, RestTyped, TypeOK,
                Requests, Answers, Entries, Texts
<1> QED
  BY <1>1, InvHolds, PTL

(* client_count, which lines 77, 118, 124, 223 and 230 change, is always the *)
(* number of the entries in use.                                             *)
THEOREM CountedRight == Spec => []CountAgrees
<1>1. Inv => CountAgrees
  BY DEF Inv, Consistent
<1> QED
  BY <1>1, InvHolds, PTL

(* No id is registered twice: lines 103-111 look and write under one lock.   *)
THEOREM IdsUnique == Spec => []UniqueIds
<1>1. Inv => UniqueIds
  BY DEF Inv, Consistent
<1> QED
  BY <1>1, InvHolds, PTL

(* However often numbers are closed by handle_client, alive_checker and      *)
(* remove_client and used again by accept, the number of an entry leads to   *)
(* the client that registered it (lines 117, 220 and 72), and the client's   *)
(* own thread reads from it.                                                 *)
THEOREM NumbersStayTheirs == Spec => []SocketsAreTheirs
<1>1. Inv /\ ReadsOwn => SocketsAreTheirs
  <2> SUFFICES ASSUME Inv, ReadsOwn, main = "accepting", NEW i \in Active
               PROVE  LET c == open[clients[i].socket]
                      IN  /\ c # Nobody /\ IdOf[c] = clients[i].id
                          /\ handler[c] \in {"loop", "recv", "remove"}
                          /\ client_socket[c] = clients[i].socket
                          /\ handler[c] = "recv" => reading[c] = c
    BY DEF SocketsAreTheirs
  <2> DEFINE c == open[clients[i].socket]
  <2>1. /\ c # Nobody /\ IdOf[c] = clients[i].id
        /\ handler[c] \in {"loop", "recv", "remove"} /\ client_socket[c] = clients[i].socket
    BY DEF Inv, Consistent, Owned, Theirs
  <2>2. clients[i].socket \in Descriptors
    BY DEF Inv, Typed, TableTyped, Entries, Active
  <2>3. c \in Clients
    BY <2>1, <2>2 DEF Inv, Typed, TableTyped
  <2>4. Registered(c)
    BY <2>1 DEF Registered
  <2> QED
    BY <2>1, <2>3, <2>4 DEF ReadsOwn
<1> QED
  BY <1>1, InvHolds, ReadsOwnHolds, PTL

(* A text passed on under an id that is not its author's was read by a       *)
(* thread whose client had been dropped (line 220) or never entered (120):   *)
(* the number it reads from has gone to another.                             *)
THEOREM OthersTextsOnlyOnceDropped == Spec => []MisattributedOnlyOnceDropped
<1>1. Init => MisattributedOnlyOnceDropped
  BY DEF Init, MisattributedOnlyOnceDropped
<1>2. Inv /\ ReadsOwn /\ MisattributedOnlyOnceDropped /\ [Next]_vars => MisattributedOnlyOnceDropped'
  <2> SUFFICES ASSUME Inv, ReadsOwn, MisattributedOnlyOnceDropped, [Next]_vars
               PROVE  MisattributedOnlyOnceDropped'
    OBVIOUS
  <2>1. ASSUME NEW h \in Clients, NEW kind, NEW named, NEW to, PassesOn(h, kind, named, to)
        PROVE  MisattributedOnlyOnceDropped'
    <3>1. /\ handler[h] = "recv" /\ handler'[h] = "loop" /\ UNCHANGED <<clients, open, setup>>
          /\ \A d \in delivered' : d.sender = IdOf[h] /\ d.author = IdOf[reading[h]]
      BY <2>1 DEF PassesOn, Receives, Goes, Inv, Typed, ThreadsTyped
    <3>2. IdOf' = IdOf /\ Registered(h)' = Registered(h)
      BY <3>1, SetupStays DEF Registered, Active
    <3>3. \A d \in delivered' : d.sender # d.author => ~Registered(h)
      BY <3>1 DEF ReadsOwn
    <3> QED
      BY <3>1, <3>2, <3>3 DEF MisattributedOnlyOnceDropped
  <2>2. CASE delivered' = {}
    BY <2>2 DEF MisattributedOnlyOnceDropped
  <2>3. CASE UNCHANGED vars
    BY <2>3, SetupStays
    DEF MisattributedOnlyOnceDropped, vars, threads, table, Registered, Active
  <2> QED
    BY <2>1, <2>2, <2>3 DEF Next, Client, Handler, Main, CheckerPass, Silent,
                            HandlerBroadcasts, HandlerSendsPrivately
<1> QED
  BY <1>1, <1>2, InvHolds, ReadsOwnHolds, PTL DEF Spec

(* What is passed on reaches clients of the id it names, or of other ids     *)
(* than the one it is sent under (lines 40 and 59).                          *)
LEMMA Passed ==
  ASSUME Inv, NEW h \in Clients, HandlerBroadcasts(h) \/ HandlerSendsPrivately(h)
  PROVE  ReachesAddressee'
<1> USE DEF Inv, Typed, Consistent, Owned
<1>1. setup' = setup
  BY DEF HandlerBroadcasts, HandlerSendsPrivately, PassesOn
<1>2. IdOf' = IdOf
  BY <1>1, SetupStays
<1>3. ASSUME NEW S \in SUBSET Active, NEW c \in ConnectionsOf(S)
      PROVE  \E i \in S : IdOf[c] = clients[i].id
  BY <1>3 DEF ConnectionsOf, Theirs
<1>4. CASE HandlerBroadcasts(h)
  <2>1. \A d \in delivered' : /\ d.kind = "2ALL" /\ d.sender = IdOf[h]
                              /\ d.to \in ConnectionsOf(Others(IdOf[h]))
    BY <1>4 DEF HandlerBroadcasts, PassesOn
  <2>2. \A c \in ConnectionsOf(Others(IdOf[h])) : IdOf[c] # IdOf[h]
    BY <1>3 DEF Others
  <2> QED
    BY <1>2, <2>1, <2>2 DEF ReachesAddressee
<1>5. CASE HandlerSendsPrivately(h)
  <2>1. PICK id \in Ids :
          PassesOn(h, "2ONE", id, IF Named(id) = {} THEN {} ELSE ConnectionsOf({Lowest(Named(id))}))
    BY <1>5 DEF HandlerSendsPrivately
  <2>2. \A d \in delivered' : /\ d.kind = "2ONE" /\ d.named = id /\ Named(id) # {}
                              /\ d.to \in ConnectionsOf({Lowest(Named(id))})
    BY <2>1 DEF PassesOn
  <2>3. Named(id) # {} => Lowest(Named(id)) \in Named(id)
    BY Minimum, ActiveFinite, SetupTyped DEF Named, RestTyped
  <2>4. Named(id) # {} => \A c \in ConnectionsOf({Lowest(Named(id))}) : IdOf[c] = id
    BY <1>3, <2>3 DEF Named
  <2> QED
    BY <1>2, <2>2, <2>4 DEF ReachesAddressee
<1> QED
  BY <1>4, <1>5

(* A private text goes to the id it names, and a text to all does not come   *)
(* back to its sender, though it is sent to numbers found in the table.      *)
THEOREM RightAddressees == Spec => []ReachesAddressee
<1>1. Init => ReachesAddressee
  BY DEF Init, ReachesAddressee
<1>2. Inv /\ ReachesAddressee /\ [Next]_vars => ReachesAddressee'
  <2> SUFFICES ASSUME Inv, ReachesAddressee, [Next]_vars PROVE ReachesAddressee'
    OBVIOUS
  <2>1. CASE Silent
    BY <2>1 DEF Silent, ReachesAddressee
  <2>2. CASE UNCHANGED vars
    BY <2>2, SetupStays DEF vars, ReachesAddressee
  <2>3. CASE \E h \in Clients : HandlerBroadcasts(h) \/ HandlerSendsPrivately(h)
    BY <2>3, Passed
  <2> QED
    BY <2>1, <2>2, <2>3 DEF Next, Client, Handler, Main, CheckerPass
<1> QED
  BY <1>1, <1>2, InvHolds, PTL DEF Spec

-----------------------------------------------------------------------------
(* The table implements the directory. *)

(* Directory counts as this module does. *)
LEMMA SameCardinality == \A S : AsDirectory!Cardinality(S) = Cardinality(S)
BY DEF AsDirectory!Cardinality, Cardinality

(* No more are listed than there are entries, and a free slot leaves room.   *)
LEMMA RoomForOneMore ==
  ASSUME Typed, NEW slot \in Slots \ Active
  PROVE  Cardinality(Listing) < MAX_CLIENTS
<1>1. MAX_CLIENTS \in Nat \ {0}
  BY SetupTyped DEF Typed, RestTyped
<1>2. IsFiniteSet(Slots) /\ Cardinality(Slots) = MAX_CLIENTS
  BY <1>1, FS_Interval DEF Slots
<1>3. Active \subseteq Slots
  BY DEF Active
<1>4. IsFiniteSet(Active) /\ Cardinality(Active) \in Nat
  BY <1>2, <1>3, FS_Subset, FS_CardinalityType
<1>5. Cardinality(Active \union {slot}) = Cardinality(Active) + 1
  BY <1>4, FS_AddElement
<1>6. Cardinality(Active \union {slot}) <= MAX_CLIENTS
  BY <1>2, <1>3, FS_Subset
<1> DEFINE lists == [i \in Active |-> [id |-> clients[i].id, at |-> clients[i].socket]]
<1>7. lists \in Surjection(Active, Listing)
  BY DEF Surjection, Listing
<1>8. IsFiniteSet(Listing) /\ Cardinality(Listing) <= Cardinality(Active)
  BY <1>4, <1>7, FS_Surjection
<1>9. Cardinality(Listing) \in Nat
  BY <1>8, FS_CardinalityType
<1> QED
  BY <1>1, <1>4, <1>5, <1>6, <1>8, <1>9

(* Entries are left as they are or given back. *)
LEMMA DropsOnly ==
  ASSUME setup' = setup,
         \A i \in Slots : clients'[i].socket \in {0, clients[i].socket},
         \A i \in Active : clients'[i].socket # 0 => clients'[i].id = clients[i].id
  PROVE  AsDirectory!Drop
<1>1. Slots' = Slots
  BY SetupStays
<1>2. Listing' \subseteq Listing
  BY <1>1 DEF Listing, Active
<1>3. Listing' = Listing \ (Listing \ Listing')
  BY <1>2
<1>4. MAX_CLIENTS' = MAX_CLIENTS
  BY DEF MAX_CLIENTS
<1> QED
  BY <1>3, <1>4 DEF AsDirectory!Drop

(* A thread registers its client. *)
LEMMA RegisteringLists ==
  ASSUME Inv, NEW h \in Clients, HandlerRegisters(h), setup' = setup
  PROVE  AsDirectory!Next
<1> DEFINE i == Lowest(Slots \ Active)
           e == [socket |-> client_socket[h], id |-> IdOf[h], age |-> 0]
<1>1. handler[h] = "first" /\ ~InUse(IdOf[h])
  BY DEF HandlerRegisters, Greeted
<1>2. Slots \ Active # {} => i \in Slots \ Active
  BY Minimum, SetupTyped DEF Inv, Typed, RestTyped
<1>3. CASE UNCHANGED clients
  BY <1>3, DropsOnly DEF AsDirectory!Next
<1>4. CASE Slots \ Active # {} /\ clients' = [clients EXCEPT ![i] = NotRegistered(client_socket[h], IdOf[h])]
  <2>1. clients[i].socket = 0 /\ i \in Slots
    BY <1>2, <1>4 DEF Active
  <2>2. \A j \in Slots : clients'[j].socket = clients[j].socket
    BY <1>4, <2>1 DEF NotRegistered, Inv, Typed, TableTyped
  <2>3. \A j \in Active : clients'[j] = clients[j]
    BY <1>2, <1>4 DEF Active, Inv, Typed, TableTyped
  <2> QED
    BY <2>2, <2>3, DropsOnly DEF AsDirectory!Next
<1>5. CASE Slots \ Active # {} /\ clients' = [clients EXCEPT ![i] = e]
  <2>1. client_socket[h] \in Descriptors /\ client_socket[h] # 0 /\ IdOf[h] \in Ids
    BY <1>1, DescriptorsFinite, SetupTyped DEF Inv, Typed, ThreadsTyped, RestTyped
  <2>2. \A r \in Listing : r.id # IdOf[h]
    BY <1>1 DEF Listing, InUse
  <2>3. clients'[i] = e /\ \A j \in Active : clients'[j] = clients[j]
    BY <1>2, <1>5 DEF Active, Inv, Typed, TableTyped
  <2>4. Slots' = Slots /\ MAX_CLIENTS' = MAX_CLIENTS
    BY SetupStays DEF MAX_CLIENTS
  <2>5. \A j \in Slots \ {i} : clients'[j] = clients[j]
    BY <1>5 DEF Inv, Typed, TableTyped
  <2>6. Active' = Active \union {i}
    BY <1>2, <1>5, <2>1, <2>3, <2>4, <2>5 DEF Active
  <2>7. Listing' = Listing \union {[id |-> IdOf[h], at |-> client_socket[h]]}
    BY <2>3, <2>6 DEF Listing
  <2>8. Cardinality(Listing) < MAX_CLIENTS
    BY <1>2, <1>5, RoomForOneMore DEF Inv
  <2>9. AsDirectory!Register(IdOf[h], client_socket[h])
    BY <2>2, <2>4, <2>7, <2>8, SameCardinality DEF AsDirectory!Register
  <2> QED
    BY <2>1, <2>9 DEF AsDirectory!Next
<1> QED
  BY <1>3, <1>4, <1>5 DEF HandlerRegisters, table

(* The other steps of the threads, of main and of the clients drop some, or  *)
(* none.                                                                     *)
LEMMA OthersDrop ==
  ASSUME Inv, [Next]_vars, \A h \in Clients : ~HandlerRegisters(h)
  PROVE  AsDirectory!Drop
<1> USE DEF Inv
<1>1. setup' = setup
  BY DEF Next, Client, Handler, Main, CheckerPass, Silent, HandlerBroadcasts,
         HandlerSendsPrivately, PassesOn, vars
<1>2. CASE UNCHANGED clients
  BY <1>1, <1>2, DropsOnly
<1>3. ASSUME NEW h \in Clients, HandlerTouches(h) PROVE AsDirectory!Drop
  <2>1. \A i \in Slots : clients'[i].socket = clients[i].socket /\ clients'[i].id = clients[i].id
    BY <1>3 DEF HandlerTouches, Typed, TableTyped, Entries
  <2>2. Active \subseteq Slots
    BY DEF Active
  <2> QED
    BY <1>1, <2>1, <2>2, DropsOnly
<1>4. ASSUME NEW h \in Clients, HandlerRemoves(h), ~UNCHANGED clients PROVE AsDirectory!Drop
  <2> DEFINE i == Lowest(SlotOf(client_socket[h]))
  <2>1. clients' = [clients EXCEPT ![i] = Free]
    BY <1>4 DEF HandlerRemoves, table
  <2>2. \A j \in Slots : clients'[j] = clients[j] \/ clients'[j] = Free
    BY <2>1 DEF Typed, TableTyped
  <2>3. Active \subseteq Slots
    BY DEF Active
  <2> QED
    BY <1>1, <2>2, <2>3, DropsOnly DEF Free
<1>5. CASE CheckerPass
  <2>1. PICK gone \in SUBSET Active :
          clients' = [i \in Slots |-> IF i \in gone THEN Free
                                      ELSE IF i \in Active THEN Waited(i) ELSE clients[i]]
    BY <1>5, CheckerDrops
  <2>2. \A j \in Slots : \/ clients'[j] = Free
                         \/ /\ clients'[j].socket = clients[j].socket
                            /\ clients'[j].id = clients[j].id
    BY <2>1 DEF Waited, Typed, TableTyped, Entries
  <2>3. Active \subseteq Slots
    BY DEF Active
  <2> QED
    BY <1>1, <2>2, <2>3, DropsOnly DEF Free
<1>6. ASSUME NEW c \in Clients, Client(c) PROVE UNCHANGED clients
  BY <1>6 DEF Client, ClientConnects, ClientTypes, ClientStops, ClientReceives, ClientEnds, table
<1>7. ASSUME NEW h \in Clients, Handler(h), ~HandlerTouches(h), ~HandlerRemoves(h)
      PROVE  UNCHANGED clients
  BY <1>7 DEF Handler, HandlerBroadcasts, HandlerSendsPrivately, PassesOn, HandlerLosesClient,
              HandlerRefuses, HandlerWaits, HandlerLosesConnection, HandlerLists, HandlerRejects,
              HandlerStops, table
<1>8. Main \/ UNCHANGED vars => UNCHANGED clients
  BY DEF Main, MainInterrupted, MainCloses, MainEnds, MainAccepts, table, vars
<1> QED
  BY <1>2, <1>3, <1>4, <1>5, <1>6, <1>7, <1>8 DEF Next

(* The server's table is the directory the README asks for, with a thread    *)
(* for each client, one that drops them, and numbers used again.             *)
THEOREM ImplementsDirectory == Spec => IsDirectory
<1>1. Init => AsDirectory!Init
  <2> SUFFICES ASSUME Init PROVE AsDirectory!Init
    OBVIOUS
  <2>1. Listing = {}
    BY DEF Init, Listing, Active, Free
  <2>2. MAX_CLIENTS \in Nat \ {0}
    BY SetupTyped DEF Init
  <2> QED
    BY <2>1, <2>2 DEF AsDirectory!Init
<1>2. Inv /\ [Next]_vars => [AsDirectory!Next]_AsDirectory!vars
  <2> SUFFICES ASSUME Inv, [Next]_vars PROVE AsDirectory!Next
    OBVIOUS
  <2>1. ASSUME NEW h \in Clients, HandlerRegisters(h) PROVE AsDirectory!Next
    <3>1. setup' = setup
      BY DEF Next, Client, Handler, Main, CheckerPass, Silent, HandlerBroadcasts,
             HandlerSendsPrivately, PassesOn, vars
    <3> QED
      BY <2>1, <3>1, RegisteringLists
  <2> QED
    BY <2>1, OthersDrop DEF AsDirectory!Next
<1> QED
  BY <1>1, <1>2, InvHolds, PTL DEF Spec, IsDirectory, AsDirectory!Spec

=============================================================================
