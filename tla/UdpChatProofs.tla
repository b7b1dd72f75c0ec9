--------------------------- MODULE UdpChatProofs ---------------------------
(***************************************************************************)
(* The safety properties of UdpChat, for any number of addresses, slots,   *)
(* starts, commands and doubled datagrams.                                 *)
(***************************************************************************)
EXTENDS UdpChat, TLAPS, FiniteSetTheorems, WellFoundedInduction

Entries == [active : BOOLEAN, id : Ids \union {NoId}, addr : Addresses \union {NoAddress},
            age : 0 .. PING_TIMEOUT + 1]

(* TypeOK, with what the records are made of. *)
TableTyped ==
  /\ clients \in [Slots -> Entries]
  /\ \A i \in Slots : clients[i].active => clients[i].id # NoId /\ clients[i].addr # NoAddress

Typed ==
  /\ TableTyped
  /\ handling # NoRequest => handling \in Handlings
  /\ requests \subseteq Requests
  /\ \A m \in replies : m.to \in Addresses /\ m.type \in ReplyTypes
  /\ client \in [Addresses -> {"off", "registering", "chatting"}]
  /\ client_id \in [Addresses -> Ids \union {NoId}]
  /\ \A a \in Addresses : client[a] # "off" => client_id[a] \in IdsOf[a]
  /\ missed \subseteq Slots

-----------------------------------------------------------------------------
(* Searching the table *)

LEMMA Minimum ==
  ASSUME NEW S \in SUBSET Nat, S # {}
  PROVE  \E x \in S : \A y \in S : x <= y
<1>1. PICK x \in S : \A y \in S : ~(<<y, x>> \in OpToRel(<, Nat))
  BY NatLessThanWellFounded, WFMin
<1>2. \A y \in S : ~(y < x)
  BY <1>1 DEF OpToRel
<1> QED
  BY <1>2

LEMMA Search ==
  ASSUME NEW S \in SUBSET Slots
  PROVE  /\ S = {} => FirstOf(S) = -1
         /\ S # {} => FirstOf(S) \in S /\ FirstOf(S) # -1
<1>1. ASSUME S # {} PROVE FirstOf(S) \in S
  <2>1. S \in SUBSET Nat
    BY DEF Slots
  <2> QED
    BY <1>1, <2>1, Minimum DEF FirstOf
<1>2. -1 \notin Slots
  BY DEF Slots
<1>3. S = {} => FirstOf(S) = -1
  BY DEF FirstOf
<1>4. S # {} => FirstOf(S) # -1
  BY <1>1, <1>2
<1> QED
  BY <1>1, <1>3, <1>4

LEMMA InUseExactly ==
  ASSUME NEW id
  PROVE  InUse(id) <=> \E i \in Active : clients[i].id = id
BY Search DEF InUse, find_client_by_id, Active

-----------------------------------------------------------------------------
(* The types *)

LEMMA TypedInit == Init => Typed
BY ConstantsAssumption DEF ConstantsAssumption, Init, Typed, TableTyped, Entries

LEMMA IdsOfAnAddress ==
  /\ NoId \notin Ids
  /\ \A a \in Addresses : IdsOf[a] \subseteq Ids
BY ConstantsAssumption DEF ConstantsAssumption

LEMMA EntryChanges ==
  ASSUME NEW e \in Entries
  PROVE  /\ [active |-> FALSE, id |-> e.id, addr |-> e.addr, age |-> 0] \in Entries
         /\ \A n \in 0 .. PING_TIMEOUT + 1 :
              /\ [e EXCEPT !.age = n] \in Entries
              /\ [e EXCEPT !.age = n].active = e.active
              /\ [e EXCEPT !.age = n].id = e.id /\ [e EXCEPT !.age = n].addr = e.addr
              /\ [e EXCEPT !.age = n].age = n
BY ConstantsAssumption DEF ConstantsAssumption, Entries

LEMMA TableChanges ==
  ASSUME TableTyped, NEW i \in Slots, NEW e \in Entries,
         e.active => e.id # NoId /\ e.addr # NoAddress,
         clients' = [clients EXCEPT ![i] = e]
  PROVE  TableTyped'
BY DEF TableTyped

LEMMA TypedStep == Typed /\ [Next]_vars => Typed'
<1> SUFFICES ASSUME Typed, [Next]_vars PROVE Typed'
  OBVIOUS
<1> USE ConstantsAssumption DEF ConstantsAssumption, Typed, TableTyped, Entries, Handlings, server, bounds
<1>1. ASSUME NEW a \in Addresses, Client(a) PROVE Typed'
  <2>1. CASE ClientStarts(a)
    BY <2>1, IdsOfAnAddress DEF ClientStarts, Requests, EntriesAt, Active
  <2>2. CASE ClientGivesUp(a) \/ ClientVanishes(a)
    BY <2>2 DEF ClientGivesUp, ClientVanishes, ClientIsOver
  <2>3. CASE ClientSends(a)
    <3>1. client_id[a] \in Ids
      BY <2>3, IdsOfAnAddress DEF ClientSends
    <3>2. requests' \subseteq requests \union {Request(a, "LIST"), Command(a, "2ALL", NoId)}
                                 \union {Command(a, "2ONE", id) : id \in Ids}
      BY <2>3 DEF ClientSends
    <3>3. requests' \subseteq Requests
      BY <3>1, <3>2 DEF Request, Command, Requests
    <3> QED
      BY <2>3, <3>3 DEF ClientSends
  <2>4. CASE ClientStops(a)
    BY <2>4 DEF ClientStops, ClientIsOver, Request, Requests
  <2>5. ASSUME NEW m \in replies, ClientIsAnswered(a, m) PROVE Typed'
    BY <2>5 DEF ClientIsAnswered, ClientIsOver, Received
  <2>6. ASSUME NEW m \in replies, ClientReceives(a, m) PROVE Typed'
    BY <2>6, IdsOfAnAddress DEF ClientReceives, Received, Request, Requests
  <2> QED
    BY <1>1, <2>1, <2>2, <2>3, <2>4, <2>5, <2>6 DEF Client
<1>2. ASSUME NEW m \in requests, LoseRequest(m) PROVE Typed'
  BY <1>2 DEF LoseRequest, Received, EntriesAt, Active
<1>3. ASSUME NEW m \in replies, LoseReply(m) PROVE Typed'
  BY <1>3 DEF LoseReply, Received, EntriesAt, Active
<1>4. ASSUME NEW m \in requests, ServerReceives(m) PROVE Typed'
  <2>1. find_client_by_addr(m.from) \in Slots \union {-1}
    BY Search DEF find_client_by_addr, Active
  <2> QED
    BY <1>4, <2>1 DEF ServerReceives, Received
<1>5. CASE ServerRegisters
  <2>1. Slots \ Active # {} => FirstOf(Slots \ Active) \in Slots
    BY Search
  <2>2. /\ handling' = NoRequest /\ UNCHANGED <<requests, client, client_id>>
        /\ handling.request.from \in Addresses /\ handling.request.id \in Ids
    BY <1>5 DEF ServerRegisters, Handles, Requests
  <2>3. TableTyped'
    <3> DEFINE e == [active |-> TRUE, id |-> handling.request.id, addr |-> handling.request.from,
                     age |-> 0]
    <3>1. e \in Entries /\ e.id # NoId /\ e.addr # NoAddress
      BY <2>2, IdsOfAnAddress
    <3>2. UNCHANGED clients \/ \E i \in Slots : clients' = [clients EXCEPT ![i] = e]
      BY <1>5, <2>1 DEF ServerRegisters
    <3> QED
      BY <3>1, <3>2, TableChanges
  <2>4. \A m \in replies' : m.to \in Addresses /\ m.type \in ReplyTypes
    BY <1>5, <2>2 DEF ServerRegisters, Reply, ReplyTypes
  <2>5. missed' \subseteq Slots
    BY <1>5 DEF ServerRegisters
  <2> QED
    BY <2>2, <2>3, <2>4, <2>5
<1>6. CASE ServerRejects
  BY <1>6 DEF ServerRejects, Handles, Reply, ReplyTypes, Requests
<1>7. CASE ServerTouches
  <2>1. handling.idx \in Slots
    BY <1>7 DEF ServerTouches, Handles
  <2>2. TableTyped'
    BY <1>7, <2>1 DEF ServerTouches
  <2>3. handling' = NoRequest \/ handling' \in Handlings
    BY <1>7 DEF ServerTouches
  <2>4. missed' \subseteq Slots
    BY <1>7 DEF ServerTouches, EntriesAt, Active
  <2> QED
    BY <1>7, <2>2, <2>3, <2>4 DEF ServerTouches
<1>8. CASE ServerLists
  BY <1>8 DEF ServerLists, HandlesKnown, Handles, Reply, ReplyTypes, Requests
<1>9. CASE ServerBroadcasts
  BY <1>9 DEF ServerBroadcasts, Others, Active, Text, ReplyTypes, HandlesKnown, Handles
<1>10. CASE ServerSendsPrivately
  <2>1. find_client_by_id(handling.request.to) # -1
          => find_client_by_id(handling.request.to) \in Active
    BY Search DEF find_client_by_id, Active
  <2> QED
    BY <1>10, <2>1 DEF ServerSendsPrivately, Active, Text, ReplyTypes, HandlesKnown, Handles
<1>11. CASE ServerStopsClient
  <2>1. handling.idx \in Slots
    BY <1>11 DEF ServerStopsClient, HandlesKnown, Handles
  <2>2. clients' = [clients EXCEPT ![handling.idx] = Inactive(handling.idx)]
    BY <1>11 DEF ServerStopsClient
  <2>3. Inactive(handling.idx) \in Entries /\ ~Inactive(handling.idx).active
    BY <2>1, EntryChanges DEF Inactive
  <2>4. TableTyped'
    BY <2>1, <2>2, <2>3, TableChanges
  <2> QED
    BY <1>11, <2>4 DEF ServerStopsClient
<1>12. CASE PingPass
  <2>1. PICK late \in [Active -> -1 .. 1] :
          LET gone == {i \in Active : TimedOut(i, late[i])}
          IN  /\ clients' = [i \in Slots |->
                               IF i \in gone THEN Inactive(i)
                               ELSE IF i \in Active THEN Waited(i)
                               ELSE clients[i]]
              /\ replies' = replies \union {Reply(clients[i].addr, "PING") : i \in Active \ gone}
    BY <1>12 DEF PingPass
  <2>2. \A i \in Active : ~TimedOut(i, late[i]) => clients[i].age + 1 \in 0 .. PING_TIMEOUT + 1
    BY DEF TimedOut, Active
  <2>3. clients' \in [Slots -> Entries]
    <3>1. \A i \in Slots : clients[i] \in Entries
      OBVIOUS
    <3>2. ASSUME NEW i \in Slots PROVE clients'[i] \in Entries
      <4>1. CASE clients'[i] = Inactive(i) \/ clients'[i] = clients[i]
        BY <3>1, <4>1, EntryChanges DEF Inactive
      <4>2. CASE /\ i \in Active /\ ~TimedOut(i, late[i])
                 /\ clients'[i] = [clients[i] EXCEPT !.age = clients[i].age + 1]
        BY <2>2, <3>1, <4>2, EntryChanges
      <4>3. \/ clients'[i] = Inactive(i)
            \/ clients'[i] = clients[i]
            \/ /\ i \in Active /\ ~TimedOut(i, late[i])
               /\ clients'[i] = [clients[i] EXCEPT !.age = clients[i].age + 1]
        BY <2>1 DEF Waited
      <4> QED
        BY <4>1, <4>2, <4>3
    <3> QED
      BY <2>1, <3>2
  <2>4. \A i \in Slots : clients'[i].active => clients'[i].id # NoId /\ clients'[i].addr # NoAddress
    BY <2>1 DEF Waited, Inactive, Active
  <2>5. \A m \in replies' : m.to \in Addresses /\ m.type \in ReplyTypes
    BY <2>1 DEF Reply, ReplyTypes, Active
  <2>6. UNCHANGED handling /\ missed' \subseteq Slots
    BY <1>12 DEF PingPass
  <2> QED
    BY <1>12, <2>3, <2>4, <2>5, <2>6 DEF PingPass
<1>13. CASE UNCHANGED vars
  BY <1>13 DEF vars
<1> QED
  BY <1>1, <1>2, <1>3, <1>4, <1>5, <1>6, <1>7, <1>8, <1>9, <1>10, <1>11, <1>12, <1>13
     DEF Next, Network, Server, ServerHandles

LEMMA TypedHolds == Spec => []Typed
<1>1. Spec => Init /\ [][Next]_vars
  BY DEF Spec
<1> QED
  BY <1>1, TypedInit, TypedStep, PTL

(* The table, the datagrams and the clients hold values of their kinds; the  *)
(* time-outs bound every age.                                                *)
THEOREM TypeCorrect == Spec => []TypeOK
<1>1. Typed => TypeOK
  BY DEF Typed, TableTyped, Entries, TypeOK
<1> QED
  BY <1>1, TypedHolds, PTL

-----------------------------------------------------------------------------
(* No two clients under one id: only ServerRegisters makes an entry active,  *)
(* in the critical section in which it finds the id unused.                  *)

(* A step that neither activates an entry nor renames one. *)
Shrinks ==
  \A i \in Slots :
    /\ clients'[i].active => clients[i].active
    /\ clients'[i].addr = clients[i].addr /\ clients'[i].id = clients[i].id

LEMMA ShrinkingKeepsUniqueIds == UniqueIds /\ Shrinks => UniqueIds'
BY DEF UniqueIds, Shrinks, Active

LEMMA PassShrinks == Typed /\ PingPass => Shrinks
<1> SUFFICES ASSUME Typed, PingPass PROVE Shrinks
  OBVIOUS
<1>1. ASSUME NEW i \in Slots
      PROVE  \/ clients'[i] = Inactive(i)
             \/ clients'[i] = clients[i]
             \/ clients'[i] = [clients[i] EXCEPT !.age = clients[i].age + 1]
  BY DEF PingPass, Waited
<1>2. \A i \in Slots : clients[i] \in Entries
  BY DEF Typed, TableTyped
<1>3. ASSUME NEW i \in Slots
      PROVE  /\ clients'[i].active => clients[i].active
             /\ clients'[i].addr = clients[i].addr /\ clients'[i].id = clients[i].id
  <2>1. CASE clients'[i] = Inactive(i)
    BY <2>1 DEF Inactive
  <2>2. CASE clients'[i] = clients[i]
    BY <2>2
  <2>3. CASE clients'[i] = [clients[i] EXCEPT !.age = clients[i].age + 1]
    BY <1>2, <2>3 DEF Entries
  <2> QED
    BY <1>1, <2>1, <2>2, <2>3
<1> QED
  BY <1>3 DEF Shrinks

LEMMA OthersShrink == Typed /\ [Next]_vars => ServerRegisters \/ Shrinks
<1> SUFFICES ASSUME Typed, [Next]_vars PROVE ServerRegisters \/ Shrinks
  OBVIOUS
<1> USE DEF Typed, TableTyped
<1>1. CASE UNCHANGED clients
  BY <1>1 DEF Shrinks
<1>2. CASE ServerTouches
  <2>1. handling.idx \in Slots /\ clients[handling.idx] \in Entries
    BY <1>2 DEF ServerTouches, Handles, Handlings
  <2>2. clients' = [clients EXCEPT ![handling.idx] = [clients[handling.idx] EXCEPT !.age = 0]]
    BY <1>2 DEF ServerTouches
  <2> QED
    BY <2>1, <2>2 DEF Shrinks, Entries
<1>3. CASE ServerStopsClient
  <2>1. handling.idx \in Slots /\ clients[handling.idx] \in Entries
    BY <1>3 DEF ServerStopsClient, HandlesKnown, Handles, Handlings
  <2>2. clients' = [clients EXCEPT ![handling.idx] = Inactive(handling.idx)]
    BY <1>3 DEF ServerStopsClient
  <2> QED
    BY <2>1, <2>2 DEF Shrinks, Inactive, Entries
<1>4. CASE PingPass
  BY <1>4, PassShrinks
<1> QED
  BY <1>1, <1>2, <1>3, <1>4
     DEF Next, vars, server, Client, ClientStarts, ClientGivesUp, ClientSends, ClientStops,
         ClientVanishes, ClientIsAnswered, ClientReceives, Network, LoseRequest, LoseReply, Server,
         ServerHandles, ServerReceives, ServerRejects, ServerLists, ServerBroadcasts,
         ServerSendsPrivately

LEMMA UniqueIdsStep == Typed /\ UniqueIds /\ [Next]_vars => UniqueIds'
<1> SUFFICES ASSUME Typed, UniqueIds, [Next]_vars, ServerRegisters PROVE UniqueIds'
  BY OthersShrink, ShrinkingKeepsUniqueIds
<1> DEFINE id == handling.request.id
           slot == FirstOf(Slots \ Active)
           e == [active |-> TRUE, id |-> id, addr |-> handling.request.from, age |-> 0]
<1>1. CASE UNCHANGED clients
  BY <1>1 DEF UniqueIds, Active
<1>2. CASE ~InUse(id) /\ slot \in Slots \ Active /\ clients' = [clients EXCEPT ![slot] = e]
  <2>1. \A i \in Active : clients[i].id # id
    BY <1>2, InUseExactly
  <2>2. \A i \in Slots : clients'[i] = IF i = slot THEN e ELSE clients[i]
    BY <1>2 DEF Typed, TableTyped
  <2> QED
    BY <1>2, <2>1, <2>2 DEF UniqueIds, Active
<1> QED
  BY <1>1, <1>2, Search DEF ServerRegisters

(* No two clients are ever registered under one id.                          *)
THEOREM IdsUnique == Spec => []UniqueIds
<1>1. Init => UniqueIds
  BY DEF Init, UniqueIds, Active
<1>2. Spec => Init /\ [][Next]_vars
  BY DEF Spec
<1> QED
  BY <1>1, <1>2, TypedHolds, UniqueIdsStep, PTL

-----------------------------------------------------------------------------
(* The table implements the directory. *)

(* Directory counts as this module does. *)
LEMMA SameCardinality == \A S : AsDirectory!Cardinality(S) = Cardinality(S)
BY DEF AsDirectory!Cardinality, Cardinality

(* No more are listed than there are entries, and a free slot leaves room.   *)
LEMMA RoomForOneMore ==
  ASSUME NEW slot \in Slots \ Active
  PROVE  Cardinality(Listing) < MAX_CLIENTS
<1>1. MAX_CLIENTS \in Nat \ {0}
  BY ConstantsAssumption DEF ConstantsAssumption
<1>2. IsFiniteSet(Slots) /\ Cardinality(Slots) = MAX_CLIENTS
  BY <1>1, FS_Interval DEF Slots
<1>3. Active \subseteq Slots
  BY DEF Active
<1>4. IsFiniteSet(Active) /\ Cardinality(Active) \in Nat
  BY <1>2, <1>3, FS_Subset, FS_CardinalityType
<1>5. Cardinality(Active \union {slot}) = Cardinality(Active) + 1
  BY <1>4, FS_AddElement
<1>6. Cardinality(Active \union {slot}) <= MAX_CLIENTS
  BY <1>2, <1>3, FS_Subset
<1> DEFINE lists == [i \in Active |-> [id |-> clients[i].id, at |-> <<i, clients[i].addr>>]]
<1>7. lists \in Surjection(Active, Listing)
  BY DEF Surjection, Listing
<1>8. IsFiniteSet(Listing) /\ Cardinality(Listing) <= Cardinality(Active)
  BY <1>4, <1>7, FS_Surjection
<1>9. Cardinality(Listing) \in Nat
  BY <1>8, FS_CardinalityType
<1> QED
  BY <1>1, <1>4, <1>5, <1>6, <1>8, <1>9

(* A step that activates and renames nobody drops some, or none. *)
LEMMA ShrinkingDrops == ASSUME Shrinks PROVE AsDirectory!Drop
<1>1. Listing' \subseteq Listing
  BY DEF Listing, Shrinks, Active
<1>2. Listing' = Listing \ (Listing \ Listing')
  BY <1>1
<1> QED
  BY <1>2 DEF AsDirectory!Drop

(* REGI is refused, or lists an id that was not listed. *)
LEMMA RegisteringLists ==
  ASSUME Typed, ServerRegisters
  PROVE  [AsDirectory!Next]_AsDirectory!vars
<1> DEFINE id == handling.request.id
           a == handling.request.from
           slot == FirstOf(Slots \ Active)
           e == [active |-> TRUE, id |-> id, addr |-> a, age |-> 0]
<1>1. CASE UNCHANGED clients
  BY <1>1 DEF AsDirectory!vars, Listing, Active
<1>2. CASE ~InUse(id) /\ slot \in Slots \ Active /\ clients' = [clients EXCEPT ![slot] = e]
  <2>1. id \in Ids /\ a \in Addresses
    BY DEF ServerRegisters, Handles, Typed, Handlings, Requests
  <2>2. \A i \in Active : clients[i].id # id
    BY <1>2, InUseExactly
  <2>3. \A r \in Listing : r.id # id
    BY <2>2 DEF Listing
  <2>4. \A i \in Slots : clients'[i] = IF i = slot THEN e ELSE clients[i]
    BY <1>2 DEF Typed, TableTyped
  <2>5. Active' = Active \union {slot}
    BY <1>2, <2>4 DEF Active
  <2>6. \A i \in Active : clients'[i] = clients[i]
    BY <1>2, <2>4 DEF Active
  <2>7. Listing' = Listing \union {[id |-> id, at |-> <<slot, a>>]}
    BY <1>2, <2>4, <2>5, <2>6 DEF Listing
  <2>8. Cardinality(Listing) < MAX_CLIENTS
    BY <1>2, RoomForOneMore
  <2>9. AsDirectory!Register(id, <<slot, a>>)
    BY <2>3, <2>7, <2>8, SameCardinality DEF AsDirectory!Register
  <2> QED
    BY <1>2, <2>1, <2>9 DEF AsDirectory!Next
<1> QED
  BY <1>1, <1>2, Search DEF ServerRegisters

(* The server's table is the directory the README asks for, over a network   *)
(* that loses, doubles and reorders what is sent.                            *)
THEOREM ImplementsDirectory == Spec => IsDirectory
<1>1. Init => AsDirectory!Init
  BY ConstantsAssumption DEF ConstantsAssumption, Init, AsDirectory!Init, Listing, Active
<1>2. Typed /\ [Next]_vars => [AsDirectory!Next]_AsDirectory!vars
  BY OthersShrink, ShrinkingDrops, RegisteringLists DEF AsDirectory!Next
<1>3. Spec => Init /\ [][Next]_vars
  BY DEF Spec
<1> QED
  BY <1>1, <1>2, <1>3, TypedHolds, PTL DEF IsDirectory, AsDirectory!Spec

-----------------------------------------------------------------------------
(* Texts carry an id of their author's address. *)

Named(m) == m.type \in {"REGI", "2ALL", "2ONE"} => m.id \in IdsOf[m.from]

(* The slot the server has found may be dropped by ping_thread while it uses *)
(* it, but not given to another: only the same thread registers.             *)
Attributable ==
  /\ \A m \in requests : Named(m)
  /\ handling # NoRequest =>
       /\ Named(handling.request)
       /\ handling.idx # -1 => clients[handling.idx].addr = handling.request.from
  /\ \A i \in Slots : clients[i].addr # NoAddress => clients[i].id \in IdsOf[clients[i].addr]
  /\ AttributedToAddress

LEMMA AttributableInit == Init => Attributable
BY DEF Init, Attributable, AttributedToAddress

LEMMA AttributableStep ==
  ASSUME Typed, Attributable, [Next]_vars
  PROVE  Attributable'
<1> USE DEF Attributable, server, bounds
<1> DEFINE NamesOK == \A i \in Slots : clients[i].addr # NoAddress => clients[i].id \in IdsOf[clients[i].addr]
           HandlingOK == handling # NoRequest =>
                           /\ Named(handling.request)
                           /\ handling.idx # -1 => clients[handling.idx].addr = handling.request.from
           RequestsOK == \A m \in requests : Named(m)
<1>1. ASSUME UNCHANGED <<clients, handling>>, RequestsOK',
             replies' \subseteq replies
      PROVE  Attributable'
  BY <1>1 DEF AttributedToAddress
<1>2. ASSUME NEW a \in Addresses, Client(a) PROVE Attributable'
  <2>1. UNCHANGED <<clients, handling>> /\ replies' \subseteq replies
    BY <1>2 DEF Client, ClientStarts, ClientGivesUp, ClientSends, ClientStops, ClientVanishes,
                ClientIsAnswered, ClientReceives, Received
  <2>2. RequestsOK'
    BY <1>2 DEF Typed, Named, Received, Request, Command, Client, ClientStarts, ClientGivesUp, ClientSends, ClientStops,
                ClientVanishes, ClientIsAnswered, ClientReceives
  <2> QED
    BY <1>1, <2>1, <2>2
<1>3. CASE Network
  BY <1>1, <1>3 DEF Network, LoseRequest, LoseReply, Received
<1>4. ASSUME NEW m \in requests, ServerReceives(m) PROVE Attributable'
  <2>1. LET idx == find_client_by_addr(m.from)
        IN  idx # -1 => idx \in Slots /\ clients[idx].addr = m.from
    BY Search DEF find_client_by_addr, Active
  <2>2. /\ handling' = [request |-> m, idx |-> find_client_by_addr(m.from),
                        touched |-> FALSE]
        /\ UNCHANGED <<clients, replies>> /\ requests' \subseteq requests
    BY <1>4 DEF ServerReceives, Received
  <2>3. HandlingOK'
    BY <2>1, <2>2
  <2> QED
    BY <2>2, <2>3 DEF AttributedToAddress
<1>5. CASE ServerRegisters
  <2>1. handling' = NoRequest /\ UNCHANGED requests
    BY <1>5 DEF ServerRegisters
  <2>2. NamesOK'
    <3> DEFINE slot == FirstOf(Slots \ Active)
               e == [active |-> TRUE, id |-> handling.request.id, addr |-> handling.request.from,
                     age |-> 0]
    <3>1. handling # NoRequest /\ handling.request.id \in IdsOf[handling.request.from]
      BY <1>5 DEF ServerRegisters, Handles, Named
    <3>2. UNCHANGED clients \/ clients' = [clients EXCEPT ![slot] = e]
      BY <1>5 DEF ServerRegisters
    <3>3. CASE clients' = [clients EXCEPT ![slot] = e]
      <4>1. \A i \in Slots : clients'[i] = clients[i] \/ clients'[i] = e
        BY <3>3 DEF Typed, TableTyped
      <4> QED
        BY <3>1, <4>1
    <3> QED
      BY <3>2, <3>3
  <2>3. AttributedToAddress'
    BY <1>5 DEF ServerRegisters, AttributedToAddress, Reply
  <2> QED
    BY <2>1, <2>2, <2>3
<1>6. CASE ServerBroadcasts \/ ServerSendsPrivately
  <2>1. /\ handling # NoRequest /\ handling.idx # -1
        /\ handling' = NoRequest /\ UNCHANGED <<clients, requests>>
    BY <1>6 DEF ServerBroadcasts, ServerSendsPrivately, HandlesKnown, Handles
  <2>2. handling.idx \in Slots /\ handling.request.from \in Addresses
    BY <2>1 DEF Typed, Requests, Handlings
  <2>3. \E a \in Addresses : clients[handling.idx].id \in IdsOf[a] /\ handling.request.id \in IdsOf[a]
    BY <1>6, <2>1, <2>2, ConstantsAssumption
       DEF ConstantsAssumption, Named, ServerBroadcasts, ServerSendsPrivately, HandlesKnown, Handles
  <2>4. AttributedToAddress'
    BY <1>6, <2>3 DEF ServerBroadcasts, ServerSendsPrivately, AttributedToAddress, Text
  <2> QED
    BY <2>1, <2>4
<1>7. ASSUME Shrinks, handling' = NoRequest, UNCHANGED requests, AttributedToAddress'
      PROVE  Attributable'
  BY <1>7 DEF Shrinks
<1>8. CASE ServerRejects \/ ServerLists
  BY <1>8 DEF ServerRejects, ServerLists, AttributedToAddress, Reply
<1>9. ASSUME ~ServerRegisters PROVE Shrinks
  BY <1>9, OthersShrink
<1>10. CASE ServerStopsClient
  BY <1>7, <1>9, <1>10 DEF ServerStopsClient, ServerRegisters, Handles, HandlesKnown, AttributedToAddress
<1>11. CASE ServerTouches \/ PingPass
  <2>1. Shrinks
    BY <1>9, <1>11, PassShrinks DEF ServerTouches, ServerRegisters, Handles
  <2>2. UNCHANGED requests /\ AttributedToAddress'
    BY <1>11 DEF ServerTouches, PingPass, AttributedToAddress, Reply
  <2>3. handling' # NoRequest => /\ handling # NoRequest
                                 /\ handling'.request = handling.request
                                 /\ handling'.idx = handling.idx
                                 /\ handling.idx \in Slots \union {-1}
    BY <1>11 DEF ServerTouches, PingPass, Typed, Handlings
  <2> QED
    BY <2>1, <2>2, <2>3 DEF Shrinks
<1>12. CASE UNCHANGED vars
  BY <1>1, <1>12 DEF vars
<1> QED
  BY <1>2, <1>3, <1>4, <1>5, <1>6, <1>8, <1>10, <1>11, <1>12 DEF Next, Server, ServerHandles

LEMMA AttributableHolds == Spec => []Attributable
<1>1. Spec => Init /\ [][Next]_vars
  BY DEF Spec
<1>2. Typed /\ Attributable /\ [Next]_vars => Attributable'
  BY AttributableStep
<1> QED
  BY <1>1, <1>2, TypedHolds, AttributableInit, PTL

(* A text the server passes on carries an id that is started at the address  *)
(* of its author, whatever other ids are started there.                      *)
THEOREM AttributedWithinAddress == Spec => []AttributedToAddress
<1>1. Attributable => AttributedToAddress
  BY DEF Attributable
<1> QED
  BY <1>1, AttributableHolds, PTL

-----------------------------------------------------------------------------
(* A client that answers stays, if a time-out is two intervals or more. *)

(* Once an entry is an interval old, there is always the PING of the run     *)
(* before, its answer, or a reason to think that one was missed.             *)
Awaited(a) ==
  \/ \E m \in replies : m.to = a /\ m.type = "PING"
  \/ \E m \in requests : m.from = a /\ m.type = "PONG"
  \/ /\ handling # NoRequest /\ ~handling.touched
     /\ handling.request.from = a /\ handling.request.type # "REGI"

Answering ==
  /\ handling # NoRequest /\ handling.idx = -1 =>
       \A i \in Active : clients[i].addr # handling.request.from
  /\ \A i \in Active :
       client[clients[i].addr] # "off" /\ i \notin missed /\ clients[i].age # 0
         => Awaited(clients[i].addr)

LEMMA AnsweringInit == Init => Answering
BY DEF Init, Answering, Active

(* Who is in the table is somewhere. *)
LEMMA ActiveSomewhere ==
  ASSUME Typed
  PROVE  \A i \in Active : i \in Slots /\ clients[i] \in Entries /\ clients[i].addr \in Addresses
BY DEF Typed, TableTyped, Entries, Active

(* A client that is not off after a step was not before, or starts. *)
LEMMA ClientAnswers ==
  ASSUME Typed, Answering, NEW a \in Addresses, Client(a)
  PROVE  Answering'
<1> USE DEF Answering, server, bounds
<1>1. UNCHANGED <<clients, handling>> /\ Active' = Active
  BY DEF Client, ClientStarts, ClientGivesUp, ClientSends, ClientStops, ClientVanishes,
         ClientIsAnswered, ClientReceives, Active
<1>2. \A i \in Active : clients[i].addr \in Addresses
  BY ActiveSomewhere
<1>3. client \in [Addresses -> {"off", "registering", "chatting"}]
  BY DEF Typed
<1>4. CASE ClientStarts(a)
  <2>1. /\ replies' = replies /\ requests \subseteq requests'
        /\ missed' = missed \union EntriesAt(a)
        /\ \A b \in Addresses \ {a} : client'[b] = client[b]
    BY <1>3, <1>4 DEF ClientStarts
  <2> QED
    BY <1>1, <1>2, <2>1 DEF Awaited, EntriesAt
<1>5. CASE ClientGivesUp(a) \/ ClientStops(a) \/ ClientVanishes(a)
  <2>1. /\ UNCHANGED <<replies, missed>> /\ requests \subseteq requests'
        /\ client'[a] = "off" /\ \A b \in Addresses \ {a} : client'[b] = client[b]
    BY <1>3, <1>5 DEF ClientGivesUp, ClientStops, ClientVanishes, ClientIsOver
  <2> QED
    BY <1>1, <1>2, <2>1 DEF Awaited
<1>6. CASE ClientSends(a)
  <2>1. UNCHANGED <<replies, client, missed>> /\ requests \subseteq requests'
    BY <1>6 DEF ClientSends
  <2> QED
    BY <1>1, <2>1 DEF Awaited
<1>7. ASSUME NEW m \in replies, ClientIsAnswered(a, m) PROVE Answering'
  <2>1. /\ m.to = a /\ replies \ {m} \subseteq replies'
        /\ UNCHANGED <<requests, missed>>
        /\ client'[a] # "off" => m.type = "OK" /\ client[a] # "off"
        /\ \A b \in Addresses \ {a} : client'[b] = client[b]
    BY <1>3, <1>7 DEF ClientIsAnswered, ClientIsOver, Received
  <2> QED
    BY <1>1, <1>2, <2>1 DEF Awaited
<1>8. ASSUME NEW m \in replies, ClientReceives(a, m) PROVE Answering'
  <2>1. /\ m.to = a /\ replies \ {m} \subseteq replies'
        /\ requests \subseteq requests' /\ UNCHANGED <<client, missed>>
        /\ m.type = "PING" => Request(a, "PONG") \in requests'
    BY <1>8 DEF ClientReceives, Received
  <2>2. Request(a, "PONG").from = a /\ Request(a, "PONG").type = "PONG"
    BY DEF Request
  <2> QED
    BY <1>1, <1>2, <2>1, <2>2 DEF Awaited
<1> QED
  BY <1>4, <1>5, <1>6, <1>7, <1>8 DEF Client

(* What is lost is missed by the entries of its address. *)
LEMMA NetworkAnswers ==
  ASSUME Typed, Answering, Network
  PROVE  Answering'
<1> USE DEF Answering, server
<1>1. UNCHANGED <<clients, handling, client>> /\ Active' = Active
  BY DEF Network, LoseRequest, LoseReply, Active
<1>2. ASSUME NEW m \in requests, LoseRequest(m) PROVE Answering'
  <2>1. replies' = replies /\ requests \ {m} \subseteq requests'
        /\ missed' = missed \union EntriesAt(m.from)
    BY <1>2 DEF LoseRequest, Received
  <2> QED
    BY <1>1, <2>1 DEF Awaited, EntriesAt
<1>3. ASSUME NEW m \in replies, LoseReply(m) PROVE Answering'
  <2>1. requests' = requests /\ replies \ {m} \subseteq replies'
        /\ missed' = missed \union EntriesAt(m.to)
    BY <1>3 DEF LoseReply, Received
  <2> QED
    BY <1>1, <2>1 DEF Awaited, EntriesAt
<1> QED
  BY <1>2, <1>3 DEF Network

LEMMA ReceivingAnswers ==
  ASSUME Typed, Answering, NEW m \in requests, ServerReceives(m)
  PROVE  Answering'
<1> USE DEF Answering
<1>1. /\ handling = NoRequest /\ requests \ {m} \subseteq requests'
      /\ handling' = [request |-> m, idx |-> find_client_by_addr(m.from), touched |-> FALSE]
      /\ UNCHANGED <<clients, replies, client, missed>>
  BY DEF ServerReceives, Received
<1>2. Active' = Active
  BY <1>1 DEF Active
<1>3. find_client_by_addr(m.from) = -1 => \A i \in Active : clients[i].addr # m.from
  BY Search DEF find_client_by_addr, Active
<1>4. handling' # NoRequest
  <2>1. find_client_by_addr(m.from) \in Slots \union {-1}
    BY Search DEF find_client_by_addr, Active
  <2>2. handling' \in Handlings
    BY <1>1, <2>1 DEF Typed, Handlings
  <2> QED
    BY <2>2, ConstantsAssumption DEF ConstantsAssumption
<1>5. ASSUME NEW i \in Active, Awaited(clients[i].addr) PROVE Awaited(clients[i].addr)'
  BY <1>1, <1>4, <1>5 DEF Awaited
<1> QED
  BY <1>1, <1>2, <1>3, <1>5

(* A new entry is of age nought. *)
LEMMA RegisteringAnswers ==
  ASSUME Typed, Answering, ServerRegisters
  PROVE  Answering'
<1> DEFINE a == handling.request.from
           slot == FirstOf(Slots \ Active)
           e == [active |-> TRUE, id |-> handling.request.id, addr |-> a, age |-> 0]
<1> USE DEF Answering
<1>1. /\ handling.request.type = "REGI" /\ handling' = NoRequest
      /\ UNCHANGED <<requests, client>> /\ replies \subseteq replies'
  BY DEF ServerRegisters, Handles
<1>2. CASE UNCHANGED <<clients, missed>>
  <2>1. Active' = Active
    BY <1>2 DEF Active
  <2> QED
    BY <1>1, <1>2, <2>1 DEF Awaited
<1>3. CASE /\ Slots \ Active # {} /\ missed' = missed \ {slot}
           /\ clients' = [clients EXCEPT ![slot] = e]
  <2>1. slot \in Slots \ Active
    BY <1>3, Search
  <2>2. \A i \in Slots : clients'[i] = IF i = slot THEN e ELSE clients[i]
    BY <1>3, <2>1 DEF Typed, TableTyped
  <2>3. e.active /\ e.age = 0
    OBVIOUS
  <2> HIDE DEF e, slot
  <2>4. clients'[slot] = e /\ \A i \in Active : clients'[i] = clients[i] /\ i # slot
    BY <2>1, <2>2 DEF Active
  <2>5. Active' = Active \union {slot} /\ clients'[slot].age = 0
    BY <2>1, <2>2, <2>3, <2>4 DEF Active
  <2>6. ASSUME NEW i \in Active', client'[clients'[i].addr] # "off", i \notin missed',
               clients'[i].age # 0
        PROVE  Awaited(clients[i].addr)' /\ clients'[i] = clients[i]
    <3>1. i \in Active /\ clients'[i] = clients[i] /\ i # slot
      BY <2>4, <2>5, <2>6
    <3>2. Awaited(clients[i].addr)
      BY <1>1, <1>3, <2>6, <3>1
    <3> QED
      BY <1>1, <3>1, <3>2 DEF Awaited
  <2> QED
    BY <1>1, <2>6
<1> QED
  BY <1>2, <1>3 DEF ServerRegisters

LEMMA HandlingAnswers ==
  ASSUME Typed, Answering,
         ServerRejects \/ ServerLists \/ ServerBroadcasts \/ ServerSendsPrivately
           \/ ServerStopsClient
  PROVE  Answering'
<1> USE DEF Answering
<1>1. /\ handling # NoRequest /\ handling' = NoRequest
      /\ UNCHANGED <<requests, client>> /\ replies \subseteq replies'
      /\ handling.idx = -1 \/ handling.touched
  BY DEF ServerRejects, ServerLists, ServerBroadcasts, ServerSendsPrivately, ServerStopsClient,
         HandlesKnown, Handles
<1>2. /\ Active' \subseteq Active
      /\ \A i \in Active' : clients'[i] = clients[i] /\ (i \in missed => i \in missed')
  <2>1. CASE ServerStopsClient
    <3>1. handling.idx \in Slots /\ missed' = missed \ {handling.idx}
      BY <2>1 DEF ServerStopsClient, HandlesKnown, Handles, Typed, Handlings
    <3>2. \A i \in Slots : clients'[i] = IF i = handling.idx THEN Inactive(i) ELSE clients[i]
      BY <2>1, <3>1 DEF ServerStopsClient, Typed, TableTyped
    <3>3. ~clients'[handling.idx].active
      <4>1. clients'[handling.idx] = Inactive(handling.idx)
        BY <3>1, <3>2
      <4>2. ~Inactive(handling.idx).active
        BY DEF Inactive
      <4> QED
        BY <4>1, <4>2
    <3>4. \A i \in Active' : i # handling.idx /\ i \in Slots
      BY <3>3 DEF Active
    <3>5. \A i \in Active' : clients'[i] = clients[i] /\ clients'[i].active
      BY <3>2, <3>4 DEF Active
    <3> QED
      BY <3>1, <3>4, <3>5 DEF Active
  <2>2. CASE UNCHANGED <<clients, missed>>
    BY <2>2 DEF Active
  <2> QED
    BY <2>1, <2>2 DEF ServerRejects, ServerLists, ServerBroadcasts, ServerSendsPrivately
<1>3. ASSUME NEW i \in Active', Awaited(clients[i].addr) PROVE Awaited(clients[i].addr)'
  BY <1>1, <1>2, <1>3 DEF Awaited
<1> QED
  BY <1>1, <1>2, <1>3

(* The entry touched is of age nought, others of its address have missed it. *)
LEMMA TouchingAnswers ==
  ASSUME Typed, Answering, ServerTouches
  PROVE  Answering'
<1> DEFINE idx == handling.idx
           a == handling.request.from
<1> USE DEF Answering
<1>1. /\ handling # NoRequest /\ idx \in Slots /\ idx # -1
      /\ clients' = [clients EXCEPT ![idx].age = 0]
      /\ missed' = (missed \union EntriesAt(a)) \ {idx}
      /\ handling' # NoRequest => handling'.idx = idx
      /\ UNCHANGED <<requests, replies, client>>
  BY DEF ServerTouches, Handles, Typed, Handlings
<1>2. \A i \in Slots : clients'[i] = IF i = idx THEN [clients[i] EXCEPT !.age = 0] ELSE clients[i]
  BY <1>1 DEF Typed, TableTyped
<1>3. /\ Active' = Active /\ clients'[idx].age = 0
      /\ \A i \in Active \ {idx} : clients'[i] = clients[i]
  <2>1. \A i \in Slots : clients[i] \in Entries
    BY DEF Typed, TableTyped
  <2>2. \A i \in Slots : clients'[i].active = clients[i].active
    BY <1>2, <2>1 DEF Entries
  <2>3. clients'[idx].age = 0
    BY <1>1, <1>2, <2>1 DEF Entries
  <2> QED
    BY <1>1, <1>2, <2>2, <2>3 DEF Active
<1>4. ASSUME NEW i \in Active \ {idx}, i \notin missed', Awaited(clients[i].addr)
      PROVE  Awaited(clients[i].addr)'
  <2>1. clients[i].addr # a
    BY <1>1, <1>4 DEF EntriesAt
  <2> QED
    BY <1>1, <1>3, <1>4, <2>1 DEF Awaited
<1> QED
  BY <1>1, <1>3, <1>4

(* After a run of ping_thread every client in the table has a PING coming. *)
LEMMA PingAnswers ==
  ASSUME Typed, Answering, PingPass
  PROVE  Answering'
<1> USE DEF Answering
<1>1. PICK gone \in SUBSET Active :
        /\ clients' = [i \in Slots |->
                         IF i \in gone THEN Inactive(i)
                         ELSE IF i \in Active THEN Waited(i)
                         ELSE clients[i]]
        /\ replies' = replies \union {Reply(clients[i].addr, "PING") : i \in Active \ gone}
  BY DEF PingPass
<1>2. \A i \in Slots : clients'[i].addr = clients[i].addr
                       /\ (clients'[i].active => clients[i].active)
  BY PassShrinks DEF Shrinks
<1>3. Active' \subseteq Active \ gone
  <2>1. \A i \in gone : ~clients'[i].active
    BY <1>1 DEF Inactive, Active
  <2> QED
    BY <1>2, <2>1 DEF Active
<1>4. \A i \in Active' : \E m \in replies' : m.to = clients'[i].addr /\ m.type = "PING"
  <2> TAKE i \in Active'
  <2>1. Reply(clients[i].addr, "PING") \in replies' /\ i \in Slots
    BY <1>1, <1>3 DEF Active
  <2>2. Reply(clients[i].addr, "PING").to = clients[i].addr /\ Reply(clients[i].addr, "PING").type = "PING"
    BY DEF Reply
  <2> QED
    BY <1>2, <2>1, <2>2
<1>5. handling' = handling
  BY DEF PingPass
<1>6. \A i \in Active' : clients'[i].addr = clients[i].addr /\ i \in Active
  BY <1>2, <1>3 DEF Active
<1> QED
  BY <1>4, <1>5, <1>6 DEF Awaited

LEMMA AnsweringStep ==
  ASSUME Typed, Answering, [Next]_vars
  PROVE  Answering'
<1>1. CASE UNCHANGED vars
  BY <1>1 DEF vars, server, bounds, Answering, Awaited, Active
<1> QED
  BY <1>1, ClientAnswers, NetworkAnswers, ReceivingAnswers, RegisteringAnswers, HandlingAnswers,
     TouchingAnswers, PingAnswers DEF Next, Server, ServerHandles

(* What was just noted alive is not timed out. *)
LEMMA AnsweringIsKept ==
  ASSUME Typed, Answering, PING_TIMEOUT >= 2, PingPass, NEW i \in Active,
         client[clients[i].addr] = "chatting", ~clients'[i].active, i \notin missed
  PROVE  AnswerUnderWay(clients[i].addr)
<1>1. i \in Slots /\ clients[i].active /\ clients[i] \in Entries
  BY DEF Active, Typed, TableTyped
<1>2. clients[i].age # 0
  <2>1. PICK late \in [Active -> -1 .. 1] :
          clients' = [j \in Slots |->
                        IF j \in {k \in Active : TimedOut(k, late[k])} THEN Inactive(j)
                        ELSE IF j \in Active THEN Waited(j) ELSE clients[j]]
    BY DEF PingPass
  <2>2. TimedOut(i, late[i])
    <3>1. ~TimedOut(i, late[i]) => clients'[i] = [clients[i] EXCEPT !.age = @ + 1]
      BY <1>1, <2>1 DEF Waited
    <3> QED
      BY <1>1, <3>1 DEF Entries
  <2> QED
    BY <2>2, ConstantsAssumption DEF TimedOut, ConstantsAssumption
<1> QED
  BY <1>2 DEF Answering, Awaited, AnswerUnderWay

(* For any number of addresses, entries and ids, and however long datagrams  *)
(* take: ping_thread drops the entry of a client that runs only if the       *)
(* answer to an earlier PING is still under way or being handled, or a sign  *)
(* of life was missed.                                                       *)
THEOREM AnsweringClientsKept ==
  ASSUME PING_TIMEOUT >= 2
  PROVE  Spec => AnsweringClientStays
<1>1. Typed /\ Answering /\ [Next]_vars => Answering'
  BY AnsweringStep
<1>2. Spec => Init /\ [][Next]_vars
  BY DEF Spec
<1> DEFINE Kept ==
      \A i \in Active :
        LET a == clients[i].addr
        IN  PingPass /\ client[a] = "chatting" /\ ~clients'[i].active
              => i \in missed \/ AnswerUnderWay(a)
<1>3. Typed /\ Answering => Kept
  BY AnsweringIsKept
<1>4. [][Kept]_vars => AnsweringClientStays
  BY PTL DEF AnsweringClientStays
<1> HIDE DEF Kept
<1> QED
  BY <1>1, <1>2, <1>3, <1>4, TypedHolds, AnsweringInit, PTL

=============================================================================
