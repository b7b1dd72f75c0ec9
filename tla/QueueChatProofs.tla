-------------------------- MODULE QueueChatProofs --------------------------
(***************************************************************************)
(* For any number of users, clients and messages: every user signs its     *)
(* texts with the number the server knows it by, nobody prints its number  *)
(* for a text, and all users print the texts of others in one order, each  *)
(* once.                                                                   *)
(***************************************************************************)
EXTENDS QueueChat, TLAPS, FiniteSetTheorems, SequenceTheorems

(* What goes to clients has one priority, so that it is taken in order.    *)
ToClient == {m \in Message : m.priority = 1}

Occurs(q, m) == \E j \in DOMAIN q : q[j] = m
AtMostOnce(q, m) == \A j, k \in DOMAIN q : q[j] = m /\ q[k] = m => j = k

Typed ==
  /\ MAX_CLIENTS \in Nat \ {0}
  /\ server_queue \in Seq(Message)
  /\ client_queue \in [Users -> Seq(ToClient)]
  /\ clients \in Seq(Users) /\ Len(clients) <= MAX_CLIENTS
  /\ passing \in [id : Nat, text : Nat] \union {NoText}
  /\ i \in 0 .. Len(clients) + 1 /\ (passing # NoText => i # 0)
  /\ user \in [Users -> {"absent", "off", "waiting", "chatting", "gone"}]
  /\ client_id \in [Users -> Nat \union {NoId}]
  /\ author \in Seq(Users) /\ printed \in [Users -> Seq(Nat \union {NoText})]

(* A user asks once, before it is registered; until then nobody writes to   *)
(* its queue, and then the number comes first.                              *)
Asking ==
  \A u \in Users :
    /\ AtMostOnce(server_queue, Init_(u))
    /\ Occurs(server_queue, Init_(u)) => ~Occurs(clients, u)
    /\ user[u] = "off" => ~Occurs(server_queue, Init_(u)) /\ ~Occurs(clients, u)
    /\ ~Occurs(clients, u) => client_queue[u] = <<>> /\ user[u] # "chatting"

Numbered ==
  /\ \A n, k \in DOMAIN clients : clients[n] = clients[k] => n = k
  /\ \A n \in DOMAIN clients :
       user[clients[n]] = "waiting" =>
         client_queue[clients[n]] # <<>> /\ Head(client_queue[clients[n]]) = IdMessage(n - 1)

Inv == Typed /\ Asking /\ Numbered /\ IdsAgree

-----------------------------------------------------------------------------
(* Queues *)

LEMMA InsertedAt ==
  ASSUME NEW M, NEW q \in Seq(M), NEW k \in 0 .. Len(q), NEW m \in M
  PROVE  /\ Inserted(q, k, m) \in Seq(M) /\ Len(Inserted(q, k, m)) = Len(q) + 1
         /\ \A j \in 1 .. Len(q) + 1 :
              Inserted(q, k, m)[j] = IF j <= k THEN q[j] ELSE IF j = k + 1 THEN m ELSE q[j - 1]
<1> DEFINE r == Inserted(q, k, m)
<1>1. Len(q) \in Nat /\ \A j \in 1 .. Len(q) : q[j] \in M
  OBVIOUS
<1>2. r \in [1 .. Len(q) + 1 -> M]
  BY <1>1 DEF Inserted
<1>3. r \in Seq(M) /\ Len(r) = Len(q) + 1
  BY <1>1, <1>2
<1> QED
  BY <1>3 DEF Inserted

LEMMA PriorityTyped == \A m \in Message : m.priority \in Nat
BY DEF Message

LEMMA QueuedAt ==
  ASSUME NEW q \in Seq(Message), NEW m \in Message
  PROVE  \E k \in 0 .. Len(q) :
           /\ Queued(q, m) = Inserted(q, k, m)
           /\ (\A j \in DOMAIN q : q[j].priority = m.priority) => k = Len(q)
<1> DEFINE S == {j \in DOMAIN q : q[j].priority >= m.priority}
<1>1. DOMAIN q = 1 .. Len(q) /\ Len(q) \in Nat
  OBVIOUS
<1>2. IsFiniteSet(1 .. Len(q)) /\ Cardinality(1 .. Len(q)) = Len(q)
  BY <1>1, FS_Interval
<1>3. S \in SUBSET (1 .. Len(q))
  BY <1>1
<1>4. Cardinality(S) \in Nat /\ Cardinality(S) <= Len(q)
  BY <1>2, <1>3, FS_Subset, FS_CardinalityType
<1>5. (\A j \in DOMAIN q : q[j].priority = m.priority) => S = 1 .. Len(q)
  BY <1>1, PriorityTyped
<1>6. Queued(q, m) = Inserted(q, Cardinality(S), m)
  BY DEF Queued
<1>7. (\A j \in DOMAIN q : q[j].priority = m.priority) => Cardinality(S) = Len(q)
  <2> HIDE DEF S
  <2> QED
    BY <1>2, <1>5
<1>8. Cardinality(S) \in 0 .. Len(q)
  BY <1>1, <1>4
<1> HIDE DEF S
<1> QED
  BY <1>6, <1>7, <1>8

(* Nothing is lost or doubled in a queue. *)
LEMMA QueuedOccurs ==
  ASSUME NEW q \in Seq(Message), NEW m \in Message
  PROVE  /\ Queued(q, m) \in Seq(Message) /\ Len(Queued(q, m)) = Len(q) + 1
         /\ \A x : /\ Occurs(Queued(q, m), x) => x = m \/ Occurs(q, x)
                   /\ x # m /\ AtMostOnce(q, x) => AtMostOnce(Queued(q, m), x)
                   /\ ~Occurs(q, x) => AtMostOnce(Queued(q, m), x)
<1>1. PICK k \in 0 .. Len(q) : Queued(q, m) = Inserted(q, k, m)
  BY QueuedAt
<1> DEFINE r == Queued(q, m)
<1>2. /\ r \in Seq(Message) /\ Len(r) = Len(q) + 1
      /\ \A j \in 1 .. Len(q) + 1 :
           r[j] = IF j <= k THEN q[j] ELSE IF j = k + 1 THEN m ELSE q[j - 1]
  <2>1. /\ Inserted(q, k, m) \in Seq(Message) /\ Len(Inserted(q, k, m)) = Len(q) + 1
        /\ \A j \in 1 .. Len(q) + 1 : Inserted(q, k, m)[j] =
             IF j <= k THEN q[j] ELSE IF j = k + 1 THEN m ELSE q[j - 1]
    BY InsertedAt
  <2> QED
    BY <1>1, <2>1
<1> HIDE DEF r
<1>3. DOMAIN r = 1 .. Len(q) + 1 /\ DOMAIN q = 1 .. Len(q) /\ Len(q) \in Nat
  BY <1>2
<1>4. \A j \in DOMAIN r : \/ j <= k /\ j \in DOMAIN q /\ r[j] = q[j]
                          \/ j = k + 1 /\ r[j] = m
                          \/ j > k + 1 /\ j - 1 \in DOMAIN q /\ r[j] = q[j - 1]
  <2> TAKE j \in DOMAIN r
  <2>1. j \in 1 .. Len(q) + 1 /\ k \in Nat /\ k <= Len(q) /\ Len(q) \in Nat
    BY <1>3
  <2>2. r[j] = IF j <= k THEN q[j] ELSE IF j = k + 1 THEN m ELSE q[j - 1]
    BY <1>2, <2>1
  <2>3. /\ j <= k => j \in DOMAIN q
        /\ j > k + 1 => j - 1 \in DOMAIN q
        /\ j <= k \/ j = k + 1 \/ j > k + 1
        /\ ~(j > k + 1 /\ (j <= k \/ j = k + 1)) /\ ~(j = k + 1 /\ j <= k)
    BY <1>3, <2>1
  <2> QED
    BY <2>2, <2>3
<1>5. ASSUME NEW x, Occurs(r, x) PROVE x = m \/ Occurs(q, x)
  BY <1>4, <1>5 DEF Occurs
<1>6. ASSUME NEW x, x # m \/ ~Occurs(q, x), AtMostOnce(q, x) PROVE AtMostOnce(r, x)
  <2> SUFFICES ASSUME NEW j \in DOMAIN r, NEW l \in DOMAIN r, r[j] = x, r[l] = x PROVE j = l
    BY DEF AtMostOnce
  <2>1. x # m => /\ IF j <= k THEN j \in DOMAIN q /\ q[j] = x ELSE j - 1 \in DOMAIN q /\ q[j - 1] = x
                 /\ IF l <= k THEN l \in DOMAIN q /\ q[l] = x ELSE l - 1 \in DOMAIN q /\ q[l - 1] = x
                 /\ j # k + 1 /\ l # k + 1
    BY <1>3, <1>4
  <2>2. CASE x # m
    BY <1>3, <1>6, <2>1, <2>2 DEF AtMostOnce
  <2>3. CASE ~Occurs(q, x)
    BY <1>4, <2>3 DEF Occurs
  <2> QED
    BY <1>6, <2>2, <2>3
<1>7. \A x : ~Occurs(q, x) => AtMostOnce(q, x)
  BY DEF Occurs, AtMostOnce
<1> QED
  BY <1>2, <1>5, <1>6, <1>7 DEF r

LEMMA QueuedLast ==
  ASSUME NEW q \in Seq(ToClient), NEW m \in ToClient
  PROVE  /\ Queued(q, m) \in Seq(ToClient) /\ Queued(q, m) # <<>>
         /\ q # <<>> => Head(Queued(q, m)) = Head(q)
         /\ q = <<>> => Head(Queued(q, m)) = m
<1>1. q \in Seq(Message) /\ m \in Message /\ \A j \in DOMAIN q : q[j].priority = m.priority
  BY DEF ToClient
<1>2. PICK k \in 0 .. Len(q) : Queued(q, m) = Inserted(q, k, m) /\ k = Len(q)
  BY <1>1, QueuedAt
<1> DEFINE r == Queued(q, m)
<1>3. /\ r \in Seq(ToClient) /\ Len(r) = Len(q) + 1
      /\ \A j \in 1 .. Len(q) + 1 :
           r[j] = IF j <= k THEN q[j] ELSE IF j = k + 1 THEN m ELSE q[j - 1]
  <2>1. /\ Inserted(q, k, m) \in Seq(ToClient) /\ Len(Inserted(q, k, m)) = Len(q) + 1
        /\ \A j \in 1 .. Len(q) + 1 : Inserted(q, k, m)[j] =
             IF j <= k THEN q[j] ELSE IF j = k + 1 THEN m ELSE q[j - 1]
    BY InsertedAt
  <2> QED
    BY <1>2, <2>1
<1> HIDE DEF r
<1>4. r # <<>> /\ Head(r) = r[1]
  BY <1>3
<1>5. r[1] = IF q = <<>> THEN m ELSE q[1]
  BY <1>2, <1>3
<1> QED
  BY <1>3, <1>4, <1>5 DEF r

LEMMA Taken ==
  ASSUME NEW M, NEW q \in Seq(M), q # <<>>
  PROVE  /\ Tail(q) \in Seq(M) /\ Head(q) \in M /\ Occurs(q, Head(q))
         /\ \A x : /\ Occurs(Tail(q), x) => Occurs(q, x)
                   /\ AtMostOnce(q, x) => AtMostOnce(Tail(q), x)
                   /\ AtMostOnce(q, Head(q)) => ~Occurs(Tail(q), Head(q))
<1>1. /\ Tail(q) \in Seq(M) /\ Head(q) \in M /\ Head(q) = q[1] /\ Len(Tail(q)) = Len(q) - 1
      /\ \A j \in 1 .. Len(Tail(q)) : Tail(q)[j] = q[j + 1]
      /\ Len(q) \in Nat \ {0}
  BY HeadTailProperties
<1> DEFINE t == Tail(q)
<1>2. /\ DOMAIN q = 1 .. Len(q) /\ 1 \in DOMAIN q
      /\ \A j \in DOMAIN t : j + 1 \in DOMAIN q /\ j + 1 # 1 /\ t[j] = q[j + 1] /\ j \in Nat
  BY <1>1
<1> HIDE DEF t
<1>3. ASSUME NEW x PROVE /\ Occurs(t, x) => Occurs(q, x)
                         /\ AtMostOnce(q, x) => AtMostOnce(t, x)
                         /\ x = q[1] /\ AtMostOnce(q, x) => ~Occurs(t, x)
  BY <1>2 DEF Occurs, AtMostOnce
<1> QED
  BY <1>1, <1>2, <1>3 DEF t, Occurs

-----------------------------------------------------------------------------
(* Messages *)

LEMMA MessagesTyped ==
  /\ \A u \in Users : Init_(u) \in Message
  /\ \A id \in Nat : IdMessage(id) \in ToClient /\ IdMessage(id).type = "ID" /\ IdMessage(id).id = id
  /\ \A p \in {0, 1}, id \in Nat, n \in Nat : Text(p, id, n) \in Message
  /\ \A id \in Nat, n \in Nat : Text(1, id, n) \in ToClient
BY DEF Message, ToClient, Init_, IdMessage, Text

LEMMA MessagesDiffer ==
  /\ \A u, v : Init_(u) = Init_(v) => u = v
  /\ \A u, p, id, n : Init_(u) # Text(p, id, n)
  /\ \A m \in Message : m.type = "TEXT" => m.text \in Nat /\ m.id \in Nat
<1>1. \A u : Init_(u).user = u /\ Init_(u).type = "INIT"
  BY DEF Init_
<1>2. \A p, id, n : Text(p, id, n).type = "TEXT"
  BY DEF Text
<1>3. \A m \in Message : m.type = "TEXT" => m.text \in Nat /\ m.id \in Nat
  BY DEF Message
<1> QED
  BY <1>1, <1>2, <1>3

LEMMA InvInit ==
  ASSUME NEW present, QueueInit(present)
  PROVE  Inv
<1>1. DOMAIN clients = {} /\ DOMAIN server_queue = {}
  BY DEF QueueInit
<1>2. \A u \in Users : user[u] \in {"off", "absent"} /\ client_queue[u] = <<>>
  BY DEF QueueInit
<1>3. Typed
  <2>1. MAX_CLIENTS \in Nat \ {0}
    BY QueueAssumption DEF QueueAssumption, QueueInit
  <2>2. \A M : <<>> \in Seq(M)
    OBVIOUS
  <2> QED
    BY <2>1, <2>2 DEF QueueInit, Typed
<1> QED
  BY <1>1, <1>2, <1>3 DEF Inv, Asking, Numbered, IdsAgree, Occurs, AtMostOnce

-----------------------------------------------------------------------------
(* Users *)

(* What a user puts into the server's queue says nothing of other users. *)
LEMMA Says ==
  ASSUME Inv, NEW m \in Message, SendsToServer(m)
  PROVE  /\ server_queue' \in Seq(Message)
         /\ \A v \in Users : Init_(v) # m =>
              /\ AtMostOnce(server_queue', Init_(v))
              /\ Occurs(server_queue', Init_(v)) => Occurs(server_queue, Init_(v))
         /\ \A v \in Users : ~Occurs(server_queue, Init_(v)) => AtMostOnce(server_queue', Init_(v))
<1>1. server_queue \in Seq(Message) /\ server_queue' = Queued(server_queue, m)
  BY DEF Inv, Typed, SendsToServer
<1>2. \A v \in Users : AtMostOnce(server_queue, Init_(v)) /\ Init_(v) \in Message
  BY MessagesTyped DEF Inv, Asking
<1> QED
  BY <1>1, <1>2, QueuedOccurs

LEMMA UserStartsInv ==
  ASSUME Inv, NEW u \in Users, UserStarts(u)
  PROVE  Inv'
<1>1. /\ user[u] = "off" /\ user' = [user EXCEPT ![u] = "waiting"]
      /\ SendsToServer(Init_(u))
      /\ UNCHANGED <<MAX_CLIENTS, client_queue, clients, passing, i, client_id, author, printed>>
  BY DEF UserStarts
<1>2. ~Occurs(server_queue, Init_(u)) /\ ~Occurs(clients, u)
  BY <1>1 DEF Inv, Asking
<1>3. /\ server_queue' \in Seq(Message)
      /\ \A v \in Users : /\ AtMostOnce(server_queue', Init_(v))
                          /\ v # u /\ Occurs(server_queue', Init_(v)) => Occurs(server_queue, Init_(v))
  BY <1>1, <1>2, Says, MessagesTyped, MessagesDiffer
<1>4. \A v \in Users : user'[v] = IF v = u THEN "waiting" ELSE user[v]
  BY <1>1 DEF Inv, Typed
<1>5. Typed'
  BY <1>1, <1>3 DEF Inv, Typed
<1>6. Asking'
  BY <1>1, <1>2, <1>3, <1>4 DEF Inv, Asking
<1>7. Numbered'
  BY <1>1, <1>2, <1>4 DEF Inv, Numbered, Typed, Occurs
<1>8. IdsAgree'
  BY <1>1, <1>4 DEF Inv, IdsAgree
<1> QED
  BY <1>5, <1>6, <1>7, <1>8 DEF Inv

(* The first message is the number. *)
LEMMA UserGetsIdInv ==
  ASSUME Inv, NEW u \in Users, UserGetsId(u)
  PROVE  Inv'
<1> DEFINE m == Head(client_queue[u])
<1>1. /\ user[u] = "waiting" /\ client_queue[u] # <<>>
      /\ client_queue' = [client_queue EXCEPT ![u] = Tail(client_queue[u])]
      /\ client_id' = [client_id EXCEPT ![u] = IF m.type = "ID" THEN m.id ELSE NoId]
      /\ user' = [user EXCEPT ![u] = "chatting"]
      /\ UNCHANGED <<MAX_CLIENTS, server_queue, clients, passing, i, author, printed>>
  BY DEF UserGetsId
<1>2. PICK n \in DOMAIN clients : clients[n] = u
  BY <1>1 DEF Inv, Asking, Occurs
<1>3. m = IdMessage(n - 1) /\ n - 1 \in Nat
  BY <1>1, <1>2 DEF Inv, Numbered, Typed
<1>4. client_id'[u] = n - 1 /\ user'[u] = "chatting"
      /\ \A v \in Users \ {u} : /\ client_id'[v] = client_id[v] /\ user'[v] = user[v]
                                /\ client_queue'[v] = client_queue[v]
  BY <1>1, <1>3, MessagesTyped DEF Inv, Typed
<1>5. Tail(client_queue[u]) \in Seq(ToClient)
  BY <1>1, Taken DEF Inv, Typed
<1>6. client_id' \in [Users -> Nat \union {NoId}]
  <2>1. client_id' = [client_id EXCEPT ![u] = n - 1]
    BY <1>1, <1>3, MessagesTyped
  <2> QED
    BY <1>3, <2>1 DEF Inv, Typed
<1>7. Typed'
  BY <1>1, <1>5, <1>6 DEF Inv, Typed
<1>8. Asking'
  BY <1>1, <1>2, <1>4 DEF Inv, Asking, Occurs
<1>9. Numbered'
  <2>1. \A k \in DOMAIN clients : clients[k] \in Users
    BY DEF Inv, Typed
  <2>2. \A k \in DOMAIN clients :
          user'[clients[k]] = "waiting" =>
            /\ user[clients[k]] = "waiting"
            /\ client_queue'[clients[k]] = client_queue[clients[k]]
    BY <1>4, <2>1
  <2>3. clients' = clients
    BY <1>1
  <2> QED
    BY <2>2, <2>3 DEF Inv, Numbered
<1>10. IdsAgree'
  BY <1>1, <1>2, <1>4 DEF Inv, IdsAgree
<1> QED
  BY <1>7, <1>8, <1>9, <1>10 DEF Inv

LEMMA UserTypesInv ==
  ASSUME Inv, NEW u \in Users, UserTypes(u)
  PROVE  Inv'
<1> DEFINE m == Text(0, client_id[u], Len(author) + 1)
<1>1. /\ user[u] = "chatting" /\ author' = Append(author, u) /\ SendsToServer(m)
      /\ UNCHANGED <<MAX_CLIENTS, client_queue, clients, passing, i, user, client_id, printed>>
  BY DEF UserTypes
<1>2. client_id[u] \in Nat
  BY <1>1 DEF Inv, IdsAgree, Typed
<1>3. m \in Message /\ \A v : Init_(v) # m
  BY <1>2, MessagesTyped, MessagesDiffer DEF Inv, Typed
<1>4. /\ server_queue' \in Seq(Message)
      /\ \A v \in Users : /\ AtMostOnce(server_queue', Init_(v))
                          /\ Occurs(server_queue', Init_(v)) => Occurs(server_queue, Init_(v))
  BY <1>1, <1>3, Says
<1>5. author' \in Seq(Users)
  BY <1>1, AppendProperties DEF Inv, Typed
<1>6. Typed'
  BY <1>1, <1>4, <1>5 DEF Inv, Typed
<1>7. Asking' /\ Numbered' /\ IdsAgree'
  BY <1>1, <1>4 DEF Inv, Asking, Numbered, IdsAgree
<1> QED
  BY <1>6, <1>7 DEF Inv

LEMMA UserPrintsInv ==
  ASSUME Inv, NEW u \in Users, UserPrints(u)
  PROVE  Inv'
<1> DEFINE m == Head(client_queue[u])
           n == IF m.type = "TEXT" THEN m.text ELSE NoText
<1>1. /\ user[u] = "chatting" /\ client_queue[u] # <<>>
      /\ client_queue' = [client_queue EXCEPT ![u] = Tail(client_queue[u])]
      /\ printed' = [printed EXCEPT ![u] = Append(printed[u], n)]
      /\ UNCHANGED <<MAX_CLIENTS, server_queue, clients, passing, i, user, client_id, author>>
  BY DEF UserPrints
<1>2. Tail(client_queue[u]) \in Seq(ToClient) /\ m \in ToClient
  BY <1>1, Taken DEF Inv, Typed
<1>3. n \in Nat \union {NoText}
  BY <1>2, MessagesDiffer DEF ToClient
<1>4. Append(printed[u], n) \in Seq(Nat \union {NoText})
  BY <1>3, AppendProperties DEF Inv, Typed
<1>5. Typed'
  BY <1>1, <1>2, <1>4 DEF Inv, Typed
<1>6. Occurs(clients, u)
  BY <1>1 DEF Inv, Asking
<1>7. \A v \in Users \ {u} : client_queue'[v] = client_queue[v]
  BY <1>1 DEF Inv, Typed
<1>8. Asking'
  BY <1>1, <1>6, <1>7 DEF Inv, Asking
<1>9. Numbered'
  <2>1. \A k \in DOMAIN clients : clients[k] \in Users
    BY DEF Inv, Typed
  <2>2. \A k \in DOMAIN clients :
          user[clients[k]] = "waiting" => client_queue'[clients[k]] = client_queue[clients[k]]
    BY <1>1, <1>7, <2>1
  <2>3. clients' = clients /\ user' = user
    BY <1>1
  <2> QED
    BY <2>2, <2>3 DEF Inv, Numbered
<1>10. IdsAgree'
  BY <1>1 DEF Inv, IdsAgree
<1> QED
  BY <1>5, <1>8, <1>9, <1>10 DEF Inv

LEMMA UserEndsInv ==
  ASSUME Inv, NEW u \in Users, UserEnds(u)
  PROVE  Inv'
<1>1. /\ user' = [user EXCEPT ![u] = "gone"]
      /\ UNCHANGED <<MAX_CLIENTS, queues, clients, passing, i, client_id, author, printed>>
  BY DEF UserEnds
<1>2. \A v \in Users : user'[v] = IF v = u THEN "gone" ELSE user[v]
  BY <1>1 DEF Inv, Typed
<1>3. Typed'
  BY <1>1 DEF Inv, Typed, queues
<1>4. Asking' /\ IdsAgree'
  BY <1>1, <1>2 DEF Inv, Asking, IdsAgree, queues
<1>5. Numbered'
  BY <1>1, <1>2 DEF Inv, Numbered, Typed, queues
<1> QED
  BY <1>3, <1>4, <1>5 DEF Inv

-----------------------------------------------------------------------------
(* The server *)

LEMMA Receives ==
  ASSUME Inv, NEW m, ServerReceives(m)
  PROVE  /\ m \in Message /\ Occurs(server_queue, m) /\ server_queue' \in Seq(Message)
         /\ \A v \in Users :
              /\ AtMostOnce(server_queue', Init_(v))
              /\ Occurs(server_queue', Init_(v)) => Occurs(server_queue, Init_(v)) /\ Init_(v) # m
<1>1. /\ server_queue # <<>> /\ m = Head(server_queue) /\ server_queue' = Tail(server_queue)
      /\ server_queue \in Seq(Message)
  BY DEF ServerReceives, Inv, Typed
<1>2. \A v \in Users : AtMostOnce(server_queue, Init_(v))
  BY DEF Inv, Asking
<1> QED
  BY <1>1, <1>2, Taken

(* A user that asks is given the next number, in a queue that is empty. *)
LEMMA ServerRegistersInv ==
  ASSUME Inv, NEW u \in Users, ServerRegisters(u)
  PROVE  Inv'
<1>1. /\ ServerReceives(Init_(u))
      /\ UNCHANGED <<MAX_CLIENTS, passing, i, user, client_id, author, printed>>
  BY DEF ServerRegisters
<1>2. /\ Occurs(server_queue, Init_(u)) /\ server_queue' \in Seq(Message)
      /\ \A v \in Users :
           /\ AtMostOnce(server_queue', Init_(v))
           /\ Occurs(server_queue', Init_(v)) => Occurs(server_queue, Init_(v)) /\ v # u
  BY <1>1, Receives
<1>3. /\ ~Occurs(clients, u) /\ client_queue[u] = <<>> /\ user[u] # "off" /\ user[u] # "chatting"
  BY <1>2 DEF Inv, Asking
<1>4. CASE UNCHANGED <<client_queue, clients>>
  <2>1. Typed'
    BY <1>1, <1>2, <1>4 DEF Inv, Typed
  <2>2. Asking' /\ Numbered' /\ IdsAgree'
    BY <1>1, <1>2, <1>4 DEF Inv, Asking, Numbered, IdsAgree
  <2> QED
    BY <2>1, <2>2 DEF Inv
<1>5. CASE /\ Len(clients) < MAX_CLIENTS
           /\ client_queue' = [client_queue EXCEPT
                ![u] = Queued(client_queue[u], IdMessage(Len(clients)))]
           /\ clients' = Append(clients, u)
  <2> DEFINE id == Len(clients)
             q == Queued(client_queue[u], IdMessage(id))
  <2>1. id \in Nat /\ clients \in Seq(Users)
    BY DEF Inv, Typed
  <2>2. <<>> \in Seq(ToClient)
    OBVIOUS
  <2>3. q \in Seq(ToClient) /\ q # <<>> /\ Head(q) = IdMessage(id)
    BY <1>3, <2>1, <2>2, QueuedLast, MessagesTyped
  <2>4. /\ clients' \in Seq(Users) /\ Len(clients') = id + 1
        /\ clients'[id + 1] = u /\ \A n \in 1 .. id : clients'[n] = clients[n]
    BY <1>5, <2>1, AppendProperties
  <2>5. DOMAIN clients = 1 .. id /\ DOMAIN clients' = 1 .. id + 1
    BY <2>1, <2>4
  <2>6. /\ client_queue' \in [Users -> Seq(ToClient)] /\ client_queue'[u] = q
        /\ \A v \in Users \ {u} : client_queue'[v] = client_queue[v]
    <3> HIDE DEF q
    <3> QED
      BY <1>5, <2>3 DEF Inv, Typed, q
  <2>7. Typed'
    BY <1>1, <1>2, <1>5, <2>1, <2>4, <2>6 DEF Inv, Typed
  <2>8. \A v \in Users : Occurs(clients', v) <=> v = u \/ Occurs(clients, v)
    <3>1. 1 .. id + 1 = (1 .. id) \union {id + 1}
      BY <2>1
    <3> QED
      BY <2>4, <2>5, <3>1 DEF Occurs
  <2>9. Asking'
    BY <1>1, <1>2, <1>3, <2>6, <2>8 DEF Inv, Asking
  <2>10. \A n \in 1 .. id + 1 : \/ n = id + 1 /\ clients'[n] = u
                                \/ /\ n \in DOMAIN clients /\ clients'[n] = clients[n]
                                   /\ clients[n] \in Users \ {u}
    BY <1>3, <2>1, <2>4, <2>5 DEF Occurs
  <2>11. Numbered'
    <3>1. \A n, k \in DOMAIN clients' : clients'[n] = clients'[k] => n = k
      BY <2>5, <2>10 DEF Inv, Numbered
    <3>2. ASSUME NEW n \in DOMAIN clients', user'[clients'[n]] = "waiting"
          PROVE  /\ client_queue'[clients'[n]] # <<>>
                 /\ Head(client_queue'[clients'[n]]) = IdMessage(n - 1)
      <4>1. CASE n = id + 1 /\ clients'[n] = u
        <5>1. n - 1 = id
          BY <2>1, <4>1
        <5> HIDE DEF q, id
        <5> QED
          BY <2>3, <2>6, <4>1, <5>1
      <4>2. CASE n \in DOMAIN clients /\ clients'[n] = clients[n] /\ clients[n] \in Users \ {u}
        BY <1>1, <2>6, <3>2, <4>2 DEF Inv, Numbered
      <4> QED
        BY <2>5, <2>10, <4>1, <4>2
    <3> QED
      BY <3>1, <3>2 DEF Numbered
  <2>12. IdsAgree'
    <3> SUFFICES ASSUME NEW v \in Users, user[v] = "chatting"
                 PROVE  \E n \in DOMAIN clients' : clients'[n] = v /\ client_id[v] = n - 1
      BY <1>1 DEF IdsAgree
    <3>1. PICK n \in DOMAIN clients : clients[n] = v /\ client_id[v] = n - 1
      BY DEF Inv, IdsAgree
    <3>2. n \in DOMAIN clients' /\ clients'[n] = v
      BY <2>1, <2>4, <2>5, <3>1
    <3> QED
      BY <3>1, <3>2
  <2> QED
    BY <2>7, <2>9, <2>11, <2>12 DEF Inv
<1> QED
  BY <1>4, <1>5 DEF ServerRegisters

LEMMA ServerTakesTextInv ==
  ASSUME Inv, ServerTakesText
  PROVE  Inv'
<1>1. PICK n \in DOMAIN author, id \in Range(client_id) :
        /\ ServerReceives(Text(0, id, n)) /\ passing' = [id |-> id, text |-> n] /\ i' = 1
        /\ UNCHANGED <<MAX_CLIENTS, client_queue, clients, user, client_id, author, printed>>
  BY DEF ServerTakesText
<1>2. /\ Text(0, id, n) \in Message /\ server_queue' \in Seq(Message)
      /\ \A v \in Users :
           /\ AtMostOnce(server_queue', Init_(v))
           /\ Occurs(server_queue', Init_(v)) => Occurs(server_queue, Init_(v))
  BY <1>1, Receives
<1>3. /\ Text(0, id, n).type = "TEXT" /\ Text(0, id, n).id = id /\ Text(0, id, n).text = n
  BY DEF Text
<1>4. id \in Nat /\ n \in Nat
  BY <1>2, <1>3, MessagesDiffer
<1>5. Typed'
  <2>1. passing' \in [id : Nat, text : Nat] /\ i' \in 0 .. Len(clients') + 1 /\ i' # 0
    <3>1. Len(clients) \in Nat
      BY DEF Inv, Typed
    <3> QED
      BY <1>1, <1>4, <3>1
  <2> QED
    BY <1>1, <1>2, <2>1 DEF Inv, Typed
<1>6. Asking' /\ Numbered' /\ IdsAgree'
  BY <1>1, <1>2 DEF Inv, Asking, Numbered, IdsAgree
<1> QED
  BY <1>5, <1>6 DEF Inv

LEMMA ServerPassesOnInv ==
  ASSUME Inv, ServerPassesOn
  PROVE  Inv'
<1> DEFINE m == Text(1, passing.id, passing.text)
           u == clients[i]
           q == Queued(client_queue[u], m)
<1>1. /\ passing # NoText /\ ~(i > Len(clients)) /\ i' = i + 1
      /\ UNCHANGED client_queue \/ client_queue' = [client_queue EXCEPT ![u] = q]
      /\ UNCHANGED <<MAX_CLIENTS, server_queue, clients, passing, user, client_id, author, printed>>
  BY DEF ServerPassesOn, PassedOn, PassedToAll
<1>2. i \in DOMAIN clients /\ u \in Users /\ i' \in 0 .. Len(clients) + 1 /\ i' # 0
  BY <1>1 DEF Inv, Typed
<1>3. m \in ToClient /\ client_queue[u] \in Seq(ToClient)
  BY <1>1, <1>2, MessagesTyped DEF Inv, Typed
<1>4. q \in Seq(ToClient) /\ q # <<>> /\ (client_queue[u] # <<>> => Head(q) = Head(client_queue[u]))
  BY <1>3, QueuedLast
<1> HIDE DEF q
<1>5. /\ client_queue' \in [Users -> Seq(ToClient)]
      /\ \A v \in Users : client_queue'[v] = client_queue[v] \/ (v = u /\ client_queue'[v] = q)
  BY <1>1, <1>4 DEF Inv, Typed
<1>6. Typed'
  BY <1>1, <1>2, <1>5 DEF Inv, Typed
<1>7. Occurs(clients, u)
  BY <1>2 DEF Occurs
<1>8. Asking'
  BY <1>1, <1>5, <1>7 DEF Inv, Asking
<1>9. Numbered'
  <2>1. \A n \in DOMAIN clients : clients[n] \in Users
    BY DEF Inv, Typed
  <2>2. \A n \in DOMAIN clients :
          user[clients[n]] = "waiting" =>
            client_queue[clients[n]] # <<>> /\ Head(client_queue[clients[n]]) = IdMessage(n - 1)
    BY DEF Inv, Numbered
  <2>3. ASSUME NEW v \in Users, client_queue[v] # <<>>
        PROVE  client_queue'[v] # <<>> /\ Head(client_queue'[v]) = Head(client_queue[v])
    <3> HIDE DEF u
    <3> QED
      BY <1>4, <1>5, <2>3
  <2>4. \A n \in DOMAIN clients :
          user[clients[n]] = "waiting" =>
            client_queue'[clients[n]] # <<>> /\ Head(client_queue'[clients[n]]) = IdMessage(n - 1)
    BY <2>1, <2>2, <2>3
  <2> QED
    BY <1>1, <2>4 DEF Inv, Numbered
<1>10. IdsAgree'
  BY <1>1 DEF Inv, IdsAgree
<1> QED
  BY <1>6, <1>8, <1>9, <1>10 DEF Inv

-----------------------------------------------------------------------------
(* The invariant *)

LEMMA InvStep == Inv /\ [QueueNext]_queueVars => Inv'
<1> SUFFICES ASSUME Inv, [QueueNext]_queueVars PROVE Inv'
  OBVIOUS
<1>1. CASE \E u \in Users : User(u)
  BY <1>1, UserStartsInv, UserGetsIdInv, UserTypesInv, UserPrintsInv, UserEndsInv DEF User
<1>2. CASE ServerHasPassedOn
  <2>1. /\ passing' = NoText /\ i' = 0
        /\ UNCHANGED <<MAX_CLIENTS, queues, clients, user, client_id, author, printed>>
    BY <1>2 DEF ServerHasPassedOn
  <2>2. Typed'
    BY <2>1 DEF Inv, Typed, queues
  <2>3. Asking' /\ Numbered' /\ IdsAgree'
    BY <2>1 DEF Inv, Asking, Numbered, IdsAgree, queues
  <2> QED
    BY <2>2, <2>3 DEF Inv
<1>3. CASE Server
  BY <1>2, <1>3, ServerRegistersInv, ServerTakesTextInv, ServerPassesOnInv DEF Server
<1>4. CASE UNCHANGED queueVars
  BY <1>4 DEF queueVars, queues, Inv, Typed, Asking, Numbered, IdsAgree
<1> QED
  BY <1>1, <1>3, <1>4 DEF QueueNext

LEMMA InvHolds == QueueSpec => []Inv
<1>1. QueueInit(Users) => Inv
  BY InvInit
<1> QED
  BY <1>1, InvStep, PTL DEF QueueSpec

(* A client takes the first message of its queue for its id (client.c:81),   *)
(* whatever others send by then.  It is the number the server has it under,  *)
(* because a queue gets no text before its id, and all that goes to clients  *)
(* has one priority.                                                         *)
THEOREM NumbersAgree == QueueSpec => []IdsAgree
<1>1. Inv => IdsAgree
  BY DEF Inv
<1> QED
  BY <1>1, InvHolds, PTL

-----------------------------------------------------------------------------
(* The order of texts.  What a user has printed and what waits in its queue  *)
(* is one series; the server adds to the ends of these series, one text at a *)
(* time.                                                                     *)

Told(m) == IF m.type = "TEXT" THEN m.text ELSE NoText

Series(p, q) ==
  [j \in 1 .. Len(p) + Len(q) |-> IF j <= Len(p) THEN p[j] ELSE Told(q[j - Len(p)])]

SeriesOf(u) == Series(printed[u], client_queue[u])

Once(s) == \A j, k \in DOMAIN s : s[j] = s[k] => j = k

Agree(s, t) ==
  \A j, k \in DOMAIN s : \A l, m \in DOMAIN t :
    (j < k /\ l < m) => ~(s[j] = t[m] /\ s[k] = t[l])

FromAuthor(id, n) == n \in DOMAIN author /\ id + 1 \in DOMAIN clients /\ clients[id + 1] = author[n]

(* A text is in the server's queue once, then in the server's hands, and     *)
(* only then in the series of others.                                        *)
AtServerOnce ==
  \A x \in Message : x.type = "TEXT" =>
    /\ AtMostOnce(server_queue, x)
    /\ Occurs(server_queue, x) => x.priority = 0 /\ FromAuthor(x.id, x.text)

OthersTexts ==
  \A u \in Users : \A j \in DOMAIN SeriesOf(u) :
    SeriesOf(u)[j] # NoText =>
      /\ SeriesOf(u)[j] \in DOMAIN author /\ author[SeriesOf(u)[j]] # u
      /\ \A x \in Message :
           x.type = "TEXT" /\ Occurs(server_queue, x) => x.text # SeriesOf(u)[j]

(* The text in the server's hands is the last of those it was passed on to. *)
PassedUpTo ==
  passing # NoText =>
    /\ FromAuthor(passing.id, passing.text)
    /\ \A x \in Message : x.type = "TEXT" /\ Occurs(server_queue, x) => x.text # passing.text
    /\ \A u \in Users : \A j \in DOMAIN SeriesOf(u) :
         SeriesOf(u)[j] = passing.text =>
           /\ \A k \in DOMAIN SeriesOf(u) : k <= j
           /\ \E k \in DOMAIN clients : k < i /\ clients[k] = u

SeriesAgree ==
  /\ \A u \in Users : Once(SeriesOf(u))
  /\ \A u, v \in Users : Agree(SeriesOf(u), SeriesOf(v))
  /\ \A u \in Users : user[u] = "waiting" \/ ~Occurs(clients, u) => printed[u] = <<>>

Ordered == AtServerOnce /\ OthersTexts /\ PassedUpTo /\ SeriesAgree

(* Series *)

LEMMA SeriesTyped ==
  ASSUME Typed, NEW u \in Users
  PROVE  /\ printed[u] \in Seq(Nat \union {NoText}) /\ client_queue[u] \in Seq(ToClient)
         /\ DOMAIN SeriesOf(u) = 1 .. Len(printed[u]) + Len(client_queue[u])
         /\ Len(printed[u]) \in Nat /\ Len(client_queue[u]) \in Nat
         /\ \A j \in DOMAIN SeriesOf(u) : j \in Nat
<1>1. printed[u] \in Seq(Nat \union {NoText}) /\ client_queue[u] \in Seq(ToClient)
  BY DEF Typed
<1>2. Len(printed[u]) \in Nat /\ Len(client_queue[u]) \in Nat
  BY <1>1
<1>3. DOMAIN SeriesOf(u) = 1 .. Len(printed[u]) + Len(client_queue[u])
  BY DEF SeriesOf, Series
<1>4. \A j \in 1 .. Len(printed[u]) + Len(client_queue[u]) : j \in Nat
  BY <1>2
<1> QED
  BY <1>1, <1>2, <1>3, <1>4

(* Printing moves the border between what is printed and what waits. *)
LEMMA SeriesPrints ==
  ASSUME NEW P, NEW p \in Seq(P), NEW q \in Seq(ToClient), q # <<>>, Told(Head(q)) \in P
  PROVE  Series(Append(p, Told(Head(q))), Tail(q)) = Series(p, q)
<1> DEFINE n == Told(Head(q))
           a == Append(p, n)
           t == Tail(q)
<1>1. /\ Len(p) \in Nat /\ Len(q) \in Nat \ {0} /\ Len(t) = Len(q) - 1
      /\ \A j \in 1 .. Len(q) - 1 : t[j] = q[j + 1]
      /\ Head(q) = q[1]
  BY HeadTailProperties
<1>2. /\ Len(a) = Len(p) + 1 /\ a[Len(p) + 1] = n
      /\ \A j \in 1 .. Len(p) : a[j] = p[j]
  BY AppendProperties
<1> HIDE DEF a, t
<1>3. Len(a) + Len(t) = Len(p) + Len(q)
  BY <1>1, <1>2
<1>4. ASSUME NEW j \in 1 .. Len(p) + Len(q)
      PROVE  (IF j <= Len(a) THEN a[j] ELSE Told(t[j - Len(a)]))
               = (IF j <= Len(p) THEN p[j] ELSE Told(q[j - Len(p)]))
  <2>1. CASE j <= Len(p)
    BY <1>1, <1>2, <2>1
  <2>2. CASE j = Len(p) + 1
    <3>1. j - Len(p) = 1
      BY <1>1, <2>2
    <3> QED
      BY <1>1, <1>2, <2>2, <3>1
  <2>3. CASE j > Len(p) + 1
    <3>1. j - Len(a) \in 1 .. Len(q) - 1 /\ (j - Len(a)) + 1 = j - Len(p)
      BY <1>1, <1>2, <2>3
    <3>2. ~(j <= Len(p)) /\ ~(j <= Len(a))
      BY <1>1, <1>2, <2>3
    <3> QED
      BY <1>1, <3>1, <3>2
  <2>4. j <= Len(p) \/ j = Len(p) + 1 \/ j > Len(p) + 1
    <3>1. j \in Int /\ Len(p) \in Int
      BY <1>1
    <3> QED
      BY <3>1
  <2> QED
    BY <2>1, <2>2, <2>3, <2>4
<1> QED
  BY <1>3, <1>4 DEF Series, a, t

LEMMA InsertedLast ==
  ASSUME NEW q \in Seq(Message), NEW m \in Message
  PROVE  /\ Len(Inserted(q, Len(q), m)) = Len(q) + 1 /\ Inserted(q, Len(q), m)[Len(q) + 1] = m
         /\ \A j \in 1 .. Len(q) : Inserted(q, Len(q), m)[j] = q[j]
<1>1. Len(q) \in Nat
  OBVIOUS
<1>2. PICK k \in 0 .. Len(q) : k = Len(q)
  BY <1>1
<1>3. /\ Inserted(q, k, m) \in Seq(Message) /\ Len(Inserted(q, k, m)) = Len(q) + 1
      /\ \A j \in 1 .. Len(q) + 1 :
           Inserted(q, k, m)[j] = IF j <= k THEN q[j] ELSE IF j = k + 1 THEN m ELSE q[j - 1]
  BY InsertedAt
<1> QED
  BY <1>1, <1>2, <1>3

(* What is sent to a client comes last. *)
LEMMA SeriesGrows ==
  ASSUME NEW p \in Seq(Nat \union {NoText}), NEW q \in Seq(ToClient), NEW m \in ToClient
  PROVE  /\ Len(p) + Len(q) \in Nat /\ DOMAIN Series(p, q) = 1 .. Len(p) + Len(q)
         /\ DOMAIN Series(p, Queued(q, m)) = 1 .. (Len(p) + Len(q)) + 1
         /\ Series(p, Queued(q, m))[(Len(p) + Len(q)) + 1] = Told(m)
         /\ \A j \in 1 .. Len(p) + Len(q) : Series(p, Queued(q, m))[j] = Series(p, q)[j]
<1>1. q \in Seq(Message) /\ m \in Message /\ \A j \in DOMAIN q : q[j].priority = m.priority
  BY DEF ToClient
<1>2. Queued(q, m) = Inserted(q, Len(q), m)
  BY <1>1, QueuedAt
<1> DEFINE b == Queued(q, m)
<1>3. Len(p) \in Nat /\ Len(q) \in Nat
  OBVIOUS
<1>4. /\ Len(b) = Len(q) + 1 /\ b[Len(q) + 1] = m
      /\ \A j \in 1 .. Len(q) : b[j] = q[j]
  BY <1>1, <1>2, InsertedLast
<1> HIDE DEF b
<1>5. \A j \in 1 .. Len(p) + Len(q) : ~(j <= Len(p)) => j - Len(p) \in 1 .. Len(q)
  BY <1>3
<1>6. /\ ~(Len(p) + Len(q) + 1 <= Len(p)) /\ (Len(p) + Len(q) + 1) - Len(p) = Len(q) + 1
      /\ Len(p) + Len(b) = Len(p) + Len(q) + 1
      /\ 1 .. Len(p) + Len(q) \subseteq 1 .. Len(p) + Len(q) + 1
      /\ Len(p) + Len(q) + 1 \in 1 .. Len(p) + Len(q) + 1
  BY <1>3, <1>4
<1> DEFINE s == Series(p, q)
           r == Series(p, b)
           n == Len(p) + Len(q)
<1>7. n \in Nat /\ DOMAIN s = 1 .. n /\ DOMAIN r = 1 .. n + 1
  BY <1>3, <1>6 DEF Series
<1>8. r[n + 1] = Told(m)
  BY <1>4, <1>6 DEF Series
<1>9. ASSUME NEW j \in 1 .. n PROVE r[j] = s[j]
  <2>1. j \in 1 .. Len(p) + Len(b)
    BY <1>6
  <2>2. r[j] = (IF j <= Len(p) THEN p[j] ELSE Told(b[j - Len(p)]))
    BY <2>1 DEF Series
  <2>3. s[j] = (IF j <= Len(p) THEN p[j] ELSE Told(q[j - Len(p)]))
    BY DEF Series
  <2> QED
    BY <1>4, <1>5, <2>2, <2>3
<1> QED
  BY <1>7, <1>8, <1>9 DEF b

LEMMA OnceAgrees ==
  ASSUME NEW s, DOMAIN s \subseteq Nat, Once(s)
  PROVE  Agree(s, s)
BY DEF Once, Agree

(* A series grown by n agrees with one in which n is last, or not at all. *)
LEMMA GrownAgrees ==
  ASSUME NEW N \in Nat, NEW s, NEW r, NEW n,
         DOMAIN s = 1 .. N, DOMAIN r = 1 .. N + 1, r[N + 1] = n,
         \A j \in 1 .. N : r[j] = s[j] /\ s[j] # n
  PROVE  /\ Once(s) => Once(r)
         /\ \A t : /\ Agree(s, t) /\ DOMAIN t \subseteq Nat
                   /\ \A j \in DOMAIN t : t[j] = n => \A k \in DOMAIN t : k <= j
                   => Agree(r, t)
         /\ \A t : /\ Agree(t, s) /\ DOMAIN t \subseteq Nat
                   /\ \A j \in DOMAIN t : t[j] = n => \A k \in DOMAIN t : k <= j
                   => Agree(t, r)
<1>1. \A j \in 1 .. N + 1 : j = N + 1 \/ (j \in 1 .. N /\ j < N + 1)
  OBVIOUS
<1> QED
  BY <1>1 DEF Once, Agree

(* A series that has lost its first. *)
LEMMA ShortenedAgrees ==
  ASSUME NEW N \in Nat, NEW s, NEW r,
         DOMAIN s = 1 .. N + 1, DOMAIN r = 1 .. N, \A j \in 1 .. N : r[j] = s[j + 1]
  PROVE  /\ Once(s) => Once(r)
         /\ \A t : Agree(s, t) /\ DOMAIN t \subseteq Nat => Agree(r, t)
         /\ \A t : Agree(t, s) /\ DOMAIN t \subseteq Nat => Agree(t, r)
<1>1. \A j \in 1 .. N : j + 1 \in 1 .. N + 1
  OBVIOUS
<1>2. \A j, k \in 1 .. N : (j < k => j + 1 < k + 1) /\ (j + 1 = k + 1 => j = k)
  OBVIOUS
<1>3. Once(s) => Once(r)
  BY <1>1, <1>2 DEF Once
<1>4. ASSUME NEW t, Agree(s, t), DOMAIN t \subseteq Nat PROVE Agree(r, t)
  <2> SUFFICES ASSUME NEW j \in DOMAIN r, NEW k \in DOMAIN r, NEW l \in DOMAIN t, NEW m \in DOMAIN t,
                      j < k, l < m
               PROVE  ~(r[j] = t[m] /\ r[k] = t[l])
    BY DEF Agree
  <2>1. j + 1 \in DOMAIN s /\ k + 1 \in DOMAIN s /\ j + 1 < k + 1
    BY <1>1, <1>2
  <2>2. ~(s[j + 1] = t[m] /\ s[k + 1] = t[l])
    BY <1>4, <2>1 DEF Agree
  <2> QED
    BY <2>2
<1>5. ASSUME NEW t, Agree(t, s), DOMAIN t \subseteq Nat PROVE Agree(t, r)
  <2> SUFFICES ASSUME NEW j \in DOMAIN t, NEW k \in DOMAIN t, NEW l \in DOMAIN r, NEW m \in DOMAIN r,
                      j < k, l < m
               PROVE  ~(t[j] = r[m] /\ t[k] = r[l])
    BY DEF Agree
  <2>1. l + 1 \in DOMAIN s /\ m + 1 \in DOMAIN s /\ l + 1 < m + 1
    BY <1>1, <1>2
  <2>2. ~(t[j] = s[m + 1] /\ t[k] = s[l + 1])
    BY <1>5, <2>1 DEF Agree
  <2> QED
    BY <2>2
<1> QED
  BY <1>3, <1>4, <1>5

-----------------------------------------------------------------------------
(* Steps that only move texts on: out of the server's queue, or from a       *)
(* user's queue to what it has printed.                                      *)

TextsLeave ==
  \A x \in Message : x.type = "TEXT" =>
    /\ Occurs(server_queue', x) => Occurs(server_queue, x)
    /\ AtMostOnce(server_queue, x) => AtMostOnce(server_queue', x)

ClientsStay == \A n \in DOMAIN clients : n \in DOMAIN clients' /\ clients'[n] = clients[n]

LEMMA AtServerKept ==
  ASSUME AtServerOnce, TextsLeave, ClientsStay, author' = author
  PROVE  AtServerOnce'
<1>1. \A x \in Message : FromAuthor(x.id, x.text) => FromAuthor(x.id, x.text)'
  BY DEF FromAuthor, ClientsStay
<1> QED
  BY <1>1 DEF AtServerOnce, TextsLeave

LEMMA OthersKept ==
  ASSUME OthersTexts, TextsLeave, author' = author,
         \A u \in Users : \A j \in DOMAIN SeriesOf(u)' :
           \/ SeriesOf(u)'[j] = NoText
           \/ \E k \in DOMAIN SeriesOf(u) : SeriesOf(u)'[j] = SeriesOf(u)[k]
  PROVE  OthersTexts'
BY DEF OthersTexts, TextsLeave

LEMMA SeriesStayOrdered ==
  ASSUME Ordered, TextsLeave, ClientsStay, author' = author,
         passing' = NoText \/ UNCHANGED <<passing, i>>,
         \A u \in Users : SeriesOf(u)' = SeriesOf(u),
         \A u \in Users : user'[u] = "waiting" \/ ~Occurs(clients', u) => printed'[u] = <<>>
  PROVE  Ordered'
<1>1. AtServerOnce' /\ OthersTexts'
  BY AtServerKept, OthersKept DEF Ordered
<1>2. SeriesAgree'
  BY DEF Ordered, SeriesAgree
<1>3. PassedUpTo'
  <2>1. FromAuthor(passing.id, passing.text) /\ passing' = passing
          => FromAuthor(passing.id, passing.text)'
    BY DEF FromAuthor, ClientsStay
  <2> QED
    BY <2>1 DEF Ordered, PassedUpTo, TextsLeave, ClientsStay
<1> QED
  BY <1>1, <1>2, <1>3 DEF Ordered

(* Another kind of message in the server's queue, or one taken out of it. *)
LEMMA OthersLeave ==
  ASSUME Inv, NEW m \in Message, m.type # "TEXT", SendsToServer(m)
  PROVE  TextsLeave
BY QueuedOccurs DEF Inv, Typed, SendsToServer, TextsLeave

LEMMA TakenLeaves ==
  ASSUME Inv, NEW m, ServerReceives(m)
  PROVE  /\ TextsLeave /\ m \in Message /\ Occurs(server_queue, m)
         /\ AtMostOnce(server_queue, m) => ~Occurs(server_queue', m)
<1>1. /\ server_queue # <<>> /\ m = Head(server_queue) /\ server_queue' = Tail(server_queue)
      /\ server_queue \in Seq(Message)
  BY DEF ServerReceives, Inv, Typed
<1> QED
  BY <1>1, Taken DEF TextsLeave

LEMMA NobodyHasPrinted ==
  ASSUME Inv, Ordered, Inv'
  PROVE  /\ \A u \in Users : user[u] \in {"off", "waiting"} => printed[u] = <<>>
         /\ \A u \in Users : ~Occurs(clients, u) => client_queue[u] = <<>>
BY DEF Inv, Asking, Ordered, SeriesAgree

-----------------------------------------------------------------------------
(* Users *)

LEMMA UserStartsOrdered ==
  ASSUME Inv, Inv', Ordered, NEW u \in Users, UserStarts(u)
  PROVE  Ordered'
<1>1. /\ user[u] = "off" /\ user' = [user EXCEPT ![u] = "waiting"]
      /\ SendsToServer(Init_(u))
      /\ UNCHANGED <<MAX_CLIENTS, client_queue, clients, passing, i, client_id, author, printed>>
  BY DEF UserStarts
<1>2. Init_(u) \in Message /\ Init_(u).type # "TEXT"
  BY MessagesTyped DEF Init_
<1>3. TextsLeave /\ ClientsStay
  BY <1>1, <1>2, OthersLeave DEF ClientsStay
<1>4. \A v \in Users : user'[v] = "waiting" => v = u \/ user[v] = "waiting"
  BY <1>1 DEF Inv, Typed
<1>5. \A v \in Users : user'[v] = "waiting" \/ ~Occurs(clients', v) => printed'[v] = <<>>
  BY <1>1, <1>4, NobodyHasPrinted DEF Ordered, SeriesAgree
<1>6. \A v \in Users : SeriesOf(v)' = SeriesOf(v)
  BY <1>1 DEF SeriesOf
<1> QED
  BY <1>1, <1>3, <1>5, <1>6, SeriesStayOrdered

(* The number goes, and the texts behind it stay in their order. *)
LEMMA UserGetsIdOrdered ==
  ASSUME Inv, Inv', Ordered, NEW u \in Users, UserGetsId(u)
  PROVE  Ordered'
<1> DEFINE q == client_queue[u]
           s == SeriesOf(u)
           N == Len(q) - 1
<1>1. /\ user[u] = "waiting" /\ q # <<>>
      /\ client_queue' = [client_queue EXCEPT ![u] = Tail(q)]
      /\ user' = [user EXCEPT ![u] = "chatting"]
      /\ UNCHANGED <<MAX_CLIENTS, server_queue, clients, passing, i, author, printed>>
  BY DEF UserGetsId
<1>2. TextsLeave /\ ClientsStay
  BY <1>1 DEF TextsLeave, ClientsStay
<1>3. printed[u] = <<>> /\ q \in Seq(ToClient) /\ client_queue'[u] = Tail(q)
      /\ \A v \in Users \ {u} : client_queue'[v] = client_queue[v]
  BY <1>1, NobodyHasPrinted DEF Inv, Typed
<1>4. /\ N \in Nat /\ Len(q) = N + 1 /\ Len(Tail(q)) = N
      /\ \A j \in 1 .. N : Tail(q)[j] = q[j + 1]
  BY <1>1, <1>3, HeadTailProperties
<1>5. /\ DOMAIN s = 1 .. N + 1 /\ DOMAIN s' = 1 .. N
      /\ \A j \in 1 .. N : s'[j] = s[j + 1]
  <2>1. s = Series(<<>>, q) /\ s' = Series(<<>>, Tail(q))
    BY <1>1, <1>3 DEF SeriesOf
  <2>2. Len(<<>>) = 0
    OBVIOUS
  <2> DEFINE t == Tail(q)
  <2> HIDE DEF N, t, s
  <2>3. DOMAIN Series(<<>>, q) = 1 .. N + 1 /\ DOMAIN Series(<<>>, t) = 1 .. N
    BY <1>4, <2>2 DEF Series, t
  <2>4. ASSUME NEW j \in 1 .. N PROVE Series(<<>>, t)[j] = Series(<<>>, q)[j + 1]
    <3>1. j \in 1 .. 0 + N /\ ~(j <= 0) /\ j - 0 = j
      BY <1>4
    <3>2. j + 1 \in 1 .. 0 + (N + 1) /\ ~(j + 1 <= 0) /\ (j + 1) - 0 = j + 1
      BY <1>4
    <3>3. Len(t) = N /\ Len(q) = N + 1 /\ t[j] = q[j + 1]
      BY <1>4 DEF t
    <3>4. Series(<<>>, t)[j] = Told(t[j])
      BY <2>2, <3>1, <3>3 DEF Series
    <3>5. Series(<<>>, q)[j + 1] = Told(q[j + 1])
      BY <2>2, <3>2, <3>3 DEF Series
    <3> QED
      BY <3>3, <3>4, <3>5
  <2> QED
    BY <2>1, <2>3, <2>4 DEF t
<1>6. \A v \in Users \ {u} : SeriesOf(v)' = SeriesOf(v)
  BY <1>1, <1>3 DEF SeriesOf
<1>7. \A v \in Users : DOMAIN SeriesOf(v) \subseteq Nat
  BY SeriesTyped DEF Inv
<1> HIDE DEF s, N
<1>8. AtServerOnce'
  BY <1>1, <1>2, AtServerKept DEF Ordered
<1>9. \A j \in 1 .. N : j + 1 \in 1 .. N + 1
  BY <1>4
<1>10. OthersTexts'
  <2>1. \A v \in Users : \A j \in DOMAIN SeriesOf(v)' :
          \E k \in DOMAIN SeriesOf(v) : SeriesOf(v)'[j] = SeriesOf(v)[k]
    BY <1>5, <1>6, <1>9 DEF s
  <2> QED
    BY <1>1, <1>2, <2>1, OthersKept DEF Ordered
<1>11. PassedUpTo'
  <2> SUFFICES ASSUME passing # NoText, NEW v \in Users, NEW j \in DOMAIN SeriesOf(v)',
                      SeriesOf(v)'[j] = passing.text
               PROVE  /\ \A k \in DOMAIN SeriesOf(v)' : k <= j
                      /\ \E k \in DOMAIN clients : k < i /\ clients[k] = v
    BY <1>1 DEF Ordered, PassedUpTo, FromAuthor
  <2>1. CASE v # u
    BY <1>6, <2>1 DEF Ordered, PassedUpTo
  <2>2. CASE v = u
    <3>1. j \in 1 .. N /\ s[j + 1] = passing.text /\ j + 1 \in DOMAIN s
      BY <1>5, <1>9, <2>2 DEF s
    <3>2. /\ \A k \in DOMAIN s : k <= j + 1
          /\ \E k \in DOMAIN clients : k < i /\ clients[k] = v
      BY <2>2, <3>1 DEF Ordered, PassedUpTo, s
    <3>3. ASSUME NEW k \in 1 .. N PROVE k <= j
      <4>1. k + 1 <= j + 1
        BY <1>5, <1>9, <3>2
      <4> QED
        BY <1>4, <3>1, <4>1
    <3> QED
      BY <1>5, <2>2, <3>2, <3>3 DEF s
  <2> QED
    BY <2>1, <2>2
<1>12. SeriesAgree'
  <2>1. Once(s) /\ (\A v \in Users : Agree(s, SeriesOf(v)) /\ Agree(SeriesOf(v), s))
    BY DEF Ordered, SeriesAgree, s
  <2>2. /\ Once(s')
        /\ \A v \in Users : Agree(s', SeriesOf(v)) /\ Agree(SeriesOf(v), s')
    BY <1>4, <1>5, <1>7, <2>1, ShortenedAgrees
  <2>3. DOMAIN s' \subseteq Nat
    BY <1>4, <1>5
  <2>4. Agree(s', s')
    BY <2>2, <2>3, OnceAgrees
  <2>5. \A v \in Users : user'[v] = "waiting" => user[v] = "waiting"
    BY <1>1 DEF Inv, Typed
  <2> QED
    BY <1>1, <1>6, <2>2, <2>4, <2>5 DEF Ordered, SeriesAgree, s
<1> QED
  BY <1>8, <1>10, <1>11, <1>12 DEF Ordered

(* A new text, of a number no other has, signed with the number its author is *)
(* registered by.                                                            *)
LEMMA UserTypesOrdered ==
  ASSUME Inv, Inv', Ordered, NEW u \in Users, UserTypes(u)
  PROVE  Ordered'
<1>1. /\ user[u] = "chatting" /\ author' = Append(author, u)
      /\ SendsToServer(Text(0, client_id[u], Len(author) + 1))
      /\ UNCHANGED <<MAX_CLIENTS, client_queue, clients, passing, i, user, client_id, printed>>
  BY DEF UserTypes
<1>2. PICK k \in DOMAIN clients : clients[k] = u /\ client_id[u] = k - 1
  BY <1>1 DEF Inv, IdsAgree
<1>3. k \in Nat \ {0} /\ k - 1 \in Nat /\ (k - 1) + 1 = k
  <2>1. DOMAIN clients = 1 .. Len(clients) /\ Len(clients) \in Nat
    BY DEF Inv, Typed
  <2> QED
    BY <1>2, <2>1
<1>4. PICK n \in Nat : n = Len(author) + 1
  BY DEF Inv, Typed
<1>5. PICK m \in Message : m = Text(0, k - 1, n)
  BY <1>3, MessagesTyped
<1>6. /\ n \notin DOMAIN author /\ n \in DOMAIN author' /\ author'[n] = u
      /\ \A j \in DOMAIN author : j \in DOMAIN author' /\ author'[j] = author[j]
  <2>1. /\ author \in Seq(Users) /\ Len(author) \in Nat
        /\ DOMAIN author = 1 .. Len(author) /\ DOMAIN author' = 1 .. Len(author')
    BY DEF Inv, Typed
  <2>2. /\ Len(author') = Len(author) + 1 /\ author'[Len(author) + 1] = u
        /\ \A j \in 1 .. Len(author) : author'[j] = author[j]
    BY <1>1, <2>1, AppendProperties
  <2> QED
    BY <1>4, <2>1, <2>2
<1>7. m.type = "TEXT" /\ m.priority = 0 /\ m.id = k - 1 /\ m.text = n
  BY <1>5 DEF Text
<1>8. \A x : /\ Occurs(server_queue', x) => x = m \/ Occurs(server_queue, x)
             /\ x # m /\ AtMostOnce(server_queue, x) => AtMostOnce(server_queue', x)
             /\ ~Occurs(server_queue, x) => AtMostOnce(server_queue', x)
  <2>1. server_queue' = Queued(server_queue, m) /\ server_queue \in Seq(Message)
    BY <1>1, <1>2, <1>4, <1>5 DEF Inv, Typed, SendsToServer
  <2> QED
    BY <2>1, QueuedOccurs
<1>9. \A id, l : FromAuthor(id, l) => FromAuthor(id, l)' /\ l # n
  BY <1>1, <1>6 DEF FromAuthor
<1>10. ~Occurs(server_queue, m)
  BY <1>7, <1>9 DEF Ordered, AtServerOnce
<1>11. FromAuthor(m.id, m.text)'
  BY <1>1, <1>2, <1>3, <1>6, <1>7 DEF FromAuthor
<1>12. AtServerOnce'
  BY <1>7, <1>8, <1>9, <1>10, <1>11 DEF Ordered, AtServerOnce
<1>13. \A v \in Users : SeriesOf(v)' = SeriesOf(v)
  BY <1>1 DEF SeriesOf
<1>14. OthersTexts'
  BY <1>6, <1>7, <1>8, <1>13 DEF Ordered, OthersTexts
<1>15. PassedUpTo'
  BY <1>1, <1>7, <1>8, <1>9, <1>13 DEF Ordered, PassedUpTo
<1>16. SeriesAgree'
  BY <1>1, <1>13 DEF Ordered, SeriesAgree
<1> QED
  BY <1>12, <1>14, <1>15, <1>16 DEF Ordered

LEMMA UserPrintsOrdered ==
  ASSUME Inv, Inv', Ordered, NEW u \in Users, UserPrints(u)
  PROVE  Ordered'
<1> DEFINE q == client_queue[u]
<1>1. /\ user[u] = "chatting" /\ q # <<>>
      /\ client_queue' = [client_queue EXCEPT ![u] = Tail(q)]
      /\ printed' = [printed EXCEPT ![u] = Append(printed[u], Told(Head(q)))]
      /\ UNCHANGED <<MAX_CLIENTS, server_queue, clients, passing, i, user, client_id, author>>
  BY DEF UserPrints, Told
<1>2. /\ q \in Seq(ToClient) /\ printed[u] \in Seq(Nat \union {NoText})
      /\ client_queue'[u] = Tail(q) /\ printed'[u] = Append(printed[u], Told(Head(q)))
      /\ \A v \in Users \ {u} : client_queue'[v] = client_queue[v] /\ printed'[v] = printed[v]
  BY <1>1 DEF Inv, Typed
<1>3. Told(Head(q)) \in Nat \union {NoText}
  BY <1>1, <1>2, Taken, MessagesDiffer DEF Told, ToClient
<1>4. SeriesOf(u)' = SeriesOf(u)
  BY <1>1, <1>2, <1>3, SeriesPrints DEF SeriesOf
<1>5. \A v \in Users : SeriesOf(v)' = SeriesOf(v)
  BY <1>2, <1>4 DEF SeriesOf
<1>6. TextsLeave /\ ClientsStay
  BY <1>1 DEF TextsLeave, ClientsStay
<1>7. Occurs(clients, u)
  BY <1>1 DEF Inv, Asking
<1>8. \A v \in Users : user'[v] = "waiting" \/ ~Occurs(clients', v) => printed'[v] = <<>>
  BY <1>1, <1>2, <1>7 DEF Ordered, SeriesAgree
<1> QED
  BY <1>1, <1>5, <1>6, <1>8, SeriesStayOrdered

LEMMA UserEndsOrdered ==
  ASSUME Inv, Inv', Ordered, NEW u \in Users, UserEnds(u)
  PROVE  Ordered'
<1>1. /\ user' = [user EXCEPT ![u] = "gone"]
      /\ UNCHANGED <<MAX_CLIENTS, queues, clients, passing, i, client_id, author, printed>>
  BY DEF UserEnds
<1>2. /\ TextsLeave /\ ClientsStay
      /\ \A v \in Users : user'[v] = "waiting" => user[v] = "waiting"
      /\ \A v \in Users : SeriesOf(v)' = SeriesOf(v)
  BY <1>1 DEF TextsLeave, ClientsStay, queues, SeriesOf, Inv, Typed
<1> QED
  BY <1>1, <1>2, SeriesStayOrdered DEF Ordered, SeriesAgree

-----------------------------------------------------------------------------
(* The server *)

(* A new client's series is its number, which is no text. *)
LEMMA ServerRegistersOrdered ==
  ASSUME Inv, Inv', Ordered, NEW u \in Users, ServerRegisters(u)
  PROVE  Ordered'
<1>1. /\ ServerReceives(Init_(u)) /\ passing = NoText
      /\ UNCHANGED <<MAX_CLIENTS, passing, i, user, client_id, author, printed>>
  BY DEF ServerRegisters, ServerReceives
<1>2. TextsLeave /\ Occurs(server_queue, Init_(u))
  BY <1>1, TakenLeaves
<1>3. ~Occurs(clients, u) /\ client_queue[u] = <<>> /\ printed[u] = <<>>
  BY <1>2 DEF Inv, Asking, Ordered, SeriesAgree
<1>4. CASE UNCHANGED <<client_queue, clients>>
  <2>1. ClientsStay /\ \A v \in Users : SeriesOf(v)' = SeriesOf(v)
    BY <1>1, <1>4 DEF ClientsStay, SeriesOf
  <2>2. \A v \in Users : user'[v] = "waiting" \/ ~Occurs(clients', v) => printed'[v] = <<>>
    BY <1>1, <1>4 DEF Ordered, SeriesAgree
  <2> QED
    BY <1>1, <1>2, <2>1, <2>2, SeriesStayOrdered
<1>5. CASE /\ client_queue' = [client_queue EXCEPT
                ![u] = Queued(client_queue[u], IdMessage(Len(clients)))]
           /\ clients' = Append(clients, u)
  <2>1. PICK m \in ToClient : m = IdMessage(Len(clients)) /\ m.type = "ID"
    <3>1. Len(clients) \in Nat
      BY DEF Inv, Typed
    <3> QED
      BY <3>1, MessagesTyped
  <2>2. /\ client_queue'[u] = Queued(<<>>, m)
        /\ \A v \in Users \ {u} : client_queue'[v] = client_queue[v]
    BY <1>3, <1>5, <2>1 DEF Inv, Typed
  <2>3. DOMAIN SeriesOf(u)' = 1 .. 1 /\ SeriesOf(u)'[1] = NoText
    <3>1. <<>> \in Seq(ToClient) /\ <<>> \in Seq(Nat \union {NoText}) /\ Len(<<>>) = 0
      OBVIOUS
    <3>2. DOMAIN Series(<<>>, Queued(<<>>, m)) = 1 .. 1 /\ Series(<<>>, Queued(<<>>, m))[1] = Told(m)
      <4>1. /\ DOMAIN Series(<<>>, Queued(<<>>, m)) = 1 .. (Len(<<>>) + Len(<<>>)) + 1
            /\ Series(<<>>, Queued(<<>>, m))[(Len(<<>>) + Len(<<>>)) + 1] = Told(m)
        BY <3>1, SeriesGrows
      <4>2. (Len(<<>>) + Len(<<>>)) + 1 = 1
        BY <3>1
      <4> QED
        BY <4>1, <4>2
    <3>3. SeriesOf(u)' = Series(<<>>, Queued(<<>>, m))
      BY <1>1, <1>3, <2>2 DEF SeriesOf
    <3>4. Told(m) = NoText
      BY <2>1 DEF Told
    <3> QED
      BY <3>2, <3>3, <3>4
  <2>4. \A v \in Users \ {u} : SeriesOf(v)' = SeriesOf(v)
    BY <1>1, <2>2 DEF SeriesOf
  <2>5. ClientsStay
    <3>1. clients \in Seq(Users) /\ DOMAIN clients = 1 .. Len(clients) /\ Len(clients) \in Nat
      BY DEF Inv, Typed
    <3>2. /\ clients' \in Seq(Users) /\ Len(clients') = Len(clients) + 1
          /\ \A n \in 1 .. Len(clients) : clients'[n] = clients[n]
      BY <1>5, <3>1, AppendProperties
    <3> QED
      BY <3>1, <3>2 DEF ClientsStay
  <2>6. \A j \in 1 .. 1 : j = 1
    OBVIOUS
  <2>7. AtServerOnce' /\ OthersTexts'
    <3>1. \A v \in Users : \A j \in DOMAIN SeriesOf(v)' :
            \/ SeriesOf(v)'[j] = NoText
            \/ \E k \in DOMAIN SeriesOf(v) : SeriesOf(v)'[j] = SeriesOf(v)[k]
      BY <2>3, <2>4, <2>6
    <3> QED
      BY <1>1, <1>2, <2>5, <3>1, AtServerKept, OthersKept DEF Ordered
  <2>8. PassedUpTo'
    BY <1>1 DEF PassedUpTo
  <2>9. SeriesAgree'
    <3>1. Once(SeriesOf(u)')
      BY <2>3, <2>6 DEF Once
    <3>2. \A t : Agree(SeriesOf(u)', t) /\ Agree(t, SeriesOf(u)')
      <4>1. \A j, k \in 1 .. 1 : ~(j < k)
        OBVIOUS
      <4> QED
        BY <2>3, <4>1 DEF Agree
    <3>3. \A v \in Users : ~Occurs(clients', v) => ~Occurs(clients, v)
      BY <2>5 DEF Occurs, ClientsStay
    <3> QED
      BY <1>1, <2>4, <3>1, <3>2, <3>3 DEF Ordered, SeriesAgree
  <2> QED
    BY <2>7, <2>8, <2>9 DEF Ordered
<1> QED
  BY <1>4, <1>5 DEF ServerRegisters

(* A text at the server is its author's, signed with its author's number, and *)
(* there is one number to an author: what has the text's number is the text.  *)
LEMMA ServerTakesTextOrdered ==
  ASSUME Inv, Inv', Ordered, ServerTakesText
  PROVE  Ordered'
<1>1. PICK n \in DOMAIN author, id \in Range(client_id) :
        /\ ServerReceives(Text(0, id, n)) /\ passing' = [id |-> id, text |-> n]
        /\ UNCHANGED <<client_queue, clients, user, author, printed>>
  BY DEF ServerTakesText
<1>2. PICK m \in Message : m = Text(0, id, n)
  BY <1>1, TakenLeaves
<1>3. m.type = "TEXT" /\ m.priority = 0 /\ m.id = id /\ m.text = n
  BY <1>2 DEF Text
<1>4. TextsLeave /\ Occurs(server_queue, m) /\ (AtMostOnce(server_queue, m) => ~Occurs(server_queue', m))
  BY <1>1, <1>2, TakenLeaves
<1>5. ~Occurs(server_queue', m) /\ FromAuthor(id, n)
  BY <1>3, <1>4 DEF Ordered, AtServerOnce
<1>6. n # NoText
  BY <1>3, MessagesDiffer, QueueAssumption DEF QueueAssumption
<1>7. ASSUME NEW x \in Message, x.type = "TEXT", Occurs(server_queue', x) PROVE x.text # n
  <2>1. SUFFICES ASSUME x.text = n PROVE FALSE
    OBVIOUS
  <2>2. x.priority = 0 /\ FromAuthor(x.id, n)
    BY <1>4, <1>7, <2>1 DEF Ordered, AtServerOnce, TextsLeave
  <2>3. x.id + 1 = id + 1
    BY <1>5, <2>2 DEF FromAuthor, Inv, Numbered
  <2>4. x.id = id
    BY <1>3, <1>7, <2>3, MessagesDiffer
  <2>5. x = m
    <3>1. \A y \in Message : y.type = "TEXT" => y = Text(y.priority, y.id, y.text)
      BY DEF Message, Text
    <3> QED
      BY <1>2, <1>7, <2>1, <2>2, <2>4, <3>1
  <2> QED
    BY <1>5, <1>7, <2>5
<1>8. \A v \in Users : SeriesOf(v)' = SeriesOf(v)
  BY <1>1 DEF SeriesOf
<1>9. \A v \in Users : \A j \in DOMAIN SeriesOf(v) : SeriesOf(v)[j] # n
  BY <1>3, <1>4, <1>6 DEF Ordered, OthersTexts
<1>10. AtServerOnce' /\ OthersTexts'
  <2>1. ClientsStay
    BY <1>1 DEF ClientsStay
  <2> QED
    BY <1>1, <1>4, <1>8, <2>1, AtServerKept, OthersKept DEF Ordered
<1>11. passing'.id = id /\ passing'.text = n
  BY <1>1
<1>12. PassedUpTo'
  <2>1. FromAuthor(passing.id, passing.text)'
    BY <1>1, <1>5, <1>11 DEF FromAuthor
  <2> QED
    BY <1>7, <1>8, <1>9, <1>11, <2>1 DEF PassedUpTo
<1>13. SeriesAgree'
  BY <1>1, <1>8 DEF Ordered, SeriesAgree
<1> QED
  BY <1>10, <1>12, <1>13 DEF Ordered

(* The text comes last in the series of the next client, which has it not: it *)
(* was passed on to those before, who are others.  Wherever else it is, it is *)
(* last too.                                                                  *)
LEMMA ServerPassesOnOrdered ==
  ASSUME Inv, Inv', Ordered, ServerPassesOn
  PROVE  Ordered'
<1>1. /\ passing # NoText /\ ~(i > Len(clients)) /\ i' = i + 1
      /\ UNCHANGED <<server_queue, clients, passing, user, author, printed>>
  BY DEF ServerPassesOn, PassedToAll
<1>2. PICK l \in DOMAIN clients, u \in Users : i = l /\ u = clients[l]
  BY <1>1 DEF Inv, Typed
<1>3. PICK n \in Nat, id \in Nat : passing.text = n /\ passing.id = id /\ FromAuthor(id, n)
  BY <1>1 DEF Inv, Typed, Ordered, PassedUpTo
<1>4. l \in Nat /\ \A k \in DOMAIN clients : k \in Nat /\ (k < l => k < l + 1)
  <2>1. DOMAIN clients = 1 .. Len(clients) /\ Len(clients) \in Nat
    BY DEF Inv, Typed
  <2> QED
    BY <1>2, <2>1
<1>5. TextsLeave /\ ClientsStay
  BY <1>1 DEF TextsLeave, ClientsStay
<1>6. AtServerOnce'
  BY <1>1, <1>5, AtServerKept DEF Ordered
<1>7. \A v \in Users : \A j \in DOMAIN SeriesOf(v) : SeriesOf(v)[j] = n =>
        /\ \A k \in DOMAIN SeriesOf(v) : k <= j
        /\ \E k \in DOMAIN clients : k < l /\ clients[k] = v
  BY <1>1, <1>2, <1>3 DEF Ordered, PassedUpTo
<1>8. /\ n # NoText
      /\ \A x \in Message : x.type = "TEXT" /\ Occurs(server_queue, x) => x.text # n
  BY <1>1, <1>3, QueueAssumption DEF QueueAssumption, Ordered, PassedUpTo
<1>9. FromAuthor(passing.id, passing.text)'
  BY <1>1, <1>3 DEF FromAuthor
<1>10. CASE UNCHANGED client_queue
  <2>1. \A v \in Users : SeriesOf(v)' = SeriesOf(v)
    BY <1>1, <1>10 DEF SeriesOf
  <2>2. OthersTexts' /\ SeriesAgree'
    BY <1>1, <2>1 DEF Ordered, OthersTexts, SeriesAgree
  <2>3. PassedUpTo'
    BY <1>1, <1>2, <1>3, <1>4, <1>7, <1>8, <1>9, <2>1 DEF PassedUpTo
  <2> QED
    BY <1>6, <2>2, <2>3 DEF Ordered
<1>11. CASE /\ i - 1 # passing.id
            /\ client_queue' = [client_queue EXCEPT
                 ![clients[i]] = Queued(@, Text(1, passing.id, passing.text))]
  <2>1. PICK m \in ToClient : m = Text(1, id, n) /\ m.type = "TEXT" /\ m.text = n
    BY <1>3, MessagesTyped DEF Text
  <2>2. /\ client_queue'[u] = Queued(client_queue[u], m)
        /\ \A v \in Users \ {u} : client_queue'[v] = client_queue[v]
    BY <1>2, <1>3, <1>11, <2>1 DEF Inv, Typed
  <2>3. PICK N \in Nat : /\ DOMAIN SeriesOf(u) = 1 .. N /\ DOMAIN SeriesOf(u)' = 1 .. N + 1
                         /\ SeriesOf(u)'[N + 1] = n
                         /\ \A j \in 1 .. N : SeriesOf(u)'[j] = SeriesOf(u)[j]
    <3> DEFINE p == printed[u]
               q == client_queue[u]
    <3>1. p \in Seq(Nat \union {NoText}) /\ q \in Seq(ToClient)
      BY DEF Inv, Typed
    <3>2. /\ Len(p) + Len(q) \in Nat /\ DOMAIN Series(p, q) = 1 .. Len(p) + Len(q)
          /\ DOMAIN Series(p, Queued(q, m)) = 1 .. (Len(p) + Len(q)) + 1
          /\ Series(p, Queued(q, m))[(Len(p) + Len(q)) + 1] = Told(m)
          /\ \A j \in 1 .. Len(p) + Len(q) : Series(p, Queued(q, m))[j] = Series(p, q)[j]
      BY <3>1, SeriesGrows
    <3>3. SeriesOf(u) = Series(p, q) /\ SeriesOf(u)' = Series(p, Queued(q, m))
      BY <1>1, <2>2 DEF SeriesOf
    <3>4. Told(m) = n
      BY <2>1 DEF Told
    <3> HIDE DEF p, q
    <3> QED
      BY <3>2, <3>3, <3>4
  <2>4. \A v \in Users \ {u} : SeriesOf(v)' = SeriesOf(v)
    BY <1>1, <2>2 DEF SeriesOf
  <2>5. \A j \in 1 .. N : SeriesOf(u)[j] # n
    <3> SUFFICES ASSUME NEW j \in 1 .. N, SeriesOf(u)[j] = n PROVE FALSE
      OBVIOUS
    <3>1. PICK k \in DOMAIN clients : k < l /\ clients[k] = u
      BY <1>7, <2>3
    <3>2. k = l
      BY <1>2, <3>1 DEF Inv, Numbered
    <3> QED
      BY <1>4, <3>1, <3>2
  <2>6. n \in DOMAIN author /\ author[n] # u
    <3>1. /\ n \in DOMAIN author /\ id + 1 \in DOMAIN clients /\ clients[id + 1] = author[n]
      BY <1>3 DEF FromAuthor
    <3>2. author[n] = u => id + 1 = l
      BY <1>2, <3>1 DEF Inv, Numbered
    <3> QED
      BY <1>2, <1>3, <1>4, <1>11, <3>1, <3>2
  <2>7. \A j \in 1 .. N + 1 : j \in 1 .. N \/ j = N + 1
    OBVIOUS
  <2>8. OthersTexts'
    <3> SUFFICES ASSUME NEW v \in Users, NEW j \in DOMAIN SeriesOf(v)', SeriesOf(v)'[j] # NoText
                 PROVE  /\ SeriesOf(v)'[j] \in DOMAIN author /\ author[SeriesOf(v)'[j]] # v
                        /\ \A x \in Message :
                             x.type = "TEXT" /\ Occurs(server_queue, x) => x.text # SeriesOf(v)'[j]
      BY <1>1 DEF OthersTexts
    <3>1. CASE j \in DOMAIN SeriesOf(v) /\ SeriesOf(v)'[j] = SeriesOf(v)[j]
      BY <3>1 DEF Ordered, OthersTexts
    <3>2. CASE v = u /\ SeriesOf(v)'[j] = n
      BY <1>8, <2>6, <3>2
    <3> QED
      BY <2>3, <2>4, <2>7, <3>1, <3>2
  <2>9. PassedUpTo'
    <3> SUFFICES ASSUME NEW v \in Users, NEW j \in DOMAIN SeriesOf(v)', SeriesOf(v)'[j] = n
                 PROVE  /\ \A k \in DOMAIN SeriesOf(v)' : k <= j
                        /\ \E k \in DOMAIN clients : k < l + 1 /\ clients[k] = v
      BY <1>1, <1>2, <1>3, <1>8, <1>9 DEF PassedUpTo
    <3>1. CASE v # u
      BY <1>4, <1>7, <2>4, <3>1
    <3>2. CASE v = u
      <4>1. j = N + 1
        BY <2>3, <2>5, <2>7, <3>2
      <4>2. \A k \in 1 .. N + 1 : k <= N + 1
        OBVIOUS
      <4>3. l < l + 1
        BY <1>4
      <4> QED
        BY <1>2, <2>3, <3>2, <4>1, <4>2, <4>3
    <3> QED
      BY <3>1, <3>2
  <2>10. SeriesAgree'
    <3>1. \A v \in Users : DOMAIN SeriesOf(v) \subseteq Nat
      BY SeriesTyped DEF Inv
    <3>2. /\ Once(SeriesOf(u))
          /\ \A v \in Users : Agree(SeriesOf(u), SeriesOf(v)) /\ Agree(SeriesOf(v), SeriesOf(u))
      BY DEF Ordered, SeriesAgree
    <3>3. \A v \in Users : \A j \in DOMAIN SeriesOf(v) :
            SeriesOf(v)[j] = n => \A k \in DOMAIN SeriesOf(v) : k <= j
      BY <1>7
    <3>4. /\ Once(SeriesOf(u)')
          /\ \A v \in Users : Agree(SeriesOf(u)', SeriesOf(v)) /\ Agree(SeriesOf(v), SeriesOf(u)')
      BY <2>3, <2>5, <3>1, <3>2, <3>3, GrownAgrees
    <3>5. Agree(SeriesOf(u)', SeriesOf(u)')
      BY <2>3, <3>4, OnceAgrees
    <3> QED
      BY <1>1, <2>4, <3>4, <3>5 DEF Ordered, SeriesAgree
  <2> QED
    BY <1>6, <2>8, <2>9, <2>10 DEF Ordered
<1> QED
  BY <1>10, <1>11 DEF ServerPassesOn, PassedOn

LEMMA ServerHasPassedOnOrdered ==
  ASSUME Inv, Inv', Ordered, ServerHasPassedOn
  PROVE  Ordered'
<1>1. /\ passing' = NoText
      /\ UNCHANGED <<queues, clients, user, author, printed>>
  BY DEF ServerHasPassedOn
<1>2. TextsLeave /\ ClientsStay /\ \A v \in Users : SeriesOf(v)' = SeriesOf(v)
  BY <1>1 DEF TextsLeave, ClientsStay, queues, SeriesOf
<1>3. \A v \in Users : user'[v] = "waiting" \/ ~Occurs(clients', v) => printed'[v] = <<>>
  BY <1>1 DEF Ordered, SeriesAgree
<1> QED
  BY <1>1, <1>2, <1>3, SeriesStayOrdered

-----------------------------------------------------------------------------
(* The order *)

LEMMA OrderedInit ==
  ASSUME NEW present, QueueInit(present)
  PROVE  Ordered
<1>1. /\ DOMAIN server_queue = {} /\ passing = NoText
      /\ \A u \in Users : printed[u] = <<>> /\ client_queue[u] = <<>>
  BY DEF QueueInit
<1>2. Len(<<>>) = 0 /\ 1 .. 0 + 0 = {}
  OBVIOUS
<1>3. \A u \in Users : DOMAIN SeriesOf(u) = {}
  BY <1>1, <1>2 DEF SeriesOf, Series
<1> QED
  BY <1>1, <1>3 DEF Ordered, AtServerOnce, AtMostOnce, Occurs, OthersTexts, PassedUpTo, SeriesAgree,
                    Once, Agree

LEMMA OrderedStep == Inv /\ Inv' /\ Ordered /\ [QueueNext]_queueVars => Ordered'
<1> SUFFICES ASSUME Inv, Inv', Ordered, [QueueNext]_queueVars PROVE Ordered'
  OBVIOUS
<1>1. CASE \E u \in Users : User(u)
  BY <1>1, UserStartsOrdered, UserGetsIdOrdered, UserTypesOrdered, UserPrintsOrdered, UserEndsOrdered
     DEF User
<1>2. CASE Server
  BY <1>2, ServerRegistersOrdered, ServerTakesTextOrdered, ServerPassesOnOrdered,
     ServerHasPassedOnOrdered DEF Server
<1>3. CASE UNCHANGED queueVars
  <2>1. UNCHANGED <<server_queue, client_queue, clients, passing, i, user, author, printed>>
    BY <1>3 DEF queueVars, queues
  <2>2. TextsLeave /\ ClientsStay /\ \A v \in Users : SeriesOf(v)' = SeriesOf(v)
    BY <2>1 DEF TextsLeave, ClientsStay, SeriesOf
  <2>3. \A v \in Users : user'[v] = "waiting" \/ ~Occurs(clients', v) => printed'[v] = <<>>
    BY <2>1 DEF Ordered, SeriesAgree
  <2> QED
    BY <2>1, <2>2, <2>3, SeriesStayOrdered
<1> QED
  BY <1>1, <1>2, <1>3 DEF QueueNext

(* What is printed is the beginning of the series. *)
LEMMA OrderedPrints == Inv /\ Ordered => OneOrder
<1> SUFFICES ASSUME Inv, Ordered PROVE OneOrder
  OBVIOUS
<1>1. ASSUME NEW u \in Users, NEW j \in DOMAIN printed[u]
      PROVE  j \in DOMAIN SeriesOf(u) /\ printed[u][j] = SeriesOf(u)[j]
  <2>1. printed[u] \in Seq(Nat \union {NoText}) /\ client_queue[u] \in Seq(ToClient)
    BY DEF Inv, Typed
  <2>2. /\ Len(printed[u]) \in Nat /\ Len(client_queue[u]) \in Nat
        /\ DOMAIN printed[u] = 1 .. Len(printed[u])
    BY <2>1
  <2>3. \A a, b \in Nat : \A k \in 1 .. a : k <= a /\ k \in 1 .. a + b
    OBVIOUS
  <2>4. j <= Len(printed[u]) /\ j \in 1 .. Len(printed[u]) + Len(client_queue[u])
    BY <2>2, <2>3
  <2> QED
    BY <2>4 DEF SeriesOf, Series
<1>2. \A u \in Users : \A j, k \in DOMAIN printed[u] : printed[u][j] = printed[u][k] => j = k
  BY <1>1 DEF Ordered, SeriesAgree, Once
<1>3. \A u \in Users : \A n \in Range(printed[u]) : n # NoText => author[n] # u
  BY <1>1 DEF Ordered, OthersTexts, Range
<1>4. ASSUME NEW u \in Users, NEW v \in Users, NEW j \in DOMAIN printed[u], NEW k \in DOMAIN printed[u],
             NEW l \in DOMAIN printed[v], NEW m \in DOMAIN printed[v], j < k, l < m
      PROVE  ~(printed[u][j] = printed[v][m] /\ printed[u][k] = printed[v][l])
  <2>1. /\ printed[u][j] = SeriesOf(u)[j] /\ printed[u][k] = SeriesOf(u)[k]
        /\ printed[v][l] = SeriesOf(v)[l] /\ printed[v][m] = SeriesOf(v)[m]
        /\ j \in DOMAIN SeriesOf(u) /\ k \in DOMAIN SeriesOf(u)
        /\ l \in DOMAIN SeriesOf(v) /\ m \in DOMAIN SeriesOf(v)
    BY <1>1
  <2>2. Agree(SeriesOf(u), SeriesOf(v))
    BY DEF Ordered, SeriesAgree
  <2> QED
    BY <1>4, <2>1, <2>2 DEF Agree
<1> QED
  BY <1>2, <1>3, <1>4 DEF OneOrder

(* Two texts are never printed in one order by one user and in the other by  *)
(* another, and nobody prints a text of its own or one text twice: the       *)
(* server passes one text on to everyone before it takes the next            *)
(* (server.c:105-111), and the queue of a client is taken in order.          *)
THEOREM TextsAgree == QueueSpec => []OneOrder
<1>1. QueueInit(Users) => Ordered
  BY OrderedInit
<1>2. QueueSpec => []Ordered
  BY <1>1, InvHolds, OrderedStep, PTL DEF QueueSpec
<1> QED
  BY <1>2, InvHolds, OrderedPrints, PTL

-----------------------------------------------------------------------------
(* What the queues hold.  A user's number comes before all texts and is      *)
(* taken before the child that prints exists.                                *)

IsText(m) == m.type = "TEXT"

TextsBehind ==
  /\ \A u \in Users : \A j \in DOMAIN client_queue[u] :
       j > 1 \/ user[u] = "chatting" => IsText(client_queue[u][j])
  /\ printed \in [Users -> Seq(Nat)]
  /\ Len(server_queue) <= MaxMessages
  /\ \A u \in Users : Len(client_queue[u]) <= MaxMessages

LEMMA TextsBehindInit ==
  ASSUME NEW present, QueueInit(present)
  PROVE  TextsBehind
<1>1. /\ Len(<<>>) = 0 /\ DOMAIN <<>> = {} /\ <<>> \in Seq(Nat)
      /\ server_queue = <<>> /\ printed = [u \in Users |-> <<>>]
      /\ \A u \in Users : client_queue[u] = <<>>
  BY DEF QueueInit
<1> QED
  BY <1>1, QueueAssumption DEF QueueAssumption, TextsBehind

LEMMA ServerQueueBounded ==
  ASSUME Inv, TextsBehind
  PROVE  /\ \A m \in Message : SendsToServer(m) => Len(server_queue') <= MaxMessages
         /\ \A m : ServerReceives(m) => Len(server_queue') <= MaxMessages
<1>1. server_queue \in Seq(Message) /\ Len(server_queue) \in Nat /\ Len(server_queue) <= MaxMessages
      /\ MaxMessages \in Nat
  BY QueueAssumption DEF QueueAssumption, Inv, Typed, TextsBehind
<1>2. ASSUME NEW m \in Message, SendsToServer(m) PROVE Len(server_queue') <= MaxMessages
  BY <1>1, <1>2, QueuedOccurs DEF SendsToServer, Full
<1>3. ASSUME NEW m, ServerReceives(m) PROVE Len(server_queue') <= MaxMessages
  BY <1>1, <1>3, HeadTailProperties DEF ServerReceives
<1> QED
  BY <1>2, <1>3

(* Taking the first leaves what was behind it. *)
LEMMA RestIsText ==
  ASSUME Inv, TextsBehind, NEW u \in Users, client_queue[u] # <<>>
  PROVE  /\ \A j \in DOMAIN Tail(client_queue[u]) : IsText(Tail(client_queue[u])[j])
         /\ Len(Tail(client_queue[u])) <= MaxMessages
<1> DEFINE q == client_queue[u]
           t == Tail(q)
<1>1. /\ q \in Seq(ToClient) /\ Len(q) <= MaxMessages /\ MaxMessages \in Nat
      /\ \A j \in DOMAIN q : j > 1 => IsText(q[j])
  BY QueueAssumption DEF QueueAssumption, Inv, Typed, TextsBehind
<1> HIDE DEF q
<1>2. q # <<>>
  BY DEF q
<1>3. /\ t \in Seq(ToClient) /\ Len(t) = Len(q) - 1 /\ Len(q) \in Nat \ {0}
      /\ \A j \in 1 .. Len(t) : t[j] = q[j + 1]
  BY <1>1, <1>2, HeadTailProperties
<1> HIDE DEF t
<1>4. \A j \in DOMAIN t : j \in 1 .. Len(t) /\ j + 1 \in DOMAIN q /\ j + 1 > 1
  BY <1>1, <1>3
<1>5. Len(t) <= MaxMessages
  BY <1>1, <1>3
<1> QED
  BY <1>1, <1>3, <1>4, <1>5 DEF t, q

LEMMA TextsBehindStep == Inv /\ Inv' /\ TextsBehind /\ [QueueNext]_queueVars => TextsBehind'
<1> SUFFICES ASSUME Inv, Inv', TextsBehind, [QueueNext]_queueVars PROVE TextsBehind'
  OBVIOUS
<1>1. ASSUME NEW u \in Users, UserStarts(u) PROVE TextsBehind'
  <2>1. /\ UNCHANGED <<client_queue, printed>> /\ \A v \in Users : user'[v] = "chatting" => user[v] = "chatting"
    BY <1>1 DEF UserStarts, Inv, Typed
  <2>2. Len(server_queue') <= MaxMessages
    BY <1>1, MessagesTyped, ServerQueueBounded DEF UserStarts
  <2> QED
    BY <2>1, <2>2 DEF TextsBehind
<1>2. ASSUME NEW u \in Users, UserGetsId(u) PROVE TextsBehind'
  <2>1. /\ client_queue[u] # <<>> /\ UNCHANGED <<server_queue, printed>>
        /\ client_queue'[u] = Tail(client_queue[u])
        /\ \A v \in Users \ {u} : client_queue'[v] = client_queue[v] /\ user'[v] = user[v]
    BY <1>2 DEF UserGetsId, Inv, Typed
  <2> QED
    BY <2>1, RestIsText DEF TextsBehind
<1>3. ASSUME NEW u \in Users, UserTypes(u) PROVE TextsBehind'
  <2>1. UNCHANGED <<client_queue, printed, user>>
    BY <1>3 DEF UserTypes
  <2>2. Text(0, client_id[u], Len(author) + 1) \in Message
    <3>1. client_id[u] \in Nat
      BY <1>3 DEF UserTypes, Inv, IdsAgree, Typed
    <3>2. Len(author) + 1 \in Nat
      BY DEF Inv, Typed
    <3> QED
      BY <3>1, <3>2, MessagesTyped
  <2>3. Len(server_queue') <= MaxMessages
    BY <1>3, <2>2, ServerQueueBounded DEF UserTypes
  <2> QED
    BY <2>1, <2>3 DEF TextsBehind
<1>4. ASSUME NEW u \in Users, UserPrints(u) PROVE TextsBehind'
  <2> DEFINE q == client_queue[u]
  <2>1. /\ user[u] = "chatting" /\ q # <<>> /\ UNCHANGED <<server_queue, user>>
        /\ client_queue'[u] = Tail(q)
        /\ \A v \in Users \ {u} : client_queue'[v] = client_queue[v]
        /\ printed' = [printed EXCEPT ![u] = Append(printed[u], IF Head(q).type = "TEXT" THEN Head(q).text
                                                                                         ELSE NoText)]
    BY <1>4 DEF UserPrints, Inv, Typed
  <2>2. q \in Seq(ToClient)
    BY DEF Inv, Typed
  <2>3. Head(q) \in Message /\ 1 \in DOMAIN q /\ Head(q) = q[1]
    BY <2>1, <2>2, HeadTailProperties DEF ToClient
  <2>4. Head(q).type = "TEXT" /\ Head(q).text \in Nat
    BY <2>1, <2>3, MessagesDiffer DEF TextsBehind, IsText
  <2>5. Append(printed[u], Head(q).text) \in Seq(Nat)
    BY <2>4, AppendProperties DEF TextsBehind
  <2>6. printed' \in [Users -> Seq(Nat)]
    BY <2>1, <2>4, <2>5 DEF TextsBehind
  <2> QED
    BY <2>1, <2>6, RestIsText DEF TextsBehind
<1>5. ASSUME NEW u \in Users, UserEnds(u) PROVE TextsBehind'
  <2>1. /\ UNCHANGED <<server_queue, client_queue, printed>>
        /\ \A v \in Users : user'[v] = "chatting" => user[v] = "chatting"
    BY <1>5 DEF UserEnds, queues, Inv, Typed
  <2> QED
    BY <2>1 DEF TextsBehind
<1>6. ASSUME NEW u \in Users, ServerRegisters(u) PROVE TextsBehind'
  <2>1. UNCHANGED <<printed, user>> /\ Len(server_queue') <= MaxMessages
    BY <1>6, ServerQueueBounded DEF ServerRegisters
  <2>2. client_queue[u] = <<>> /\ user[u] # "chatting"
    BY <1>6, Receives DEF ServerRegisters, Inv, Asking
  <2>3. CASE UNCHANGED client_queue
    BY <2>1, <2>3 DEF TextsBehind
  <2>4. CASE client_queue' = [client_queue EXCEPT ![u] = Queued(client_queue[u], IdMessage(Len(clients)))]
    <3>1. PICK m \in Message : m = IdMessage(Len(clients))
      BY MessagesTyped DEF Inv, Typed, ToClient
    <3>2. <<>> \in Seq(Message) /\ Len(<<>>) + 1 = 1
      OBVIOUS
    <3>3. Queued(<<>>, m) \in Seq(Message) /\ Len(Queued(<<>>, m)) = 1
      BY <3>2, QueuedOccurs
    <3>4. /\ client_queue'[u] = Queued(<<>>, m)
          /\ \A v \in Users \ {u} : client_queue'[v] = client_queue[v]
      BY <2>2, <2>4, <3>1 DEF Inv, Typed
    <3>5. DOMAIN Queued(<<>>, m) = 1 .. 1 /\ \A j \in 1 .. 1 : ~(j > 1)
      BY <3>3
    <3>6. \A j \in DOMAIN client_queue'[u] : ~(j > 1 \/ user'[u] = "chatting")
      BY <2>1, <2>2, <3>4, <3>5
    <3>7. Len(client_queue'[u]) <= MaxMessages
      <4>1. Len(client_queue'[u]) = 1
        BY <3>3, <3>4
      <4>2. MaxMessages \in Nat \ {0}
        BY QueueAssumption DEF QueueAssumption
      <4> QED
        BY <4>1, <4>2
    <3> QED
      BY <2>1, <3>4, <3>6, <3>7 DEF TextsBehind
  <2> QED
    BY <1>6, <2>3, <2>4 DEF ServerRegisters
<1>7. CASE ServerTakesText
  <2>1. UNCHANGED <<client_queue, printed, user>> /\ Len(server_queue') <= MaxMessages
    BY <1>7, ServerQueueBounded DEF ServerTakesText
  <2> QED
    BY <2>1 DEF TextsBehind
<1>8. CASE ServerPassesOn
  <2>1. UNCHANGED <<server_queue, printed, user>>
    BY <1>8 DEF ServerPassesOn
  <2>2. CASE UNCHANGED client_queue
    BY <2>1, <2>2 DEF TextsBehind
  <2>3. CASE /\ ~Full(client_queue[clients[i]])
             /\ client_queue' = [client_queue EXCEPT
                  ![clients[i]] = Queued(@, Text(1, passing.id, passing.text))]
    <3>1. PICK u \in Users : u = clients[i] /\ Occurs(clients, u)
      BY <1>8 DEF ServerPassesOn, PassedToAll, Inv, Typed, Occurs
    <3>2. PICK m \in ToClient : m = Text(1, passing.id, passing.text) /\ IsText(m)
      BY <1>8, MessagesTyped DEF ServerPassesOn, PassedOn, Inv, Typed, IsText, Text
    <3> DEFINE q == client_queue[u]
               r == Queued(q, m)
    <3>3. client_queue'[u] = r /\ \A v \in Users \ {u} : client_queue'[v] = client_queue[v]
      BY <2>3, <3>1, <3>2 DEF Inv, Typed
    <3>4. /\ q \in Seq(ToClient) /\ ~Full(q) /\ Len(q) <= MaxMessages /\ MaxMessages \in Nat
          /\ \A j \in DOMAIN q : j > 1 \/ user[u] = "chatting" => IsText(q[j])
      BY <2>3, <3>1, QueueAssumption DEF QueueAssumption, Inv, Typed, TextsBehind
    <3>5. q \in Seq(Message) /\ m \in Message /\ \A j \in DOMAIN q : q[j].priority = m.priority
      BY <3>4 DEF ToClient
    <3>6. r = Inserted(q, Len(q), m)
      <4> HIDE DEF q
      <4> QED
        BY <3>5, QueuedAt
    <3>7. r \in Seq(Message) /\ Len(r) = Len(q) + 1
      BY <3>5, QueuedOccurs
    <3>8. r[Len(q) + 1] = m /\ \A j \in 1 .. Len(q) : r[j] = q[j]
      <4> HIDE DEF q, r
      <4> QED
        BY <3>5, <3>6, InsertedLast
    <3> HIDE DEF q, r
    <3>9. Len(r) <= MaxMessages
      BY <3>4, <3>7 DEF Full
    <3>10. \A j \in DOMAIN r : j \in DOMAIN q \/ j = Len(q) + 1
      BY <3>4, <3>7
    <3>11. \A j \in DOMAIN r : j > 1 \/ user[u] = "chatting" => IsText(r[j])
      BY <3>2, <3>4, <3>8, <3>10
    <3> QED
      BY <2>1, <3>3, <3>9, <3>11 DEF TextsBehind
  <2> QED
    BY <1>8, <2>2, <2>3 DEF ServerPassesOn, PassedOn
<1>9. CASE ServerHasPassedOn
  BY <1>9 DEF ServerHasPassedOn, queues, TextsBehind
<1>10. CASE UNCHANGED queueVars
  BY <1>10 DEF queueVars, queues, TextsBehind
<1> QED
  BY <1>1, <1>2, <1>3, <1>4, <1>5, <1>6, <1>7, <1>8, <1>9, <1>10 DEF QueueNext, Server, User

LEMMA TextsBehindTyped == Inv /\ TextsBehind => QueueTypeOK
<1> SUFFICES ASSUME Inv, TextsBehind PROVE QueueTypeOK
  OBVIOUS
<1>1. client_queue \in [Users -> Seq(Message)]
  <2>1. ASSUME NEW q \in Seq(ToClient) PROVE q \in Seq(Message)
    BY DEF ToClient
  <2> QED
    BY <2>1 DEF Inv, Typed
<1>2. i \in 0 .. MAX_CLIENTS + 1
  <2>1. /\ MAX_CLIENTS \in Nat /\ Len(clients) \in Nat /\ Len(clients) <= MAX_CLIENTS
        /\ i \in 0 .. Len(clients) + 1
    BY DEF Inv, Typed
  <2> QED
    BY <2>1
<1> QED
  BY <1>1, <1>2 DEF Inv, Typed, TextsBehind, QueueTypeOK

(* The queues are bounded by their limits, and nobody prints its number for  *)
(* a text: the child that prints is forked when the number has been taken    *)
(* (client.c:81-89), and nothing comes before the number.                    *)
THEOREM TypeCorrect == QueueSpec => []QueueTypeOK
<1>1. QueueInit(Users) => TextsBehind
  BY TextsBehindInit
<1>2. QueueSpec => []TextsBehind
  BY <1>1, InvHolds, TextsBehindStep, PTL DEF QueueSpec
<1> QED
  BY <1>2, InvHolds, TextsBehindTyped, PTL

-----------------------------------------------------------------------------
(* Nobody is forgotten.  What is put into a queue stays there until it is    *)
(* taken, and the server takes an INIT only to answer it or to refuse it.    *)

Enquiring ==
  \A u \in Users : user[u] = "waiting" =>
    Occurs(server_queue, Init_(u)) \/ Occurs(clients, u) \/ Len(clients) = MAX_CLIENTS

LEMMA QueuedKeeps ==
  ASSUME NEW q \in Seq(Message), NEW m \in Message
  PROVE  /\ Occurs(Queued(q, m), m)
         /\ \A x : Occurs(q, x) => Occurs(Queued(q, m), x)
<1>1. PICK k \in 0 .. Len(q) : Queued(q, m) = Inserted(q, k, m)
  BY QueuedAt
<1> DEFINE r == Queued(q, m)
<1>2. /\ Len(q) \in Nat /\ DOMAIN q = 1 .. Len(q) /\ DOMAIN r = 1 .. Len(q) + 1
      /\ \A j \in 1 .. Len(q) + 1 :
           r[j] = IF j <= k THEN q[j] ELSE IF j = k + 1 THEN m ELSE q[j - 1]
  <2>1. Len(q) \in Nat /\ DOMAIN q = 1 .. Len(q)
    OBVIOUS
  <2>2. r \in Seq(Message) /\ Len(r) = Len(q) + 1
    BY QueuedOccurs
  <2>3. DOMAIN r = 1 .. Len(q) + 1
    BY <2>2
  <2>4. \A j \in 1 .. Len(q) + 1 : Inserted(q, k, m)[j] =
          IF j <= k THEN q[j] ELSE IF j = k + 1 THEN m ELSE q[j - 1]
    BY InsertedAt
  <2> QED
    BY <1>1, <2>1, <2>3, <2>4
<1> HIDE DEF r
<1>3. k + 1 \in DOMAIN r /\ r[k + 1] = m
  BY <1>2
<1>4. ASSUME NEW j \in DOMAIN q PROVE Occurs(r, q[j])
  <2>1. CASE j <= k
    <3>1. j \in DOMAIN r /\ r[j] = q[j]
      BY <1>2, <2>1
    <3> QED
      BY <3>1 DEF Occurs
  <2>2. CASE j > k
    <3>1. j + 1 \in DOMAIN r /\ r[j + 1] = q[j]
      BY <1>2, <2>2
    <3> QED
      BY <3>1 DEF Occurs
  <2> QED
    BY <1>2, <2>1, <2>2
<1> QED
  BY <1>3, <1>4 DEF r, Occurs

LEMMA TailKeeps ==
  ASSUME NEW M, NEW q \in Seq(M), q # <<>>, NEW x, Occurs(q, x), x # Head(q)
  PROVE  Occurs(Tail(q), x)
<1>1. /\ Head(q) = q[1] /\ Len(Tail(q)) = Len(q) - 1 /\ Tail(q) \in Seq(M)
      /\ \A j \in 1 .. Len(Tail(q)) : Tail(q)[j] = q[j + 1]
      /\ Len(q) \in Nat \ {0} /\ DOMAIN q = 1 .. Len(q)
  BY HeadTailProperties
<1>2. PICK j \in DOMAIN q : q[j] = x
  BY DEF Occurs
<1> DEFINE t == Tail(q)
<1>3. j - 1 \in DOMAIN t /\ t[j - 1] = q[j]
  BY <1>1, <1>2
<1> QED
  BY <1>2, <1>3 DEF Occurs

LEMMA EnquiringInit ==
  ASSUME NEW present, QueueInit(present)
  PROVE  Enquiring
BY DEF QueueInit, Enquiring

(* The server takes the first message; the others wait on. *)
LEMMA OthersWaitOn ==
  ASSUME Inv, NEW m, ServerReceives(m), NEW u \in Users, Init_(u) # m,
         Occurs(server_queue, Init_(u))
  PROVE  Occurs(server_queue', Init_(u))
BY TailKeeps DEF ServerReceives, Inv, Typed

LEMMA EnquiringStep == Inv /\ Enquiring /\ [QueueNext]_queueVars => Enquiring'
<1> SUFFICES ASSUME Inv, Enquiring, [QueueNext]_queueVars PROVE Enquiring'
  OBVIOUS
<1>1. ASSUME NEW m \in Message, SendsToServer(m)
      PROVE  /\ Occurs(server_queue', m)
             /\ \A x : Occurs(server_queue, x) => Occurs(server_queue', x)
  BY <1>1, QueuedKeeps DEF SendsToServer, Inv, Typed
<1>2. ASSUME NEW u \in Users, UserStarts(u) PROVE Enquiring'
  <2>1. /\ \A v \in Users \ {u} : user'[v] = user[v]
        /\ UNCHANGED <<MAX_CLIENTS, clients>>
    BY <1>2 DEF UserStarts, Inv, Typed
  <2>2. /\ Occurs(server_queue', Init_(u))
        /\ \A x : Occurs(server_queue, x) => Occurs(server_queue', x)
    BY <1>1, <1>2, MessagesTyped DEF UserStarts
  <2> QED
    BY <2>1, <2>2 DEF Enquiring
<1>3. ASSUME NEW u \in Users, UserTypes(u) PROVE Enquiring'
  <2>1. Text(0, client_id[u], Len(author) + 1) \in Message
    <3>1. client_id[u] \in Nat /\ Len(author) + 1 \in Nat
      BY <1>3 DEF UserTypes, Inv, IdsAgree, Typed
    <3> QED
      BY <3>1, MessagesTyped
  <2>2. \A x : Occurs(server_queue, x) => Occurs(server_queue', x)
    BY <1>1, <1>3, <2>1 DEF UserTypes
  <2> QED
    BY <1>3, <2>2 DEF UserTypes, Enquiring
<1>4. ASSUME NEW u \in Users, UserGetsId(u) \/ UserPrints(u) \/ UserEnds(u) PROVE Enquiring'
  <2>1. /\ \A v \in Users : user'[v] = "waiting" => user[v] = "waiting"
        /\ UNCHANGED <<server_queue, clients, MAX_CLIENTS>>
    BY <1>4 DEF UserGetsId, UserPrints, UserEnds, queues, Inv, Typed
  <2> QED
    BY <2>1 DEF Enquiring
<1>5. ASSUME NEW u \in Users, ServerRegisters(u) PROVE Enquiring'
  <2>1. ServerReceives(Init_(u)) /\ UNCHANGED <<user, MAX_CLIENTS>>
    BY <1>5 DEF ServerRegisters
  <2>2. /\ clients \in Seq(Users) /\ Len(clients) \in Nat
        /\ MAX_CLIENTS \in Nat /\ Len(clients) <= MAX_CLIENTS
    BY DEF Inv, Typed
  <2>3. ASSUME NEW v \in Users, v # u, Occurs(server_queue, Init_(v))
        PROVE  Occurs(server_queue', Init_(v))
    BY <2>1, <2>3, OthersWaitOn, MessagesDiffer
  <2>4. CASE Len(clients) < MAX_CLIENTS /\ clients' = Append(clients, u)
    <3> DEFINE n == Len(clients)
    <3>1. /\ DOMAIN clients = 1 .. n /\ DOMAIN clients' = 1 .. n + 1
          /\ clients'[n + 1] = u /\ \A j \in 1 .. n : clients'[j] = clients[j]
      BY <2>2, <2>4, AppendProperties
    <3>2. \A v : Occurs(clients, v) \/ v = u => Occurs(clients', v)
      BY <2>2, <3>1 DEF Occurs
    <3>3. Len(clients) # MAX_CLIENTS
      BY <2>2, <2>4
    <3> QED
      BY <2>1, <2>3, <3>2, <3>3 DEF Enquiring
  <2>5. CASE ~(Len(clients) < MAX_CLIENTS) /\ UNCHANGED clients
    <3>1. Len(clients') = MAX_CLIENTS'
      BY <2>1, <2>2, <2>5
    <3> QED
      BY <3>1 DEF Enquiring
  <2> QED
    BY <1>5, <2>4, <2>5 DEF ServerRegisters
<1>6. CASE ServerTakesText
  <2>1. PICK n, id : ServerReceives(Text(0, id, n))
    BY <1>6 DEF ServerTakesText
  <2>2. ASSUME NEW v \in Users, Occurs(server_queue, Init_(v))
        PROVE  Occurs(server_queue', Init_(v))
    BY <2>1, <2>2, OthersWaitOn, MessagesDiffer
  <2> QED
    BY <1>6, <2>2 DEF ServerTakesText, Enquiring
<1>7. CASE ServerPassesOn \/ ServerHasPassedOn \/ UNCHANGED queueVars
  BY <1>7 DEF ServerPassesOn, ServerHasPassedOn, queueVars, queues, Enquiring
<1> QED
  BY <1>2, <1>3, <1>4, <1>5, <1>6, <1>7 DEF QueueNext, Server, User

LEMMA EnquiringRemembered == Inv /\ Enquiring => NobodyForgotten
<1> SUFFICES ASSUME Inv, Enquiring, NEW u \in Users, user[u] = "waiting"
             PROVE  \/ Init_(u) \in Range(server_queue)
                    \/ client_queue[u] # <<>> /\ Head(client_queue[u]).type = "ID"
                    \/ Len(clients) = MAX_CLIENTS
  BY DEF NobodyForgotten
<1>1. Occurs(server_queue, Init_(u)) => Init_(u) \in Range(server_queue)
  BY DEF Occurs, Range
<1>2. ASSUME Occurs(clients, u)
      PROVE  client_queue[u] # <<>> /\ Head(client_queue[u]).type = "ID"
  <2>1. PICK n \in DOMAIN clients : clients[n] = u
    BY <1>2 DEF Occurs
  <2>2. client_queue[u] # <<>> /\ Head(client_queue[u]) = IdMessage(n - 1)
    BY <2>1 DEF Inv, Numbered
  <2> QED
    BY <2>2 DEF IdMessage
<1> QED
  BY <1>1, <1>2 DEF Enquiring

(* A client that waits for its id waits for the server to come to its INIT,  *)
(* or to take the id from its queue, or the table is full: in no other state *)
(* (client.c:81, server.c:66-91).                                            *)
THEOREM WaitersAccountedFor == QueueSpec => []NobodyForgotten
<1>1. QueueInit(Users) => Enquiring
  BY EnquiringInit
<1>2. QueueSpec => []Enquiring
  BY <1>1, InvHolds, EnquiringStep, PTL DEF QueueSpec
<1> QED
  BY <1>2, InvHolds, EnquiringRemembered, PTL

=============================================================================
