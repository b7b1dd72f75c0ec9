-------------------------- MODULE PrintQueueProofs --------------------------
(***************************************************************************)
(* Proofs about PrintQueue, for any finite sets of users and printers, any *)
(* length of the queue and any number of restarts: its safety properties,  *)
(* and that it implements Spooler.                                         *)
(***************************************************************************)
EXTENDS PrintQueue, FiniteSetTheorems, TLAPS

-----------------------------------------------------------------------------
(* The inductive invariant: two counts and what lies in the slots. *)

Reserving == Cardinality(UsersAt({"waitMutex", "copy", "advance"}))
Posting   == Cardinality(UsersAt({"postMutex", "postFull"}))
Fetching  == Cardinality(PrintersAt({"waitMutex", "get", "advance"}))
Freeing   == Cardinality(PrintersAt({"postMutex", "postEmpty"}))

UsersInside    == Cardinality(UsersAt({"copy", "advance", "postMutex"}))
PrintersInside == Cardinality(PrintersAt({"get", "advance", "postMutex"}))

(* Every slot is free, reserved by a user, queued, or about to be freed. *)
SlotsCounted == SEM_EMPTY + Reserving + Queued + Freeing = MAX_QUEUE

MutexCounted == SEM_MUTEX + UsersInside + PrintersInside = 1

QueueHoldsJobs == Pending \in Seq(Jobs)

UsersHoldJobs == \A u \in Users : user[u] # "generate" => userJob[u] \in Jobs

CopiedToTail == \A u \in Users : user[u] = "advance" => jobs[tail] = userJob[u]

Inv ==
  /\ TypeOK
  /\ SlotsCounted
  /\ MutexCounted
  /\ QueueHoldsJobs
  /\ UsersHoldJobs
  /\ CopiedToTail

-----------------------------------------------------------------------------
(* The remainder of a number less than one turn away from the ring. *)
LEMMA ModIn == ASSUME NEW m \in Nat \ {0}, NEW x \in 0 .. m - 1 PROVE x % m = x
OBVIOUS

(* Up to one turn below zero. *)
LEMMA ModBelow == ASSUME NEW m \in Nat \ {0}, NEW x \in -m .. -1 PROVE x % m = x + m
OBVIOUS

(* Up to two turns below zero. *)
LEMMA ModFarBelow == ASSUME NEW m \in Nat \ {0}, NEW x \in -2 * m .. -m - 1 PROVE x % m = x + 2 * m
OBVIOUS

(* A part of a sum is at most the sum. *)
LEMMA SummandIn ==
  ASSUME NEW n \in Nat, NEW a \in Nat, NEW b \in Nat, NEW c \in Nat, a + b + c = n
  PROVE  a \in 0 .. n
OBVIOUS

(* The same of the five quantities that share the slots. *)
LEMMA SummandsIn ==
  ASSUME NEW n \in Nat, NEW a \in Nat, NEW b \in Nat, NEW c \in Nat, NEW d \in Nat, NEW e \in Nat,
         NEW f \in Nat, a + b + (c + d + e) + f = n
  PROVE  a \in 0 .. n /\ c \in 0 .. n
OBVIOUS

(* The next slot, without a remainder. *)
LEMMA NextSlotIs ==
  ASSUME NEW i \in Slots
  PROVE  /\ NextSlot(i) \in Slots
         /\ NextSlot(i) = IF i = MAX_QUEUE - 1 THEN 0 ELSE i + 1
BY ConstantsAssumption DEF NextSlot, Slots

(* How many of the processes Procs are at a place in S. *)
Count(Procs, pc, S) == Cardinality({p \in Procs : pc[p] \in S})

Moved(pc, p, to) == [pc EXCEPT ![p] = to]

Change(S, from, to) == (IF to \in S THEN 1 ELSE 0) - (IF from \in S THEN 1 ELSE 0)

(* It is a natural number. *)
LEMMA CountIsNat ==
  ASSUME NEW Procs, IsFiniteSet(Procs), NEW pc, NEW S
  PROVE  Count(Procs, pc, S) \in Nat
<1>1. IsFiniteSet({q \in Procs : pc[q] \in S})
  BY FS_Subset
<1> QED
  BY <1>1, FS_CardinalityType DEF Count

(* A process that moves is counted where it arrives and no longer where it  *)
(* was.                                                                     *)
LEMMA Moving ==
  ASSUME NEW Procs, IsFiniteSet(Procs), NEW At, NEW f \in [Procs -> At], NEW p \in Procs,
         NEW to, NEW S
  PROVE  Count(Procs, Moved(f, p, to), S) = Count(Procs, f, S) + Change(S, f[p], to)
<1> DEFINE Before == {q \in Procs : f[q] \in S}
           After == {q \in Procs : Moved(f, p, to)[q] \in S}
<1>1. Count(Procs, f, S) = Cardinality(Before)
  BY DEF Count
<1>2. Count(Procs, Moved(f, p, to), S) = Cardinality(After)
  BY DEF Count
<1>3. IsFiniteSet(Before)
  BY FS_Subset
<1>4. /\ After = IF to \in S THEN Before \cup {p} ELSE Before \ {p}
      /\ p \in Before <=> f[p] \in S
  BY DEF Moved
<1> HIDE DEF Before, After
<1>5. Cardinality(Before) \in Nat
  BY <1>3, FS_CardinalityType
<1>6. Cardinality(Before \cup {p}) = IF p \in Before THEN Cardinality(Before)
                                                   ELSE Cardinality(Before) + 1
  BY <1>3, FS_AddElement
<1>7. Cardinality(Before \ {p}) = IF p \in Before THEN Cardinality(Before) - 1
                                                  ELSE Cardinality(Before)
  BY <1>3, FS_RemoveElement
<1>8. Cardinality(After) = Cardinality(Before) + Change(S, f[p], to)
  BY <1>4, <1>5, <1>6, <1>7 DEF Change
<1> QED
  BY <1>1, <1>2, <1>8

(* What a step of a user does to the counts. *)
LEMMA UserCounts ==
  ASSUME TypeOK, NEW u \in Users, NEW from, NEW to, UserMoves(u, from, to), NEW S
  PROVE  /\ Cardinality(UsersAt(S)) \in Nat
         /\ Cardinality(UsersAt(S))' = Cardinality(UsersAt(S)) + Change(S, from, to)
<1>1. user \in [Users -> UserAt]
  BY DEF TypeOK
<1>2. user[u] = from /\ user' = Moved(user, u, to)
  BY DEF UserMoves, Moved
<1>3. IsFiniteSet(Users)
  BY ConstantsAssumption
<1>4. Count(Users, user, S) \in Nat
  BY <1>3, CountIsNat
<1>5. Count(Users, Moved(user, u, to), S) = Count(Users, user, S) + Change(S, user[u], to)
  BY <1>1, <1>3, Moving
<1>6. /\ Cardinality(UsersAt(S)) = Count(Users, user, S)
      /\ Cardinality(UsersAt(S))' = Count(Users, user', S)
  BY DEF UsersAt, Count
<1> QED
  BY <1>2, <1>4, <1>5, <1>6

(* And a step of a printer. *)
LEMMA PrinterCounts ==
  ASSUME TypeOK, NEW d \in Printers, NEW from, NEW to, PrinterMoves(d, from, to), NEW S
  PROVE  /\ Cardinality(PrintersAt(S)) \in Nat
         /\ Cardinality(PrintersAt(S))' = Cardinality(PrintersAt(S)) + Change(S, from, to)
<1>1. printer \in [Printers -> PrinterAt]
  BY DEF TypeOK
<1>2. printer[d] = from /\ printer' = Moved(printer, d, to)
  BY DEF PrinterMoves, Moved
<1>3. IsFiniteSet(Printers)
  BY ConstantsAssumption
<1>4. Count(Printers, printer, S) \in Nat
  BY <1>3, CountIsNat
<1>5. Count(Printers, Moved(printer, d, to), S) = Count(Printers, printer, S) + Change(S, printer[d], to)
  BY <1>1, <1>3, Moving
<1>6. /\ Cardinality(PrintersAt(S)) = Count(Printers, printer, S)
      /\ Cardinality(PrintersAt(S))' = Count(Printers, printer', S)
  BY DEF PrintersAt, Count
<1> QED
  BY <1>2, <1>4, <1>5, <1>6

(* The counts are natural numbers, and at least one when somebody is there. *)
LEMMA UsersCounted ==
  ASSUME NEW S
  PROVE  /\ Cardinality(UsersAt(S)) \in Nat
         /\ \A u \in Users : user[u] \in S => Cardinality(UsersAt(S)) >= 1
         /\ Cardinality(UsersAt(S)) <= 1
              => \A u, v \in Users : user[u] \in S /\ user[v] \in S => u = v
<1> DEFINE Here == UsersAt(S)
<1>1. IsFiniteSet(Here)
  BY ConstantsAssumption, FS_Subset DEF UsersAt
<1>2. Cardinality(Here) \in Nat
  BY <1>1, FS_CardinalityType
<1>3. \A u \in Users : user[u] \in S <=> u \in Here
  BY DEF UsersAt
<1> HIDE DEF Here
<1>4. ASSUME NEW u \in Here PROVE Cardinality(Here) >= 1
  <2>1. Cardinality(Here) # 0
    BY <1>1, FS_EmptySet
  <2> QED
    BY <1>2, <2>1
<1>5. ASSUME NEW u \in Here, NEW v \in Here, Cardinality(Here) <= 1 PROVE u = v
  <2>1. Cardinality(Here) = 1
    BY <1>2, <1>4, <1>5
  <2> QED
    BY <1>1, <2>1, FS_Singleton
<1> QED
  BY <1>2, <1>3, <1>4, <1>5 DEF Here

(* The same of the printers. *)
LEMMA PrintersCounted ==
  ASSUME NEW S
  PROVE  /\ Cardinality(PrintersAt(S)) \in Nat
         /\ \A d \in Printers : printer[d] \in S => Cardinality(PrintersAt(S)) >= 1
<1> DEFINE Here == PrintersAt(S)
<1>1. IsFiniteSet(Here)
  BY ConstantsAssumption, FS_Subset DEF PrintersAt
<1>2. Cardinality(Here) \in Nat
  BY <1>1, FS_CardinalityType
<1>3. \A d \in Printers : printer[d] \in S <=> d \in Here
  BY DEF PrintersAt
<1> HIDE DEF Here
<1>4. ASSUME NEW d \in Here PROVE Cardinality(Here) >= 1
  <2>1. Cardinality(Here) # 0
    BY <1>1, FS_EmptySet
  <2> QED
    BY <1>2, <2>1
<1> QED
  BY <1>2, <1>3, <1>4 DEF Here

-----------------------------------------------------------------------------
(* The counts of users after each of their steps. *)
UserSums == <<Reserving, Posting, UsersInside>>

(* Which step changes which count. *)
LEMMA UserSumsAfter ==
  ASSUME TypeOK, NEW u \in Users
  PROVE  /\ Reserving \in Nat /\ Posting \in Nat /\ UsersInside \in Nat
         /\ UserGenerates(u)  => UserSums' = UserSums
         /\ UserWaitsEmpty(u) => UserSums' = <<Reserving + 1, Posting, UsersInside>>
         /\ UserWaitsMutex(u) => UserSums' = <<Reserving, Posting, UsersInside + 1>>
         /\ UserCopies(u)     => UserSums' = UserSums
         /\ UserAdvances(u)   => UserSums' = <<Reserving - 1, Posting + 1, UsersInside>>
         /\ UserPostsMutex(u) => UserSums' = <<Reserving, Posting, UsersInside - 1>>
         /\ UserPostsFull(u)  => UserSums' = <<Reserving, Posting - 1, UsersInside>>
<1>1. Reserving \in Nat /\ Posting \in Nat /\ UsersInside \in Nat
  BY UsersCounted DEF Reserving, Posting, UsersInside
<1>2. ASSUME NEW from, NEW to, UserMoves(u, from, to)
      PROVE  /\ Reserving' = Reserving + Change({"waitMutex", "copy", "advance"}, from, to)
             /\ Posting' = Posting + Change({"postMutex", "postFull"}, from, to)
             /\ UsersInside' = UsersInside + Change({"copy", "advance", "postMutex"}, from, to)
  BY <1>2, UserCounts DEF Reserving, Posting, UsersInside
<1> QED
  BY <1>1, <1>2
  DEF UserSums, Change, UserGenerates, UserWaitsEmpty, UserWaitsMutex, UserCopies, UserAdvances,
      UserPostsMutex, UserPostsFull

(* They are natural numbers after it too. *)
LEMMA UserSumsPrimed == Reserving' \in Nat /\ Posting' \in Nat /\ UsersInside' \in Nat
<1>1. Reserving \in Nat /\ Posting \in Nat /\ UsersInside \in Nat
  BY UsersCounted DEF Reserving, Posting, UsersInside
<1>2. (Reserving \in Nat /\ Posting \in Nat /\ UsersInside \in Nat)'
  BY <1>1, PTL
<1> QED
  BY <1>2

(* The counts of printers after each of theirs. *)
PrinterSums == <<Fetching, Freeing, PrintersInside>>

(* Which step changes which of them. *)
LEMMA PrinterSumsAfter ==
  ASSUME TypeOK, NEW d \in Printers
  PROVE  /\ Fetching \in Nat /\ Freeing \in Nat /\ PrintersInside \in Nat
         /\ PrinterWaitsFull(d)  => PrinterSums' = <<Fetching + 1, Freeing, PrintersInside>>
         /\ PrinterWaitsMutex(d) => PrinterSums' = <<Fetching, Freeing, PrintersInside + 1>>
         /\ PrinterGetsJob(d)    => PrinterSums' = PrinterSums
         /\ PrinterAdvances(d)   => PrinterSums' = <<Fetching - 1, Freeing + 1, PrintersInside>>
         /\ PrinterPostsMutex(d) => PrinterSums' = <<Fetching, Freeing, PrintersInside - 1>>
         /\ PrinterPostsEmpty(d) => PrinterSums' = <<Fetching, Freeing - 1, PrintersInside>>
         /\ PrinterPrints(d)     => PrinterSums' = PrinterSums
<1>1. Fetching \in Nat /\ Freeing \in Nat /\ PrintersInside \in Nat
  BY PrintersCounted DEF Fetching, Freeing, PrintersInside
<1>2. ASSUME NEW from, NEW to, PrinterMoves(d, from, to)
      PROVE  /\ Fetching' = Fetching + Change({"waitMutex", "get", "advance"}, from, to)
             /\ Freeing' = Freeing + Change({"postMutex", "postEmpty"}, from, to)
             /\ PrintersInside' = PrintersInside + Change({"get", "advance", "postMutex"}, from, to)
  BY <1>2, PrinterCounts DEF Fetching, Freeing, PrintersInside
<1> QED
  BY <1>1, <1>2
  DEF PrinterSums, Change, PrinterWaitsFull, PrinterWaitsMutex, PrinterGetsJob, PrinterAdvances,
      PrinterPostsMutex, PrinterPostsEmpty, PrinterPrints

(* Which are natural numbers too. *)
LEMMA PrinterSumsPrimed == Fetching' \in Nat /\ Freeing' \in Nat /\ PrintersInside' \in Nat
<1>1. Fetching \in Nat /\ Freeing \in Nat /\ PrintersInside \in Nat
  BY PrintersCounted DEF Fetching, Freeing, PrintersInside
<1>2. (Fetching \in Nat /\ Freeing \in Nat /\ PrintersInside \in Nat)'
  BY <1>1, PTL
<1> QED
  BY <1>2

-----------------------------------------------------------------------------
(* The slots of the queued jobs.  The oldest of q jobs before slot t is      *)
(* number 1.                                                                *)
Slot(t, q, i) == (t - q + i - 1) % MAX_QUEUE

(* A whole turn changes nothing. *)
LEMMA ModTurn == ASSUME NEW m \in Nat \ {0}, NEW x \in -m + 1 .. m - 1 PROVE (x - m) % m = x % m
<1>1. CASE x >= 0
  <2>1. x \in 0 .. m - 1 /\ x - m \in -m .. -1
    BY <1>1
  <2>2. x % m = x
    BY <2>1, ModIn
  <2>3. (x - m) % m = (x - m) + m
    BY <2>1, ModBelow
  <2> QED
    BY <2>2, <2>3
<1>2. CASE x < 0
  <2>1. x \in -m .. -1 /\ x - m \in -2 * m .. -m - 1
    BY <1>2
  <2>2. x % m = x + m
    BY <2>1, ModBelow
  <2>3. (x - m) % m = (x - m) + 2 * m
    BY <2>1, ModFarBelow
  <2> QED
    BY <2>2, <2>3
<1> QED
  BY <1>1, <1>2

(* A slot, without a remainder, *)
LEMMA SlotIs ==
  ASSUME NEW t \in Slots, NEW q \in 0 .. MAX_QUEUE, NEW i \in 1 .. q
  PROVE  Slot(t, q, i) = IF t - q + i - 1 >= 0 THEN t - q + i - 1 ELSE t - q + i - 1 + MAX_QUEUE
<1> DEFINE x == t - q + i - 1
<1>1. MAX_QUEUE \in Nat \ {0} /\ x \in -MAX_QUEUE .. MAX_QUEUE - 1
  BY ConstantsAssumption DEF Slots
<1>2. Slot(t, q, i) = x % MAX_QUEUE
  BY DEF Slot
<1> HIDE DEF x
<1>3. CASE x >= 0
  <2>1. x % MAX_QUEUE = x
    BY <1>1, <1>3, ModIn
  <2> QED
    BY <1>2, <1>3, <2>1 DEF x
<1>4. CASE x < 0
  <2>1. x % MAX_QUEUE = x + MAX_QUEUE
    BY <1>1, <1>4, ModBelow
  <2> QED
    BY <1>1, <1>2, <1>4, <2>1 DEF x
<1> QED
  BY <1>1, <1>3, <1>4

(* which is one of the ring. *)
LEMMA SlotIn ==
  ASSUME NEW t \in Slots, NEW q \in 0 .. MAX_QUEUE, NEW i \in 1 .. q
  PROVE  Slot(t, q, i) \in Slots
BY ConstantsAssumption, SlotIs DEF Slots

(* In a queue with room left, slot t is not one of them, *)
LEMMA SlotBehind ==
  ASSUME NEW t \in Slots, NEW q \in 0 .. MAX_QUEUE - 1, NEW i \in 1 .. q
  PROVE  Slot(t, q, i) # t
BY ConstantsAssumption, SlotIs DEF Slots

(* they stay the same when slot t is added, as the last one, *)
LEMMA SlotAdded ==
  ASSUME NEW t \in Slots, NEW q \in 0 .. MAX_QUEUE - 1, NEW i \in 1 .. q + 1
  PROVE  Slot(NextSlot(t), q + 1, i) = IF i = q + 1 THEN t ELSE Slot(t, q, i)
<1>1. NextSlot(t) \in Slots /\ NextSlot(t) = IF t = MAX_QUEUE - 1 THEN 0 ELSE t + 1
  BY NextSlotIs
<1>2. q + 1 \in 0 .. MAX_QUEUE /\ MAX_QUEUE \in Nat \ {0}
  BY ConstantsAssumption
<1>3. Slot(NextSlot(t), q + 1, i) =
        IF NextSlot(t) - (q + 1) + i - 1 >= 0 THEN NextSlot(t) - (q + 1) + i - 1
                                              ELSE NextSlot(t) - (q + 1) + i - 1 + MAX_QUEUE
  BY <1>1, <1>2, SlotIs
<1>4. CASE i = q + 1
  BY <1>1, <1>2, <1>3, <1>4 DEF Slots
<1>5. CASE i # q + 1
  <2>1. i \in 1 .. q /\ q \in 0 .. MAX_QUEUE
    BY <1>2, <1>5
  <2>2. Slot(t, q, i) = IF t - q + i - 1 >= 0 THEN t - q + i - 1 ELSE t - q + i - 1 + MAX_QUEUE
    BY <2>1, SlotIs
  <2> QED
    BY <1>1, <1>2, <1>3, <1>5, <2>1, <2>2 DEF Slots
<1> QED
  BY <1>4, <1>5

(* and the second one is the first when the first is taken away. *)
LEMMA SlotTaken ==
  ASSUME NEW t \in Int, NEW q \in Int, NEW i \in Int
  PROVE  Slot(t, q - 1, i) = Slot(t, q, i + 1)
<1>1. t - (q - 1) + i - 1 = t - q + (i + 1) - 1
  OBVIOUS
<1> QED
  BY <1>1 DEF Slot

(* The queue by its slots, before and after a step. *)
LEMMA PendingIs == Pending = [i \in 1 .. Queued |-> jobs[Slot(tail, Queued, i)]]
BY DEF Pending, Slot

(* And by the slots it has after a step. *)
LEMMA PendingIsPrimed == Pending' = [i \in 1 .. Queued' |-> jobs'[Slot(tail', Queued', i)]]
BY DEF Pending, Slot

(* An empty queue is the empty sequence. *)
LEMMA NoPending == ASSUME Queued = 0 PROVE Pending = <<>>
BY PendingIs

(* And so is one that a step leaves empty. *)
LEMMA NoPendingPrimed == ASSUME Queued' = 0 PROVE Pending' = <<>>
BY PendingIsPrimed

-----------------------------------------------------------------------------
(* Nobody is counted anywhere when main has forked, or forked again. *)
LEMMA NobodyCounted ==
  ASSUME user = [u \in Users |-> "generate"], printer = [d \in Printers |-> "waitFull"]
  PROVE  /\ Reserving = 0 /\ Posting = 0 /\ UsersInside = 0
         /\ Fetching = 0 /\ Freeing = 0 /\ PrintersInside = 0
         /\ Busy = {}
<1>1. /\ UsersAt({"waitMutex", "copy", "advance"}) = {} /\ UsersAt({"postMutex", "postFull"}) = {}
      /\ UsersAt({"copy", "advance", "postMutex"}) = {}
  BY DEF UsersAt
<1>2. /\ PrintersAt({"waitMutex", "get", "advance"}) = {} /\ PrintersAt({"postMutex", "postEmpty"}) = {}
      /\ PrintersAt({"get", "advance", "postMutex"}) = {} /\ Busy = {}
  BY DEF PrintersAt, Busy
<1> QED
  BY <1>1, <1>2, FS_EmptySet
  DEF Reserving, Posting, UsersInside, Fetching, Freeing, PrintersInside

(* The jobs in the ring, by the counts above. *)
LEMMA QueuedIs == Queued = SEM_FULL + Posting + Fetching
BY DEF Queued, Posting, Fetching

(* When main has made the segment. *)
LEMMA InitInv == Init => Inv
<1> SUFFICES ASSUME Init PROVE Inv
  OBVIOUS
<1>1. TypeOK
  BY ConstantsAssumption DEF Init, TypeOK, Slots, UserAt, PrinterAt
<1>2. Queued = 0 /\ SlotsCounted /\ MutexCounted
  BY ConstantsAssumption, NobodyCounted, QueuedIs DEF Init, SlotsCounted, MutexCounted
<1>3. QueueHoldsJobs /\ UsersHoldJobs /\ CopiedToTail
  BY <1>2, NoPending DEF Init, QueueHoldsJobs, UsersHoldJobs, CopiedToTail
<1> QED
  BY <1>1, <1>2, <1>3 DEF Inv

(* Whatever the memory holds then. *)
LEMMA RestartInv == ASSUME Inv, Restart PROVE Inv' /\ Queued' = 0 /\ Busy' = {}
<1>1. TypeOK'
  BY ConstantsAssumption DEF Inv, Restart, TypeOK, Slots, UserAt, PrinterAt, memory
<1>2. /\ Reserving' = 0 /\ Posting' = 0 /\ UsersInside' = 0
      /\ Fetching' = 0 /\ Freeing' = 0 /\ PrintersInside' = 0
      /\ Busy' = {}
  <2>1. (user = [u \in Users |-> "generate"] /\ printer = [d \in Printers |-> "waitFull"]
          => /\ Reserving = 0 /\ Posting = 0 /\ UsersInside = 0
             /\ Fetching = 0 /\ Freeing = 0 /\ PrintersInside = 0
             /\ Busy = {})'
    BY NobodyCounted, PTL
  <2> QED
    BY <2>1 DEF Restart
<1>3. Queued' = SEM_FULL' + Posting' + Fetching'
  BY DEF Queued, Posting, Fetching
<1>4. Queued' = 0 /\ SlotsCounted' /\ MutexCounted'
  BY <1>2, <1>3, ConstantsAssumption DEF Restart, SlotsCounted, MutexCounted
<1>5. QueueHoldsJobs' /\ UsersHoldJobs' /\ CopiedToTail'
  BY <1>4, NoPendingPrimed DEF Restart, QueueHoldsJobs, UsersHoldJobs, CopiedToTail
<1> QED
  BY <1>1, <1>2, <1>4, <1>5 DEF Inv

-----------------------------------------------------------------------------
(* A step of a user keeps the counts, and adds one job exactly when it       *)
(* advances tail.                                                           *)
LEMMA UserCountsKept ==
  ASSUME Inv, NEW u \in Users, User(u)
  PROVE  /\ TypeOK' /\ SlotsCounted' /\ MutexCounted'
         /\ Queued' = IF UserAdvances(u) THEN Queued + 1 ELSE Queued
         /\ Busy' = Busy
<1>1. TypeOK /\ SlotsCounted /\ MutexCounted
  BY DEF Inv
<1>2. Fetching \in Nat /\ Freeing \in Nat /\ PrintersInside \in Nat
  BY PrintersCounted DEF Fetching, Freeing, PrintersInside
<1>3. /\ Fetching' = Fetching /\ Freeing' = Freeing /\ PrintersInside' = PrintersInside
      /\ Busy' = Busy /\ restarts' = restarts
  BY DEF User, UserGenerates, UserWaitsEmpty, UserWaitsMutex, UserCopies, UserAdvances,
         UserPostsMutex, UserPostsFull, Fetching, Freeing, PrintersInside, Busy, PrintersAt
<1>4. Queued = SEM_FULL + Posting + Fetching /\ Queued' = SEM_FULL' + Posting' + Fetching'
  BY DEF Queued, Posting, Fetching
<1>5. /\ SEM_FULL \in Nat /\ SEM_EMPTY \in Nat /\ SEM_MUTEX \in Nat /\ MAX_QUEUE \in Nat
      /\ Reserving \in Nat /\ Posting \in Nat /\ UsersInside \in Nat
  BY <1>1, ConstantsAssumption, UsersCounted DEF TypeOK, Reserving, Posting, UsersInside
<1>6. Reserving' \in Nat /\ Posting' \in Nat /\ UsersInside' \in Nat
  BY UserSumsPrimed
<1>7. /\ UserSums = <<Reserving, Posting, UsersInside>>
      /\ UserSums' = <<Reserving', Posting', UsersInside'>>
  BY DEF UserSums
<1>8. /\ SlotsCounted' /\ MutexCounted' /\ SEM_FULL' \in Nat /\ SEM_EMPTY' \in Nat /\ SEM_MUTEX' \in Nat
      /\ Queued' = IF UserAdvances(u) THEN Queued + 1 ELSE Queued
  <2>1. CASE UserGenerates(u)
    <3>1. /\ ~UserAdvances(u) /\ UNCHANGED sems /\ UserSums' = UserSums
      BY <1>1, <2>1, UserSumsAfter DEF UserGenerates, UserAdvances, UserMoves, TypeOK
    <3>2. Reserving' = Reserving /\ Posting' = Posting /\ UsersInside' = UsersInside
      BY <1>7, <3>1
    <3> QED
      BY <1>1, <1>2, <1>3, <1>4, <1>5, <1>6, <3>1, <3>2 DEF SlotsCounted, MutexCounted, sems
  <2>2. CASE UserWaitsEmpty(u)
    <3>1. /\ ~UserAdvances(u) /\ UserSums' = <<Reserving + 1, Posting, UsersInside>>
          /\ SEM_EMPTY > 0 /\ SEM_EMPTY' = SEM_EMPTY - 1 /\ UNCHANGED <<SEM_FULL, SEM_MUTEX>>
      BY <1>1, <2>2, UserSumsAfter DEF UserWaitsEmpty, UserAdvances, UserMoves, TypeOK
    <3>2. Reserving' = Reserving + 1 /\ Posting' = Posting /\ UsersInside' = UsersInside
      BY <1>7, <3>1
    <3> QED
      BY <1>1, <1>2, <1>3, <1>4, <1>5, <1>6, <3>1, <3>2 DEF SlotsCounted, MutexCounted
  <2>3. CASE UserWaitsMutex(u)
    <3>1. /\ ~UserAdvances(u) /\ UserSums' = <<Reserving, Posting, UsersInside + 1>>
          /\ SEM_MUTEX > 0 /\ SEM_MUTEX' = SEM_MUTEX - 1 /\ UNCHANGED <<SEM_FULL, SEM_EMPTY>>
      BY <1>1, <2>3, UserSumsAfter DEF UserWaitsMutex, UserAdvances, UserMoves, TypeOK
    <3>2. Reserving' = Reserving /\ Posting' = Posting /\ UsersInside' = UsersInside + 1
      BY <1>7, <3>1
    <3> QED
      BY <1>1, <1>2, <1>3, <1>4, <1>5, <1>6, <3>1, <3>2 DEF SlotsCounted, MutexCounted
  <2>4. CASE UserCopies(u)
    <3>1. /\ ~UserAdvances(u) /\ UNCHANGED sems /\ UserSums' = UserSums
      BY <1>1, <2>4, UserSumsAfter DEF UserCopies, UserAdvances, UserMoves, TypeOK
    <3>2. Reserving' = Reserving /\ Posting' = Posting /\ UsersInside' = UsersInside
      BY <1>7, <3>1
    <3> QED
      BY <1>1, <1>2, <1>3, <1>4, <1>5, <1>6, <3>1, <3>2 DEF SlotsCounted, MutexCounted, sems
  <2>5. CASE UserAdvances(u)
    <3>1. /\ UNCHANGED sems /\ UserSums' = <<Reserving - 1, Posting + 1, UsersInside>>
      BY <1>1, <2>5, UserSumsAfter DEF UserAdvances
    <3>2. Reserving' = Reserving - 1 /\ Posting' = Posting + 1 /\ UsersInside' = UsersInside
      BY <1>7, <3>1
    <3> QED
      BY <1>1, <1>2, <1>3, <1>4, <1>5, <1>6, <2>5, <3>1, <3>2 DEF SlotsCounted, MutexCounted, sems
  <2>6. CASE UserPostsMutex(u)
    <3>1. /\ ~UserAdvances(u) /\ UserSums' = <<Reserving, Posting, UsersInside - 1>>
          /\ SEM_MUTEX' = SEM_MUTEX + 1 /\ UNCHANGED <<SEM_FULL, SEM_EMPTY>>
      BY <1>1, <2>6, UserSumsAfter DEF UserPostsMutex, UserAdvances, UserMoves, TypeOK
    <3>2. Reserving' = Reserving /\ Posting' = Posting /\ UsersInside' = UsersInside - 1
      BY <1>7, <3>1
    <3> QED
      BY <1>1, <1>2, <1>3, <1>4, <1>5, <1>6, <3>1, <3>2 DEF SlotsCounted, MutexCounted
  <2>7. CASE UserPostsFull(u)
    <3>1. /\ ~UserAdvances(u) /\ UserSums' = <<Reserving, Posting - 1, UsersInside>>
          /\ SEM_FULL' = SEM_FULL + 1 /\ UNCHANGED <<SEM_MUTEX, SEM_EMPTY>>
      BY <1>1, <2>7, UserSumsAfter DEF UserPostsFull, UserAdvances, UserMoves, TypeOK
    <3>2. Reserving' = Reserving /\ Posting' = Posting - 1 /\ UsersInside' = UsersInside
      BY <1>7, <3>1
    <3> QED
      BY <1>1, <1>2, <1>3, <1>4, <1>5, <1>6, <3>1, <3>2 DEF SlotsCounted, MutexCounted
  <2> QED
    BY <2>1, <2>2, <2>3, <2>4, <2>5, <2>6, <2>7 DEF User
<1>9. TypeOK'
  <2>1. /\ SEM_MUTEX' \in 0 .. 1 /\ SEM_FULL' \in 0 .. MAX_QUEUE /\ SEM_EMPTY' \in 0 .. MAX_QUEUE
    <3>1. /\ SEM_MUTEX' + UsersInside' + PrintersInside' = 1
          /\ SEM_EMPTY' + Reserving' + (SEM_FULL' + Posting' + Fetching') + Freeing' = MAX_QUEUE
      BY <1>4, <1>8 DEF SlotsCounted, MutexCounted
    <3>2. Fetching' \in Nat /\ Freeing' \in Nat /\ PrintersInside' \in Nat
      BY <1>2, <1>3
    <3>3. SEM_MUTEX' \in Nat /\ SEM_FULL' \in Nat /\ SEM_EMPTY' \in Nat
      BY <1>8
    <3>4. SEM_MUTEX' \in 0 .. 1
      BY <1>6, <3>1, <3>2, <3>3, SummandIn
    <3>5. SEM_EMPTY' \in 0 .. MAX_QUEUE
      BY <1>5, <1>6, <3>1, <3>2, <3>3, SummandsIn
    <3>6. SEM_FULL' \in 0 .. MAX_QUEUE
      BY <1>5, <1>6, <3>1, <3>2, <3>3, SummandsIn
    <3> QED
      BY <3>4, <3>5, <3>6
  <2>2. user' \in [Users -> UserAt] /\ userJob' \in [Users -> Jobs \union {NoJob}]
    BY <1>1
    DEF TypeOK, User, UserMoves, UserAt, UserGenerates, UserWaitsEmpty, UserWaitsMutex, UserCopies,
        UserAdvances, UserPostsMutex, UserPostsFull
  <2>3. jobs' \in [Slots -> Jobs \union {NoJob}] /\ head' \in Slots /\ tail' \in Slots
    BY <1>1, NextSlotIs
    DEF TypeOK, User, memory, UserGenerates, UserWaitsEmpty, UserWaitsMutex, UserCopies,
        UserAdvances, UserPostsMutex, UserPostsFull
  <2>4. UNCHANGED <<printer, printerJob, restarts>>
    BY DEF User, UserGenerates, UserWaitsEmpty, UserWaitsMutex, UserCopies,
           UserAdvances, UserPostsMutex, UserPostsFull
  <2> QED
    BY <1>1, <2>1, <2>2, <2>3, <2>4 DEF TypeOK
<1> QED
  BY <1>3, <1>8, <1>9

(* A step of a printer keeps them too, and takes one job away exactly when   *)
(* it advances head; it is busy from then until it has printed.             *)
LEMMA PrinterCountsKept ==
  ASSUME Inv, NEW d \in Printers, Printer(d)
  PROVE  /\ TypeOK' /\ SlotsCounted' /\ MutexCounted'
         /\ Queued' = IF PrinterAdvances(d) THEN Queued - 1 ELSE Queued
<1>1. TypeOK /\ SlotsCounted /\ MutexCounted
  BY DEF Inv
<1>2. Reserving \in Nat /\ Posting \in Nat /\ UsersInside \in Nat
  BY UsersCounted DEF Reserving, Posting, UsersInside
<1>3. Reserving' = Reserving /\ Posting' = Posting /\ UsersInside' = UsersInside
  BY DEF Printer, PrinterWaitsFull, PrinterWaitsMutex, PrinterGetsJob, PrinterAdvances,
         PrinterPostsMutex, PrinterPostsEmpty, PrinterPrints, Reserving, Posting, UsersInside,
         UsersAt
<1>4. Queued = SEM_FULL + Posting + Fetching /\ Queued' = SEM_FULL' + Posting' + Fetching'
  BY DEF Queued, Posting, Fetching
<1>5. /\ SEM_FULL \in Nat /\ SEM_EMPTY \in Nat /\ SEM_MUTEX \in Nat /\ MAX_QUEUE \in Nat
      /\ Fetching \in Nat /\ Freeing \in Nat /\ PrintersInside \in Nat
  BY <1>1, ConstantsAssumption, PrintersCounted DEF TypeOK, Fetching, Freeing, PrintersInside
<1>6. Fetching' \in Nat /\ Freeing' \in Nat /\ PrintersInside' \in Nat
  BY PrinterSumsPrimed
<1>7. /\ PrinterSums = <<Fetching, Freeing, PrintersInside>>
      /\ PrinterSums' = <<Fetching', Freeing', PrintersInside'>>
  BY DEF PrinterSums
<1>8. /\ SlotsCounted' /\ MutexCounted' /\ SEM_FULL' \in Nat /\ SEM_EMPTY' \in Nat /\ SEM_MUTEX' \in Nat
      /\ Queued' = IF PrinterAdvances(d) THEN Queued - 1 ELSE Queued
  <2>1. CASE PrinterWaitsFull(d)
    <3>1. /\ ~PrinterAdvances(d) /\ PrinterSums' = <<Fetching + 1, Freeing, PrintersInside>>
          /\ SEM_FULL > 0 /\ SEM_FULL' = SEM_FULL - 1 /\ UNCHANGED <<SEM_MUTEX, SEM_EMPTY>>
      BY <1>1, <2>1, PrinterSumsAfter DEF PrinterWaitsFull, PrinterAdvances, PrinterMoves, sems
    <3>2. Fetching' = Fetching + 1 /\ Freeing' = Freeing /\ PrintersInside' = PrintersInside
      BY <1>7, <3>1
    <3> QED
      BY <1>1, <1>2, <1>3, <1>4, <1>5, <1>6, <3>1, <3>2 DEF SlotsCounted, MutexCounted
  <2>2. CASE PrinterWaitsMutex(d)
    <3>1. /\ ~PrinterAdvances(d) /\ PrinterSums' = <<Fetching, Freeing, PrintersInside + 1>>
          /\ SEM_MUTEX > 0 /\ SEM_MUTEX' = SEM_MUTEX - 1 /\ UNCHANGED <<SEM_FULL, SEM_EMPTY>>
      BY <1>1, <2>2, PrinterSumsAfter DEF PrinterWaitsMutex, PrinterAdvances, PrinterMoves, sems
    <3>2. Fetching' = Fetching /\ Freeing' = Freeing /\ PrintersInside' = PrintersInside + 1
      BY <1>7, <3>1
    <3> QED
      BY <1>1, <1>2, <1>3, <1>4, <1>5, <1>6, <3>1, <3>2 DEF SlotsCounted, MutexCounted
  <2>3. CASE PrinterGetsJob(d)
    <3>1. /\ ~PrinterAdvances(d) /\ PrinterSums' = PrinterSums
          /\ UNCHANGED <<SEM_MUTEX, SEM_FULL, SEM_EMPTY>>
      BY <1>1, <2>3, PrinterSumsAfter DEF PrinterGetsJob, PrinterAdvances, PrinterMoves, sems
    <3>2. Fetching' = Fetching /\ Freeing' = Freeing /\ PrintersInside' = PrintersInside
      BY <1>7, <3>1
    <3> QED
      BY <1>1, <1>2, <1>3, <1>4, <1>5, <1>6, <3>1, <3>2 DEF SlotsCounted, MutexCounted
  <2>4. CASE PrinterAdvances(d)
    <3>1. /\ PrinterSums' = <<Fetching - 1, Freeing + 1, PrintersInside>>
          /\ UNCHANGED <<SEM_MUTEX, SEM_FULL, SEM_EMPTY>>
      BY <1>1, <2>4, PrinterSumsAfter DEF PrinterAdvances, sems
    <3>2. Fetching' = Fetching - 1 /\ Freeing' = Freeing + 1 /\ PrintersInside' = PrintersInside
      BY <1>7, <3>1
    <3> QED
      BY <1>1, <1>2, <1>3, <1>4, <1>5, <1>6, <2>4, <3>1, <3>2 DEF SlotsCounted, MutexCounted
  <2>5. CASE PrinterPostsMutex(d)
    <3>1. /\ ~PrinterAdvances(d) /\ PrinterSums' = <<Fetching, Freeing, PrintersInside - 1>>
          /\ SEM_MUTEX' = SEM_MUTEX + 1 /\ UNCHANGED <<SEM_FULL, SEM_EMPTY>>
      BY <1>1, <2>5, PrinterSumsAfter DEF PrinterPostsMutex, PrinterAdvances, PrinterMoves, sems
    <3>2. Fetching' = Fetching /\ Freeing' = Freeing /\ PrintersInside' = PrintersInside - 1
      BY <1>7, <3>1
    <3> QED
      BY <1>1, <1>2, <1>3, <1>4, <1>5, <1>6, <3>1, <3>2 DEF SlotsCounted, MutexCounted
  <2>6. CASE PrinterPostsEmpty(d)
    <3>1. /\ ~PrinterAdvances(d) /\ PrinterSums' = <<Fetching, Freeing - 1, PrintersInside>>
          /\ SEM_EMPTY' = SEM_EMPTY + 1 /\ UNCHANGED <<SEM_MUTEX, SEM_FULL>>
      BY <1>1, <2>6, PrinterSumsAfter DEF PrinterPostsEmpty, PrinterAdvances, PrinterMoves, sems
    <3>2. Fetching' = Fetching /\ Freeing' = Freeing - 1 /\ PrintersInside' = PrintersInside
      BY <1>7, <3>1
    <3> QED
      BY <1>1, <1>2, <1>3, <1>4, <1>5, <1>6, <3>1, <3>2 DEF SlotsCounted, MutexCounted
  <2>7. CASE PrinterPrints(d)
    <3>1. /\ ~PrinterAdvances(d) /\ PrinterSums' = PrinterSums
          /\ UNCHANGED <<SEM_MUTEX, SEM_FULL, SEM_EMPTY>>
      BY <1>1, <2>7, PrinterSumsAfter DEF PrinterPrints, PrinterAdvances, PrinterMoves, sems
    <3>2. Fetching' = Fetching /\ Freeing' = Freeing /\ PrintersInside' = PrintersInside
      BY <1>7, <3>1
    <3> QED
      BY <1>1, <1>2, <1>3, <1>4, <1>5, <1>6, <3>1, <3>2 DEF SlotsCounted, MutexCounted
  <2> QED
    BY <2>1, <2>2, <2>3, <2>4, <2>5, <2>6, <2>7 DEF Printer
<1>9. TypeOK'
  <2>1. /\ SEM_MUTEX' \in 0 .. 1 /\ SEM_FULL' \in 0 .. MAX_QUEUE /\ SEM_EMPTY' \in 0 .. MAX_QUEUE
    <3>1. /\ SEM_MUTEX' + UsersInside' + PrintersInside' = 1
          /\ SEM_EMPTY' + Reserving' + (SEM_FULL' + Posting' + Fetching') + Freeing' = MAX_QUEUE
      BY <1>4, <1>8 DEF SlotsCounted, MutexCounted
    <3>2. Reserving' \in Nat /\ Posting' \in Nat /\ UsersInside' \in Nat
      BY <1>2, <1>3
    <3>3. SEM_MUTEX' \in Nat /\ SEM_FULL' \in Nat /\ SEM_EMPTY' \in Nat
      BY <1>8
    <3>4. SEM_MUTEX' \in 0 .. 1
      BY <1>6, <3>1, <3>2, <3>3, SummandIn
    <3>5. SEM_EMPTY' \in 0 .. MAX_QUEUE
      BY <1>5, <1>6, <3>1, <3>2, <3>3, SummandsIn
    <3>6. SEM_FULL' \in 0 .. MAX_QUEUE
      BY <1>5, <1>6, <3>1, <3>2, <3>3, SummandsIn
    <3> QED
      BY <3>4, <3>5, <3>6
  <2>2. printer' \in [Printers -> PrinterAt] /\ printerJob' \in [Printers -> Jobs \union {NoJob}]
    BY <1>1
    DEF TypeOK, Printer, PrinterMoves, PrinterAt, PrinterWaitsFull, PrinterWaitsMutex,
        PrinterGetsJob, PrinterAdvances, PrinterPostsMutex, PrinterPostsEmpty, PrinterPrints
  <2>3. jobs' \in [Slots -> Jobs \union {NoJob}] /\ head' \in Slots /\ tail' \in Slots
    BY <1>1, NextSlotIs
    DEF TypeOK, Printer, memory, PrinterWaitsFull, PrinterWaitsMutex, PrinterGetsJob,
        PrinterAdvances, PrinterPostsMutex, PrinterPostsEmpty, PrinterPrints
  <2>4. UNCHANGED <<user, userJob, restarts>>
    BY DEF Printer, PrinterWaitsFull, PrinterWaitsMutex, PrinterGetsJob, PrinterAdvances,
         PrinterPostsMutex, PrinterPostsEmpty, PrinterPrints
  <2> QED
    BY <1>1, <2>1, <2>2, <2>3, <2>4 DEF TypeOK
<1> QED
  BY <1>8, <1>9

(* The printers that have taken a job and not finished with it. *)
LEMMA BusyAfter ==
  ASSUME TypeOK, NEW d \in Printers, Printer(d)
  PROVE  /\ PrinterAdvances(d) => d \notin Busy /\ Busy' = Busy \union {d}
         /\ PrinterPrints(d) => d \in Busy /\ Busy' = Busy \ {d}
         /\ ~PrinterAdvances(d) /\ ~PrinterPrints(d) => Busy' = Busy
BY DEF TypeOK, Busy, PrintersAt, PrinterMoves, Printer, PrinterWaitsFull, PrinterWaitsMutex,
       PrinterGetsJob, PrinterAdvances, PrinterPostsMutex, PrinterPostsEmpty, PrinterPrints

-----------------------------------------------------------------------------
(* The queue is within its bounds, with room left where a user is about to  *)
(* add a job and a job left where a printer is about to take one.           *)
LEMMA QueueBounds ==
  ASSUME Inv
  PROVE  /\ Queued \in 0 .. MAX_QUEUE
         /\ \A u \in Users : user[u] \in {"waitMutex", "copy", "advance"} => Queued < MAX_QUEUE
         /\ \A d \in Printers : printer[d] \in {"waitMutex", "get", "advance"} => Queued > 0
<1>1. /\ Reserving \in Nat /\ Posting \in Nat
      /\ \A u \in Users : user[u] \in {"waitMutex", "copy", "advance"} => Reserving >= 1
  BY UsersCounted DEF Reserving, Posting
<1>2. /\ Fetching \in Nat /\ Freeing \in Nat
      /\ \A d \in Printers : printer[d] \in {"waitMutex", "get", "advance"} => Fetching >= 1
  BY PrintersCounted DEF Fetching, Freeing
<1>3. SEM_FULL \in Nat /\ SEM_EMPTY \in Nat /\ MAX_QUEUE \in Nat
  BY ConstantsAssumption DEF Inv, TypeOK
<1>4. SEM_EMPTY + Reserving + Queued + Freeing = MAX_QUEUE
  BY DEF Inv, SlotsCounted
<1>5. Queued = SEM_FULL + Posting + Fetching
  BY QueuedIs
<1> QED
  BY <1>1, <1>2, <1>3, <1>4, <1>5

(* The process inside is alone. *)
LEMMA Alone ==
  ASSUME MutexCounted, SEM_MUTEX \in Nat
  PROVE  /\ UsersInside + PrintersInside <= 1
         /\ \A u, v \in Users : /\ user[u] \in {"copy", "advance", "postMutex"}
                               /\ user[v] \in {"copy", "advance", "postMutex"} => u = v
         /\ \A u \in Users, d \in Printers :
              ~ /\ user[u] \in {"copy", "advance", "postMutex"}
                /\ printer[d] \in {"get", "advance", "postMutex"}
<1>1. /\ UsersInside \in Nat
      /\ \A u \in Users : user[u] \in {"copy", "advance", "postMutex"} => UsersInside >= 1
      /\ UsersInside <= 1
           => \A u, v \in Users : /\ user[u] \in {"copy", "advance", "postMutex"}
                               /\ user[v] \in {"copy", "advance", "postMutex"} => u = v
  BY UsersCounted DEF UsersInside
<1>2. /\ PrintersInside \in Nat
      /\ \A d \in Printers : printer[d] \in {"get", "advance", "postMutex"} => PrintersInside >= 1
  BY PrintersCounted DEF PrintersInside
<1> QED
  BY <1>1, <1>2 DEF MutexCounted

-----------------------------------------------------------------------------
(* What a step of a user does to the queue. *)
LEMMA UserQueue ==
  ASSUME Inv, NEW u \in Users, User(u)
  PROVE  /\ UserAdvances(u) => /\ Queued < MAX_QUEUE /\ userJob[u] \in Jobs
                               /\ Pending' = Append(Pending, userJob[u])
         /\ ~UserAdvances(u) => Pending' = Pending
<1>1. TypeOK /\ Pending \in Seq(Jobs) /\ UsersHoldJobs /\ CopiedToTail
  BY DEF Inv, QueueHoldsJobs
<1>2. tail \in Slots /\ jobs \in [Slots -> Jobs \union {NoJob}]
  BY <1>1 DEF TypeOK
<1>3. Queued \in 0 .. MAX_QUEUE /\ MAX_QUEUE \in Nat \ {0}
  BY QueueBounds, ConstantsAssumption
<1>4. Queued' = IF UserAdvances(u) THEN Queued + 1 ELSE Queued
  BY UserCountsKept
<1>5. Pending = [i \in 1 .. Queued |-> jobs[Slot(tail, Queued, i)]]
  BY PendingIs
<1>6. Pending' = [i \in 1 .. Queued' |-> jobs'[Slot(tail', Queued', i)]]
  BY PendingIsPrimed
<1>7. CASE UserAdvances(u)
  <2>1. user[u] = "advance" /\ tail' = NextSlot(tail) /\ jobs' = jobs
    BY <1>7 DEF UserAdvances, UserMoves
  <2>2. Queued < MAX_QUEUE
    BY <2>1, QueueBounds
  <2>3. userJob[u] \in Jobs /\ jobs[tail] = userJob[u]
    BY <1>1, <2>1 DEF UsersHoldJobs, CopiedToTail
  <2>4. Queued \in 0 .. MAX_QUEUE - 1
    BY <1>3, <2>2
  <2>5. ASSUME NEW i \in 1 .. Queued + 1
        PROVE  Slot(NextSlot(tail), Queued + 1, i) = IF i = Queued + 1 THEN tail ELSE Slot(tail, Queued, i)
    BY <1>2, <2>4, SlotAdded
  <2>6. Pending' =
          [i \in 1 .. Queued + 1 |-> IF i = Queued + 1 THEN userJob[u] ELSE jobs[Slot(tail, Queued, i)]]
    BY <1>4, <1>6, <1>7, <2>1, <2>3, <2>5
  <2>7. Append(Pending, userJob[u]) =
          [i \in 1 .. Queued + 1 |-> IF i = Queued + 1 THEN userJob[u] ELSE jobs[Slot(tail, Queued, i)]]
    BY <1>1, <1>3, <1>5, <2>3
  <2> QED
    BY <1>7, <2>2, <2>3, <2>6, <2>7
<1>8. CASE UserCopies(u)
  <2>1. /\ user[u] = "copy" /\ tail' = tail /\ jobs' = [jobs EXCEPT ![tail] = userJob[u]]
        /\ ~UserAdvances(u)
    BY <1>8 DEF UserCopies, UserAdvances, UserMoves
  <2>2. Queued < MAX_QUEUE
    BY <2>1, QueueBounds
  <2>3. Queued \in 0 .. MAX_QUEUE - 1
    BY <1>3, <2>2
  <2>4. ASSUME NEW i \in 1 .. Queued
        PROVE  Slot(tail, Queued, i) \in Slots /\ Slot(tail, Queued, i) # tail
    BY <1>2, <1>3, <2>3, SlotIn, SlotBehind
  <2>5. \A i \in 1 .. Queued : jobs'[Slot(tail, Queued, i)] = jobs[Slot(tail, Queued, i)]
    BY <1>2, <2>1, <2>4
  <2> QED
    BY <1>4, <1>5, <1>6, <2>1, <2>5
<1>9. CASE ~UserAdvances(u) /\ ~UserCopies(u)
  <2>1. tail' = tail /\ jobs' = jobs
    BY <1>9
    DEF User, UserGenerates, UserWaitsEmpty, UserWaitsMutex, UserPostsMutex, UserPostsFull, memory
  <2> QED
    BY <1>4, <1>5, <1>6, <1>9, <2>1
<1> QED
  BY <1>7, <1>8, <1>9

(* And a step of a printer. *)
LEMMA PrinterQueue ==
  ASSUME Inv, NEW d \in Printers, Printer(d)
  PROVE  /\ PrinterAdvances(d) => Queued > 0 /\ Pending # <<>> /\ Pending' = Tail(Pending)
         /\ ~PrinterAdvances(d) => Pending' = Pending
<1>1. Pending \in Seq(Jobs)
  BY DEF Inv, QueueHoldsJobs
<1>2. tail \in Int /\ tail' = tail /\ jobs' = jobs
  BY DEF Inv, TypeOK, Slots, Printer, memory, PrinterWaitsFull, PrinterWaitsMutex, PrinterGetsJob,
         PrinterAdvances, PrinterPostsMutex, PrinterPostsEmpty, PrinterPrints
<1>3. Queued \in Nat
  BY QueueBounds, ConstantsAssumption
<1>4. Queued' = IF PrinterAdvances(d) THEN Queued - 1 ELSE Queued
  BY PrinterCountsKept
<1>5. Pending = [i \in 1 .. Queued |-> jobs[Slot(tail, Queued, i)]]
  BY PendingIs
<1>6. Pending' = [i \in 1 .. Queued' |-> jobs'[Slot(tail', Queued', i)]]
  BY PendingIsPrimed
<1>7. CASE PrinterAdvances(d)
  <2>1. printer[d] = "advance"
    BY <1>7 DEF PrinterAdvances, PrinterMoves
  <2>2. Queued > 0
    BY <2>1, QueueBounds
  <2>3. Len(Pending) = Queued
    BY <1>1, <1>3, <1>5
  <2>4. ASSUME NEW i \in 1 .. Queued - 1 PROVE Slot(tail, Queued - 1, i) = Slot(tail, Queued, i + 1)
    BY <1>2, <1>3, SlotTaken
  <2>5. Pending' = [i \in 1 .. Queued - 1 |-> jobs[Slot(tail, Queued, i + 1)]]
    BY <1>2, <1>4, <1>6, <1>7, <2>4
  <2>6. Tail(Pending) = [i \in 1 .. Queued - 1 |-> jobs[Slot(tail, Queued, i + 1)]]
    BY <1>1, <1>3, <1>5, <2>2, <2>3
  <2>7. Pending # <<>>
    BY <2>2, <2>3
  <2> QED
    BY <1>7, <2>2, <2>5, <2>6, <2>7
<1>8. CASE ~PrinterAdvances(d)
  BY <1>2, <1>4, <1>5, <1>6, <1>8
<1> QED
  BY <1>7, <1>8

(* Its length is the count. *)
LEMMA PendingLength == ASSUME Inv PROVE Len(Pending) = Queued
<1>1. Queued \in Nat
  BY QueueBounds, ConstantsAssumption
<1> QED
  BY <1>1, PendingIs DEF Inv, QueueHoldsJobs

-----------------------------------------------------------------------------
(* The invariant is kept by a user: the slot it writes is behind the queue,  *)
(* and no other user has a copy of its own there.                           *)
LEMMA UserInv == ASSUME Inv, NEW u \in Users, User(u) PROVE Inv'
<1>1. TypeOK /\ Pending \in Seq(Jobs) /\ UsersHoldJobs /\ CopiedToTail /\ MutexCounted
  BY DEF Inv, QueueHoldsJobs
<1>2. TypeOK' /\ SlotsCounted' /\ MutexCounted'
  BY UserCountsKept
<1>3. QueueHoldsJobs'
  <2>1. Pending' = Pending \/ (userJob[u] \in Jobs /\ Pending' = Append(Pending, userJob[u]))
    BY UserQueue
  <2> QED
    BY <1>1, <2>1 DEF QueueHoldsJobs
<1>4. UsersHoldJobs'
  BY <1>1
  DEF TypeOK, UsersHoldJobs, User, UserMoves, UserGenerates, UserWaitsEmpty, UserWaitsMutex, UserCopies,
      UserAdvances, UserPostsMutex, UserPostsFull
<1>5. CopiedToTail'
  <2>1. user' \in [Users -> UserAt] /\ userJob \in [Users -> Jobs \union {NoJob}]
    BY <1>1, <1>2 DEF TypeOK
  <2>2. CASE UserCopies(u) \/ UserAdvances(u)
    <3>1. \A v \in Users : user[v] = "advance" => v = u
      <4>1. SEM_MUTEX \in Nat /\ user[u] \in {"copy", "advance", "postMutex"}
        BY <1>1, <2>2 DEF TypeOK, UserCopies, UserAdvances, UserMoves
      <4>2. \A v \in Users : user[v] \in {"copy", "advance", "postMutex"} => v = u
        BY <1>1, <4>1, Alone
      <4> QED
        BY <4>2
    <3> QED
      BY <1>1, <2>1, <2>2, <3>1
      DEF TypeOK, CopiedToTail, UserCopies, UserAdvances, UserMoves
  <2>3. CASE ~(UserCopies(u) \/ UserAdvances(u))
    <3>1. jobs' = jobs /\ tail' = tail
      BY <2>3
      DEF User, UserGenerates, UserWaitsEmpty, UserWaitsMutex, UserPostsMutex, UserPostsFull, memory
    <3>2. \A v \in Users : user'[v] = "advance" => user[v] = "advance" /\ userJob'[v] = userJob[v]
      BY <1>1, <2>3
      DEF TypeOK, User, UserMoves, UserGenerates, UserWaitsEmpty, UserWaitsMutex, UserPostsMutex,
          UserPostsFull
    <3> QED
      BY <1>1, <3>1, <3>2 DEF CopiedToTail
  <2> QED
    BY <2>2, <2>3
<1> QED
  BY <1>2, <1>3, <1>4, <1>5 DEF Inv

(* By a printer too, which writes to no slot and advances only head. *)
LEMMA PrinterInv == ASSUME Inv, NEW d \in Printers, Printer(d) PROVE Inv'
<1>1. TypeOK' /\ SlotsCounted' /\ MutexCounted'
  BY PrinterCountsKept
<1>2. QueueHoldsJobs'
  <2>1. Pending \in Seq(Jobs)
    BY DEF Inv, QueueHoldsJobs
  <2>2. Pending' = Pending \/ (Pending # <<>> /\ Pending' = Tail(Pending))
    BY PrinterQueue
  <2> QED
    BY <2>1, <2>2 DEF QueueHoldsJobs
<1>3. UNCHANGED <<jobs, tail, user, userJob>>
  BY DEF Printer, memory, PrinterWaitsFull, PrinterWaitsMutex, PrinterGetsJob, PrinterAdvances,
      PrinterPostsMutex, PrinterPostsEmpty, PrinterPrints
<1>4. UsersHoldJobs' /\ CopiedToTail'
  BY <1>3 DEF Inv, UsersHoldJobs, CopiedToTail
<1> QED
  BY <1>1, <1>2, <1>4 DEF Inv

(* A step that changes nothing changes none of the quantities above. *)
LEMMA StutterInv ==
  ASSUME Inv, UNCHANGED vars
  PROVE  Inv' /\ Pending' = Pending /\ Busy' = Busy /\ HeadLag' = HeadLag
<1>1. UNCHANGED <<jobs, head, tail, SEM_MUTEX, SEM_FULL, SEM_EMPTY, user, userJob, printer, printerJob, restarts>>
  BY DEF vars, memory, sems
<1>2. Queued' = Queued
  BY <1>1 DEF Queued, UsersAt, PrintersAt
<1>3. Pending' = Pending /\ Busy' = Busy /\ HeadLag' = HeadLag
  BY <1>1, <1>2 DEF Pending, Busy, PrintersAt, HeadLag
<1>4. TypeOK' /\ QueueHoldsJobs' /\ UsersHoldJobs' /\ CopiedToTail'
  BY <1>1, <1>3 DEF Inv, TypeOK, QueueHoldsJobs, UsersHoldJobs, CopiedToTail
<1>5. SlotsCounted' /\ MutexCounted'
  BY <1>1, <1>2
  DEF Inv, SlotsCounted, MutexCounted, Reserving, Freeing, UsersInside, PrintersInside, UsersAt, PrintersAt
<1> QED
  BY <1>3, <1>4, <1>5 DEF Inv

(* So the invariant is inductive, *)
LEMMA NextInv == Inv /\ [Next]_vars => Inv'
<1> SUFFICES ASSUME Inv, [Next]_vars PROVE Inv'
  OBVIOUS
<1>1. ASSUME NEW u \in Users, User(u) PROVE Inv'
  BY <1>1, UserInv
<1>2. ASSUME NEW d \in Printers, Printer(d) PROVE Inv'
  BY <1>2, PrinterInv
<1>3. CASE Restart
  BY <1>3, RestartInv
<1>4. CASE UNCHANGED vars
  BY <1>4, StutterInv
<1> QED
  BY <1>1, <1>2, <1>3, <1>4 DEF Next

(* and it always holds. *)
LEMMA InvHolds == Spec => []Inv
BY InitInv, NextInv, PTL DEF Spec

-----------------------------------------------------------------------------
(* Every semaphore stays within its bounds, head and tail stay in the ring,  *)
(* and no process holds what is not a job.                                  *)
THEOREM TypeCorrect == Spec => []TypeOK
<1>1. Inv => TypeOK
  BY DEF Inv
<1> QED
  BY <1>1, InvHolds, PTL

(* SEM_MUTEX lets one process at a time touch the queue, across restarts     *)
(* that kill the one inside.                                                *)
THEOREM Excluded == Spec => []MutualExclusion
<1>1. Inv => MutualExclusion
  <2> SUFFICES ASSUME Inv PROVE MutualExclusion
    OBVIOUS
  <2>1. SEM_MUTEX \in Nat
    BY DEF Inv, TypeOK
  <2>2. UsersInside + PrintersInside <= 1
    BY <2>1, Alone DEF Inv
  <2> QED
    BY <2>2 DEF MutualExclusion, UsersInside, PrintersInside
<1> QED
  BY <1>1, InvHolds, PTL

-----------------------------------------------------------------------------
(* Deadlock: each process waits for a semaphore that is at zero. *)
AllBlocked ==
  /\ \A u \in Users : \/ user[u] = "waitEmpty" /\ SEM_EMPTY = 0
                      \/ user[u] = "waitMutex" /\ SEM_MUTEX = 0
  /\ \A d \in Printers : \/ printer[d] = "waitFull" /\ SEM_FULL = 0
                         \/ printer[d] = "waitMutex" /\ SEM_MUTEX = 0

(* With nobody inside, SEM_MUTEX is not zero; then users that all wait have   *)
(* filled the queue, and printers that all wait have emptied it.              *)
LEMMA SomebodyPasses == ASSUME Users # {}, Printers # {}, Inv PROVE ~AllBlocked
<1> SUFFICES ASSUME AllBlocked PROVE FALSE
  OBVIOUS
<1>1. Cardinality({}) = 0
  BY FS_EmptySet
<1>2. /\ UsersAt({"copy", "advance", "postMutex"}) = {}
      /\ PrintersAt({"get", "advance", "postMutex"}) = {}
  BY DEF AllBlocked, UsersAt, PrintersAt
<1>3. UsersInside = 0 /\ PrintersInside = 0
  BY <1>1, <1>2 DEF UsersInside, PrintersInside
<1>4. SEM_MUTEX = 1
  BY <1>3 DEF Inv, MutexCounted, TypeOK
<1>5. /\ \A u \in Users : user[u] = "waitEmpty" /\ SEM_EMPTY = 0
      /\ \A d \in Printers : printer[d] = "waitFull" /\ SEM_FULL = 0
  BY <1>4 DEF AllBlocked
<1>6. /\ UsersAt({"waitMutex", "copy", "advance"}) = {} /\ UsersAt({"postMutex", "postFull"}) = {}
      /\ PrintersAt({"waitMutex", "get", "advance"}) = {} /\ PrintersAt({"postMutex", "postEmpty"}) = {}
  BY <1>5 DEF UsersAt, PrintersAt
<1>7. Reserving = 0 /\ Posting = 0 /\ Fetching = 0 /\ Freeing = 0
  BY <1>1, <1>6 DEF Reserving, Posting, Fetching, Freeing
<1>8. SEM_EMPTY = 0 /\ SEM_FULL = 0
  BY <1>5
<1>9. MAX_QUEUE = 0
  BY <1>7, <1>8, QueuedIs DEF Inv, SlotsCounted
<1> QED
  BY <1>9, ConstantsAssumption DEF ConstantsAssumption

(* The three semaphores, taken in the order of zad1.c:49-59 and 69-78, never  *)
(* stop all users and all printers at once, wherever a restart came.          *)
THEOREM NeverAllBlocked == ASSUME Users # {}, Printers # {} PROVE Spec => []~AllBlocked
<1>1. Inv => ~AllBlocked
  BY SomebodyPasses
<1> QED
  BY <1>1, InvHolds, PTL

-----------------------------------------------------------------------------
(* A step of a user that adds a job, and one of a printer that takes one,    *)
(* leave head as far from the oldest queued job as it was.                  *)
LEMMA UserLag == ASSUME Inv, NEW u \in Users, User(u) PROVE HeadLag' = HeadLag
<1>1. TypeOK /\ head' = head
  BY DEF Inv, User, memory, UserGenerates, UserWaitsEmpty, UserWaitsMutex, UserCopies,
      UserAdvances, UserPostsMutex, UserPostsFull
<1>2. /\ head \in Slots /\ tail \in Slots /\ MAX_QUEUE \in Nat \ {0}
      /\ Queued \in 0 .. MAX_QUEUE
  BY <1>1, QueueBounds, ConstantsAssumption DEF TypeOK
<1>3. Queued' = IF UserAdvances(u) THEN Queued + 1 ELSE Queued
  BY UserCountsKept
<1>4. HeadLag' = (tail' - Queued' - head') % MAX_QUEUE /\ HeadLag = (tail - Queued - head) % MAX_QUEUE
  BY DEF HeadLag
<1>5. CASE UserAdvances(u)
  <2>1. user[u] = "advance" /\ tail' = NextSlot(tail)
    BY <1>5 DEF UserAdvances, UserMoves
  <2>2. Queued < MAX_QUEUE
    BY <2>1, QueueBounds
  <2>3. tail' = IF tail = MAX_QUEUE - 1 THEN 0 ELSE tail + 1
    BY <1>2, <2>1, NextSlotIs
  <2>4. CASE tail = MAX_QUEUE - 1
    <3>1. tail' - Queued' - head' = (tail - Queued - head) - MAX_QUEUE
      BY <1>1, <1>2, <1>3, <1>5, <2>3, <2>4 DEF Slots
    <3>2. tail - Queued - head \in -MAX_QUEUE + 1 .. MAX_QUEUE - 1
      BY <1>2, <2>2, <2>4 DEF Slots
    <3> QED
      BY <1>2, <1>4, <3>1, <3>2, ModTurn
  <2>5. CASE tail # MAX_QUEUE - 1
    <3>1. tail' - Queued' - head' = tail - Queued - head
      BY <1>1, <1>2, <1>3, <1>5, <2>3, <2>5 DEF Slots
    <3> QED
      BY <1>4, <3>1
  <2> QED
    BY <2>4, <2>5
<1>6. CASE ~UserAdvances(u)
  <2>1. tail' = tail
    BY <1>6 DEF User, memory, UserGenerates, UserWaitsEmpty, UserWaitsMutex, UserCopies,
      UserAdvances, UserPostsMutex, UserPostsFull
  <2> QED
    BY <1>1, <1>3, <1>4, <1>6, <2>1
<1> QED
  BY <1>5, <1>6

(* The same for the printer. *)
LEMMA PrinterLag == ASSUME Inv, NEW d \in Printers, Printer(d) PROVE HeadLag' = HeadLag
<1>1. TypeOK /\ tail' = tail
  BY DEF Inv, Printer, memory, PrinterWaitsFull, PrinterWaitsMutex, PrinterGetsJob, PrinterAdvances,
      PrinterPostsMutex, PrinterPostsEmpty, PrinterPrints
<1>2. /\ head \in Slots /\ tail \in Slots /\ MAX_QUEUE \in Nat \ {0}
      /\ Queued \in 0 .. MAX_QUEUE
  BY <1>1, QueueBounds, ConstantsAssumption DEF TypeOK
<1>3. Queued' = IF PrinterAdvances(d) THEN Queued - 1 ELSE Queued
  BY PrinterCountsKept
<1>4. HeadLag' = (tail' - Queued' - head') % MAX_QUEUE /\ HeadLag = (tail - Queued - head) % MAX_QUEUE
  BY DEF HeadLag
<1>5. CASE PrinterAdvances(d)
  <2>1. printer[d] = "advance" /\ head' = NextSlot(head)
    BY <1>5 DEF PrinterAdvances, PrinterMoves
  <2>2. Queued > 0
    BY <2>1, QueueBounds
  <2>3. head' = IF head = MAX_QUEUE - 1 THEN 0 ELSE head + 1
    BY <1>2, <2>1, NextSlotIs
  <2>4. CASE head = MAX_QUEUE - 1
    <3> DEFINE y == tail' - Queued' - head'
    <3>1. tail - Queued - head = y - MAX_QUEUE
      BY <1>1, <1>2, <1>3, <1>5, <2>3, <2>4 DEF Slots
    <3>2. y \in -MAX_QUEUE + 1 .. MAX_QUEUE - 1
      BY <1>1, <1>2, <1>3, <1>5, <2>2, <2>3, <2>4 DEF Slots
    <3> HIDE DEF y
    <3>3. (y - MAX_QUEUE) % MAX_QUEUE = y % MAX_QUEUE
      BY <1>2, <3>2, ModTurn
    <3> QED
      BY <1>4, <3>1, <3>3 DEF y
  <2>5. CASE head # MAX_QUEUE - 1
    <3>1. tail' - Queued' - head' = tail - Queued - head
      BY <1>1, <1>2, <1>3, <1>5, <2>3, <2>5 DEF Slots
    <3> QED
      BY <1>4, <3>1
  <2> QED
    BY <2>4, <2>5
<1>6. CASE ~PrinterAdvances(d)
  <2>1. head' = head
    BY <1>6 DEF Printer, memory, PrinterWaitsFull, PrinterWaitsMutex, PrinterGetsJob, PrinterAdvances,
      PrinterPostsMutex, PrinterPostsEmpty, PrinterPrints
  <2> QED
    BY <1>1, <1>3, <1>4, <1>6, <2>1
<1> QED
  BY <1>5, <1>6

(* Only a restart moves head and tail apart. *)
THEOREM HeadInPace == Spec => HeadKeepsPace
<1>1. Inv /\ [Next]_vars => [restarts' = restarts => HeadLag' = HeadLag]_vars
  <2> SUFFICES ASSUME Inv, [Next]_vars, restarts' = restarts PROVE HeadLag' = HeadLag
    OBVIOUS
  <2>1. ASSUME NEW u \in Users, User(u) PROVE HeadLag' = HeadLag
    BY <2>1, UserLag
  <2>2. ASSUME NEW d \in Printers, Printer(d) PROVE HeadLag' = HeadLag
    BY <2>2, PrinterLag
  <2>3. ~Restart
    BY DEF Inv, TypeOK, Restart
  <2>4. CASE UNCHANGED vars
    BY <2>4, StutterInv
  <2> QED
    BY <2>1, <2>2, <2>3, <2>4 DEF Next
<1> QED
  BY <1>1, InvHolds, PTL DEF Spec, HeadKeepsPace

-----------------------------------------------------------------------------
(* A step of the program is a step of the spooler or leaves it as it is.  A  *)
(* user sends its job when it advances tail.                                *)
LEMMA UserSends == ASSUME Inv, NEW u \in Users, User(u) PROVE [Spooled!Next]_Spooled!vars
<1>1. Busy' = Busy /\ Len(Pending) = Queued
  BY UserCountsKept, PendingLength
<1>2. CASE UserAdvances(u)
  <2>1. Queued < MAX_QUEUE /\ userJob[u] \in Jobs /\ Pending' = Append(Pending, userJob[u])
    BY <1>2, UserQueue
  <2>2. Spooled!Send
    BY <1>1, <2>1 DEF Spooled!Send
  <2> QED
    BY <2>2 DEF Spooled!Next
<1>3. CASE ~UserAdvances(u)
  <2>1. Pending' = Pending
    BY <1>3, UserQueue
  <2> QED
    BY <1>1, <2>1 DEF Spooled!vars
<1> QED
  BY <1>2, <1>3

(* A printer takes a job when it advances head and finishes when it has printed. *)
LEMMA PrinterTakes == ASSUME Inv, NEW d \in Printers, Printer(d) PROVE [Spooled!Next]_Spooled!vars
<1>1. TypeOK
  BY DEF Inv
<1>2. /\ PrinterAdvances(d) => d \notin Busy /\ Busy' = Busy \union {d}
      /\ PrinterPrints(d) => d \in Busy /\ Busy' = Busy \ {d}
      /\ ~PrinterAdvances(d) /\ ~PrinterPrints(d) => Busy' = Busy
  BY <1>1, BusyAfter
<1>3. CASE PrinterAdvances(d)
  <2>1. Pending # <<>> /\ Pending' = Tail(Pending)
    BY <1>3, PrinterQueue
  <2>2. Spooled!Take(d)
    BY <1>2, <1>3, <2>1 DEF Spooled!Take
  <2> QED
    BY <2>2 DEF Spooled!Next
<1>4. CASE PrinterPrints(d)
  <2>1. ~PrinterAdvances(d)
    BY <1>4 DEF PrinterPrints, PrinterAdvances, PrinterMoves
  <2>2. Spooled!Finish(d)
    BY <1>2, <1>4, <2>1, PrinterQueue DEF Spooled!Finish
  <2> QED
    BY <2>2 DEF Spooled!Next
<1>5. CASE ~PrinterAdvances(d) /\ ~PrinterPrints(d)
  BY <1>2, <1>5, PrinterQueue DEF Spooled!vars
<1> QED
  BY <1>3, <1>4, <1>5

(* The ring, the semaphores and the processes are a bounded first-in         *)
(* first-out queue, whichever way the processes interleave and wherever a   *)
(* restart finds them.                                                      *)
THEOREM ImplementsSpooler == Spec => IsSpooler
<1>1. Init => Spooled!Init
  <2> SUFFICES ASSUME Init PROVE Spooled!Init
    OBVIOUS
  <2>1. Queued = 0 /\ Busy = {}
    BY ConstantsAssumption, NobodyCounted, QueuedIs DEF Init
  <2> QED
    BY <2>1, NoPending DEF Spooled!Init
<1>2. Inv /\ [Next]_vars => [Spooled!Next]_Spooled!vars
  <2> SUFFICES ASSUME Inv, [Next]_vars PROVE [Spooled!Next]_Spooled!vars
    OBVIOUS
  <2>1. ASSUME NEW u \in Users, User(u) PROVE [Spooled!Next]_Spooled!vars
    BY <2>1, UserSends
  <2>2. ASSUME NEW d \in Printers, Printer(d) PROVE [Spooled!Next]_Spooled!vars
    BY <2>2, PrinterTakes
  <2>3. CASE Restart
    <3>1. Spooled!Restart
      BY <2>3, RestartInv, NoPendingPrimed DEF Spooled!Restart
    <3> QED
      BY <3>1 DEF Spooled!Next
  <2>4. CASE UNCHANGED vars
    BY <2>4, StutterInv DEF Spooled!vars
  <2> QED
    BY <2>1, <2>2, <2>3, <2>4 DEF Next
<1> QED
  BY <1>1, <1>2, InvHolds, PTL DEF Spec, IsSpooler, Spooled!Spec

=============================================================================
