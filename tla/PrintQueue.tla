----------------------------- MODULE PrintQueue -----------------------------
(***************************************************************************)
(* Lab 8/zad1.c: users and printers are processes that share a ring of     *)
(* jobs in a System V shared memory segment and three System V semaphores. *)
(*                                                                         *)
(* A step is one semop, or what a process does to the shared memory        *)
(* between two.  The segment and its head and tail outlive the program,    *)
(* which never removes them; a start of the program resets only the        *)
(* semaphores.  The ten characters of a job are one value.                 *)
(*                                                                         *)
(* An operator X_Fault stands before the operator X of which it is a       *)
(* faulty version; nothing uses it, the properties are tried against it.   *)
(***************************************************************************)
EXTENDS Integers, Sequences, FiniteSets

CONSTANTS
  Users, Printers,   \* the forked processes
  Jobs,              \* the texts that can be sent
  NoJob,             \* a job variable that holds nothing yet
  MAX_QUEUE,
  MaxRestarts        \* bound: how often the program is stopped and started

ASSUME ConstantsAssumption ==
  /\ IsFiniteSet(Users) /\ IsFiniteSet(Printers)
  /\ NoJob \notin Jobs
  /\ MAX_QUEUE \in Nat \ {0}
  /\ MaxRestarts \in Nat

VARIABLES
  jobs, head, tail,                \* the shared memory
  SEM_MUTEX, SEM_FULL, SEM_EMPTY,  \* the semaphores
  user, userJob,                   \* where each user is, and its local job
  printer, printerJob,             \* the same of each printer
  restarts

memory == <<jobs, head, tail>>
sems == <<SEM_MUTEX, SEM_FULL, SEM_EMPTY>>
vars == <<memory, sems, user, userJob, printer, printerJob, restarts>>

Slots == 0 .. MAX_QUEUE - 1

UserAt == {"generate", "waitEmpty", "waitMutex", "copy", "advance", "postMutex", "postFull"}
PrinterAt == {"waitFull", "waitMutex", "get", "advance", "postMutex", "postEmpty", "printing"}

UsersAt(S) == {u \in Users : user[u] \in S}
PrintersAt(S) == {d \in Printers : printer[d] \in S}

(* Line 56 and line 75. *)
NextSlot_TooFar(i) == (i + 1) % (MAX_QUEUE + 1)
NextSlot(i) == (i + 1) % MAX_QUEUE

-----------------------------------------------------------------------------
(* user *)

UserMoves(u, from, to) == user[u] = from /\ user' = [user EXCEPT ![u] = to]

UserGenerates(u) ==
  /\ UserMoves(u, "generate", "waitEmpty")
  /\ \E j \in Jobs : userJob' = [userJob EXCEPT ![u] = j]
  /\ UNCHANGED <<memory, sems, printer, printerJob, restarts>>

UserWaitsEmpty_NoWait(u) ==
  /\ UserMoves(u, "waitEmpty", "waitMutex")
  /\ SEM_EMPTY' = IF SEM_EMPTY > 0 THEN SEM_EMPTY - 1 ELSE 0
  /\ UNCHANGED <<memory, SEM_MUTEX, SEM_FULL, userJob, printer, printerJob, restarts>>

UserWaitsEmpty(u) ==
  /\ UserMoves(u, "waitEmpty", "waitMutex")
  /\ SEM_EMPTY > 0
  /\ SEM_EMPTY' = SEM_EMPTY - 1
  /\ UNCHANGED <<memory, SEM_MUTEX, SEM_FULL, userJob, printer, printerJob, restarts>>

UserWaitsMutex(u) ==
  /\ UserMoves(u, "waitMutex", "copy")
  /\ SEM_MUTEX > 0
  /\ SEM_MUTEX' = SEM_MUTEX - 1
  /\ UNCHANGED <<memory, SEM_FULL, SEM_EMPTY, userJob, printer, printerJob, restarts>>

UserCopies(u) ==
  /\ UserMoves(u, "copy", "advance")
  /\ jobs' = [jobs EXCEPT ![tail] = userJob[u]]
  /\ UNCHANGED <<head, tail, sems, userJob, printer, printerJob, restarts>>

UserAdvances(u) ==
  /\ UserMoves(u, "advance", "postMutex")
  /\ tail' = NextSlot(tail)
  /\ UNCHANGED <<jobs, head, sems, userJob, printer, printerJob, restarts>>

UserPostsMutex(u) ==
  /\ UserMoves(u, "postMutex", "postFull")
  /\ SEM_MUTEX' = SEM_MUTEX + 1
  /\ UNCHANGED <<memory, SEM_FULL, SEM_EMPTY, userJob, printer, printerJob, restarts>>

(* Then it sleeps; the job is out of scope. *)
UserPostsFull_Empty(u) ==
  /\ UserMoves(u, "postFull", "generate")
  /\ SEM_EMPTY' = SEM_EMPTY + 1
  /\ userJob' = [userJob EXCEPT ![u] = NoJob]
  /\ UNCHANGED <<memory, SEM_MUTEX, SEM_FULL, printer, printerJob, restarts>>

UserPostsFull(u) ==
  /\ UserMoves(u, "postFull", "generate")
  /\ SEM_FULL' = SEM_FULL + 1
  /\ userJob' = [userJob EXCEPT ![u] = NoJob]
  /\ UNCHANGED <<memory, SEM_MUTEX, SEM_EMPTY, printer, printerJob, restarts>>

User(u) ==
  \/ UserGenerates(u) \/ UserWaitsEmpty(u) \/ UserWaitsMutex(u)
  \/ UserCopies(u) \/ UserAdvances(u) \/ UserPostsMutex(u) \/ UserPostsFull(u)

-----------------------------------------------------------------------------
(* printer *)

PrinterMoves(d, from, to) == printer[d] = from /\ printer' = [printer EXCEPT ![d] = to]

PrinterWaitsFull(d) ==
  /\ PrinterMoves(d, "waitFull", "waitMutex")
  /\ SEM_FULL > 0
  /\ SEM_FULL' = SEM_FULL - 1
  /\ UNCHANGED <<memory, SEM_MUTEX, SEM_EMPTY, user, userJob, printerJob, restarts>>

PrinterWaitsMutex_First(d) ==
  /\ PrinterMoves(d, "waitMutex", "get")
  /\ SEM_MUTEX' = IF SEM_MUTEX > 0 THEN SEM_MUTEX - 1 ELSE 0
  /\ UNCHANGED <<memory, SEM_FULL, SEM_EMPTY, user, userJob, printerJob, restarts>>

PrinterWaitsMutex(d) ==
  /\ PrinterMoves(d, "waitMutex", "get")
  /\ SEM_MUTEX > 0
  /\ SEM_MUTEX' = SEM_MUTEX - 1
  /\ UNCHANGED <<memory, SEM_FULL, SEM_EMPTY, user, userJob, printerJob, restarts>>

(* get_job does not read the queue: it makes up a job of its own. *)
PrinterGetsJob(d) ==
  /\ PrinterMoves(d, "get", "advance")
  /\ \E j \in Jobs : printerJob' = [printerJob EXCEPT ![d] = j]
  /\ UNCHANGED <<memory, sems, user, userJob, restarts>>

PrinterAdvances(d) ==
  /\ PrinterMoves(d, "advance", "postMutex")
  /\ head' = NextSlot(head)
  /\ UNCHANGED <<jobs, tail, sems, user, userJob, printerJob, restarts>>

PrinterPostsMutex(d) ==
  /\ PrinterMoves(d, "postMutex", "postEmpty")
  /\ SEM_MUTEX' = SEM_MUTEX + 1
  /\ UNCHANGED <<memory, SEM_FULL, SEM_EMPTY, user, userJob, printerJob, restarts>>

PrinterPostsEmpty_Forgets(d) ==
  /\ PrinterMoves(d, "postEmpty", "printing")
  /\ UNCHANGED <<memory, sems, user, userJob, printerJob, restarts>>

PrinterPostsEmpty(d) ==
  /\ PrinterMoves(d, "postEmpty", "printing")
  /\ SEM_EMPTY' = SEM_EMPTY + 1
  /\ UNCHANGED <<memory, SEM_MUTEX, SEM_FULL, user, userJob, printerJob, restarts>>

PrinterPrints(d) ==
  /\ PrinterMoves(d, "printing", "waitFull")
  /\ printerJob' = [printerJob EXCEPT ![d] = NoJob]
  /\ UNCHANGED <<memory, sems, user, userJob, restarts>>

Printer(d) ==
  \/ PrinterWaitsFull(d) \/ PrinterWaitsMutex(d) \/ PrinterGetsJob(d) \/ PrinterAdvances(d)
  \/ PrinterPostsMutex(d) \/ PrinterPostsEmpty(d) \/ PrinterPrints(d)

-----------------------------------------------------------------------------
(* A new segment is zeroed; main sets the semaphores and forks. *)
Init ==
  /\ jobs = [i \in Slots |-> NoJob]
  /\ head = 0 /\ tail = 0
  /\ SEM_MUTEX = 1 /\ SEM_FULL = 0 /\ SEM_EMPTY = MAX_QUEUE
  /\ user = [u \in Users |-> "generate"] /\ userJob = [u \in Users |-> NoJob]
  /\ printer = [d \in Printers |-> "waitFull"] /\ printerJob = [d \in Printers |-> NoJob]
  /\ restarts = 0

(* All the processes are killed, wherever they are, and main runs again. *)
Restart ==
  /\ restarts < MaxRestarts
  /\ restarts' = restarts + 1
  /\ SEM_MUTEX' = 1 /\ SEM_FULL' = 0 /\ SEM_EMPTY' = MAX_QUEUE
  /\ user' = [u \in Users |-> "generate"] /\ userJob' = [u \in Users |-> NoJob]
  /\ printer' = [d \in Printers |-> "waitFull"] /\ printerJob' = [d \in Printers |-> NoJob]
  /\ UNCHANGED memory

Next ==
  \/ \E u \in Users : User(u)
  \/ \E d \in Printers : Printer(d)
  \/ Restart

(* A process that can take its next step takes it.  Which of several        *)
(* waiting processes a semaphore lets through is left open.                 *)
Fairness ==
  /\ \A u \in Users : WF_vars(User(u))
  /\ \A d \in Printers : WF_vars(Printer(d))

Spec == Init /\ [][Next]_vars /\ Fairness

-----------------------------------------------------------------------------
(* The queue that the ring and the semaphores stand for. *)

(* Jobs in the ring: counted in SEM_FULL, about to be, or reserved by a      *)
(* printer that has not advanced head yet.                                   *)
Queued ==
  SEM_FULL + Cardinality(UsersAt({"postMutex", "postFull"}))
           + Cardinality(PrintersAt({"waitMutex", "get", "advance"}))

(* The Queued slots before tail, oldest first. *)
Pending == [i \in 1 .. Queued |-> jobs[(tail - Queued + i - 1) % MAX_QUEUE]]

Busy == PrintersAt({"postMutex", "postEmpty", "printing"})

Spooled == INSTANCE Spooler WITH pending <- Pending, busy <- Busy

-----------------------------------------------------------------------------
(* Properties *)

TypeOK ==
  /\ jobs \in [Slots -> Jobs \union {NoJob}]
  /\ head \in Slots /\ tail \in Slots
  /\ SEM_MUTEX \in 0 .. 1
  /\ SEM_FULL \in 0 .. MAX_QUEUE /\ SEM_EMPTY \in 0 .. MAX_QUEUE
  /\ user \in [Users -> UserAt] /\ userJob \in [Users -> Jobs \union {NoJob}]
  /\ printer \in [Printers -> PrinterAt] /\ printerJob \in [Printers -> Jobs \union {NoJob}]
  /\ restarts \in 0 .. MaxRestarts

(* One process at a time between its two operations on SEM_MUTEX.           *)
MutualExclusion ==
  Cardinality(UsersAt({"copy", "advance", "postMutex"}))
    + Cardinality(PrintersAt({"get", "advance", "postMutex"})) <= 1

(* The ring of semaphores and slots is a bounded first-in first-out queue:  *)
(* no job is overwritten before a printer has taken it, whatever the order  *)
(* in which the processes pass the three semaphores and wherever they are   *)
(* when the program is stopped.                                             *)
IsSpooler == Spooled!Spec

(* How far head is from the oldest queued job.                              *)
HeadLag == (tail - Queued - head) % MAX_QUEUE

(* Users and printers never move head and tail apart: only a restart, which *)
(* forgets the queued jobs and keeps both indices, does.                    *)
HeadKeepsPace == [][restarts' = restarts => HeadLag' = HeadLag]_vars

(* A queued job is taken at last.                                           *)
QueuedJobsAreTaken ==
  \A h \in Slots : (Queued > 0 /\ head = h) ~> (Queued = 0 \/ head # h)

(* A full queue gets room again, for the users that wait for it.            *)
RoomComesBack == SEM_EMPTY = 0 ~> SEM_EMPTY > 0

=============================================================================
