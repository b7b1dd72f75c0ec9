# A verification project for Operating_Systems_Course

The repository holds the solutions of a course on operating systems: twelve
labs and two tests, each a program of one to three C files of its own. There is
no common library; what the programs share is their subject, the interaction of
threads, processes and machines. This directory holds TLA+ models of those
programs, the TLC configurations that check them, and TLAPS proofs about all the
programs modelled.

    tlc -workers 2 -config MCHospital.cfg MCHospital
    tlapm HospitalProofs.tla

## 1. Inventory

| Part | State | Operations | Interaction | What is hard | What makes it correct |
|---|---|---|---|---|---|
| **Lab 10** hospital, `zad1.c` | counters of the room, the stock and the patients remaining; the seats; two flags | `doctor_thread`, `patient_thread`, `pharmacist_thread`, `main` | threads; one mutex, three conditions; two counters read without the mutex | lost wakeups, state used after an unlock, patients that come back, ending | nobody waits for what has happened, everybody consulted once and before the doctor leaves |
| **Lab 8** print queue, `zad1.c` | ring of jobs, `head`, `tail`; three semaphores | `user`, `printer`, `main` | processes; System V shared memory and semaphores | order of the semaphore operations; a segment that survives the program | a bounded first-in first-out queue |
| **Test 2** producer and consumer, `main.c`, `checks.h` | a stack of values, `count`; what the checks remember | `producer`, `consumer`, checks, `main` | threads; one mutex, two conditions | lost signals, slots reused | each value processed once, the program ends |
| **Lab 12** UDP chat, `server.c`, `client.c` | table of clients with addresses and times | REGI, LIST, 2ALL, 2ONE, STOP, PING/PONG, time-out | datagrams; a ping thread beside the server's main thread | loss, duplication, reordering; time-outs; lookups used after an unlock | ids unique, texts attributed to their author, live clients kept, dead ones dropped |
| **Lab 11** TCP chat, `server.c`, `client.c` | table of clients with descriptors and times, `client_count`; what each thread has in its variables | the same protocol over connections | a thread for each connection, `alive_checker`, `main`; one mutex; descriptors closed by one thread and used by another | descriptor numbers reused, a client dropped under its own thread, several messages in one `recv`, a full table, SIGPIPE | as Lab 12; an entry's descriptor leads to its client |
| **Lab 7** message queues, `server.c`, `client.c` | table of clients; the queues | INIT, texts to all | POSIX queues of ten messages, priorities, `fork` | a full queue blocks the server; the first message is taken for the id | ids agree, texts reach all the others, in one order |
| **Lab 5** signals, `catcher.c`, `sender.c` | mode, count, sender; what a signal does | signal handlers, loop over the mode | SIGUSR1 with a value, confirmations, Ctrl+C | a handler between any two steps, `pause`, signals that are not queued | each request confirmed and carried out |
| **Lab 6** pipes, `zad1.c`; FIFOs, `zad2_1.c`, `zad2_2.c` | pipes, the ends of them each process holds | children compute, the parent adds; one program asks, the other computes | pipes, `wait`, `open` of FIFOs | order of waiting, closing and reading; a killed child | every part added once, nobody waits for ever |
| **Lab 9** integral, `zad1.c` | `results`, `ready` | threads, a polling `main` | threads without synchronisation | data race on `ready` and `results` | every part added once |
| **Lab 2** Collatz, **Lab 3** file reversal, **Lab 4** fork/exec, **Lab 1** countdown, **Test 1** exercises | none or local | sequential | none, or one call | little | their result |

PROJECT.json lists each part with its sources, and under "hazards" what in them a
test would hardly reach, at its line, with the properties that cover it.

## 2. The modules

| Module | Stands for | Role |
|---|---|---|
| `Clinic` | Lab 10/README.md | abstract: a room, a stock and a doctor |
| `Hospital` | Lab 10/zad1.c | specification and properties; implements `Clinic` |
| `HospitalProofs` | | inductive invariants, theorems, the refinement, the ways to hang |
| `Spooler` | Lab 8/README.md | abstract: a bounded FIFO queue and busy printers |
| `PrintQueue` | Lab 8/zad1.c | specification; implements `Spooler` |
| `PrintQueueProofs` | | inductive invariant, theorems, the refinement |
| `Buffer` | Test 2/main.c, checks.h | specification and properties |
| `BufferProofs` | | inductive invariant, theorems |
| `Directory` | Lab 11/README.md, Lab 12/README.md | abstract: the list of clients of a chat server |
| `UdpChat` | Lab 12/server.c, client.c | specification; implements `Directory` |
| `UdpChatProofs` | | inductive invariants, theorems, the refinement |
| `TcpChat` | Lab 11/server.c, client.c | specification; implements `Directory` |
| `TcpChatProofs` | | inductive invariant, theorems, the refinement |
| `QueueChat` | Lab 7/server.c, client.c | specification and properties |
| `QueueChatProofs` | | queues, inductive invariants, theorems |
| `Signals` | Lab 5/catcher.c, sender.c | specification and properties |
| `Summation` | Lab 6/zad1.c, Lab 9/zad1.c | abstract: the parts of an integral, lost or computed, are added once |
| `ThreadSum` | Lab 9/zad1.c | specification; implements `Summation` |
| `PipeSum` | Lab 6/zad1.c | specification; implements `Summation` |
| `SummationProofs` | | inductive invariants of `ThreadSum` and `PipeSum`, the refinements |
| `FifoSum` | Lab 6/zad2_1.c, zad2_2.c | specification and properties |
| `MCPrograms` | | the five small programs side by side, one started in each behaviour |
| `ProgramsProofs` | | inductive invariants of `Signals` and `FifoSum`; the five programs together |
| other `MC...` | | what TLC needs: bounds, symmetry, ids, what to start |

The programs do not call one another, so nothing composes two of them; where one
program has parts that interact (threads, server and clients, network), they are
actions of one module. `MCPrograms` only saves runs: its initial states start
one of five programs, whose variables are their own, and the others never move.

Operators with a suffix, `X_Fault` before `X`, are faulty versions of `X` (a
dropped guard, an off-by-one, a missing signal). Nothing uses them: put in place
of `X`, each makes the property it is paired with in PROJECT.json ("mutants") fail.

### Clinic and Hospital

The variables have the source's names; `my_position` and `treated` are the
locals of each patient thread, and `doctor`, `patient`, `pharmacist`, `main` say
where each thread is. `consulted` is a history variable.

An action is one critical section, from `pthread_mutex_lock` or the return of
`pthread_cond_wait` to the next unlock or wait, or one read outside the mutex.
Only `patients_remaining` and `patients_in_hospital` are read outside, and every
section writes at most one of them, once; so a read between two sections sees
all that a read inside one could, and the mutex needs no variable. The reads are
data races in C; in the builds of the Makefile each is one load of an aligned
`int`, repeated every time round, because a call lies between.

`doctor_thread` goes `loop` (line 35, first counter), `loopSecond` (second),
`lock` or `woken` (38-51), `asleep` (45), `consulting` (62-65) or `delivery`
(77-80). A patient goes `loop` (105), `away` (106-112), `seated` (144), `woken`;
a pharmacist `loop`, `loopSecond` (180), `away`, `awaitsEmpty` (199), `awaitsDoctor`
(218). `pthread_cond_signal` moves a waiting thread to its `woken` place, and
`SpuriousWakeup` does so without a signal. Sleeping threads hold no mutex and may
sleep for any time.

Left out: `waiting_pharmacist_id` and `pharmacists_remaining`, which are never
read, the messages, and the literal 3 that the source writes for
`MAX_PATIENTS_IN_HOSPITAL` in some conditions (the model has the constant in all).

The refinement mapping: `room` is the set of those whose numbers stand in the occupied
seats (`InRoom`), `treated` those who sat in a consultation, and the doctor of `Clinic` is
free whenever he neither consults nor takes a delivery nor has gone. Where a thread
stands is not in the mapping. `IsClinic` says more than it may seem: `Clinic` lets
nobody in during a consultation and treats the whole room at its end, so nobody may
change seats under the doctor, who has released the mutex; nobody may sit in two
seats, for then one patient would enter and another be missing when the room counts as
full; and the doctor, who decides to go from two reads without the mutex, goes only
from an empty room with all treated.

`Blocked` says where the threads stand when each has ended or waits for what no other
will do. It is spelled out because `ENABLED` is out of the provers' reach. `HangsOnlySo`
lists the ways to get there (section 5).

### Spooler and PrintQueue

`PrintQueue` takes one step per `semop` and per access to the shared memory.
`Restart` kills all the processes wherever they are and runs `main` again, which
resets the semaphores and finds `jobs`, `head` and `tail` as they were: the
program never removes the segment. `MaxRestarts` bounds it.

The refinement mapping: `Queued` counts the jobs in `SEM_FULL`, those the users
have written and not posted yet, and those a printer has reserved and not taken
yet; `Pending` is the `Queued` slots before `tail`; `Busy` is the printers past
their step on `head`. `IsSpooler` says that every behaviour of the ring is a
behaviour of `Spooler`. The texts of the jobs are what `UserCopies` writes: a slot
overwritten before its job is taken changes `Pending` in a way no action of
`Spooler` allows.

`get_job` does not read the slot, so which text is printed is no part of the
mapping (section 5). `HeadKeepsPace`, which says that only a restart moves `head` away
from the oldest queued job, is proved and not run.

### Buffer

One action per critical section. The checks at the start of each thread
(checks.h) are actions as well: they keep the first mutex and condition they see
in two globals, and print PASS or FAIL (`verdicts`). `processed` is a history
variable.

### Directory

`Directory` is what the labs ask of the list of clients: an id is listed once, there is
a limit, and an entry stays what it is until it is dropped. Dropping takes any set of
entries, since a time-out, a STOP, a failing send and the end of the server all do it.
An entry is listed with its slot and its address (`UdpChat`), or with its descriptor number
(`TcpChat`): `IsDirectory` thus says that no entry is taken over or renamed in
place.

### UdpChat

`requests` and `replies` are the sets of datagrams under way. Each may be lost, stay
under way for any time, and be overtaken by any other; receiving one may leave a copy
(at most `MaxCopies` times). Equal datagrams are one, which may, with a copy, arrive or
be lost more than once. The server's main thread handles one datagram in up to three
critical sections: `ServerReceives` looks the address up (line 110), `ServerTouches`
notes the time (147), and the third does what is asked. `PingPass`, one run of
`ping_thread`, may come at any time, as the thread waits for nothing but the mutex. A
client runs at an address under one of the ids of its users (`IdsOf`); another started
later may get the same address, be registered under a second id beside the first, and
get the datagrams sent to the first.

Time is counted in runs of `ping_thread`. `age` is how many runs a client has not
been heard from. The true age at a run lies anywhere in an interval, `time()`
cuts fractions off and `sleep` oversleeps; so `TimedOut` takes a client to be one
unit older or younger as the case may be. Nothing is assumed about how long a
datagram takes. `missed` is a history variable: the entries that, since they were noted
alive, a sign of life of their address may have passed by, because a datagram was lost, a
client was started anew, or the sign was noted for another entry of the address.

Not modelled: the end of the server, a client whose input is not a terminal
(line 188; it then waits for one more datagram), and malformed commands.

### TcpChat

A step is one critical section of `clients_mutex` or one system call outside it;
`recv` and what follows it up to the next lock are one step, since what happens
between them could as well have happened before `recv` returned.

The point of the module is the descriptor, a number. `open` maps the numbers to
connections; a thread knows its connection by `client_socket`, an entry of the
table by its `socket`, and `close` by any thread takes the number away from all of
them. `accept` gives out the lowest free number. A `recv` that has begun
(`HandlerWaits`) stays on its connection, which `reading` names, though the
number is closed meanwhile. So `alive_checker` may close the number of a client
whose thread is between two calls; `accept` gives it to the next client, and two
threads then read from one connection.

A handler goes `first` (91-131: `HandlerLosesClient`, `HandlerRefuses`,
`HandlerRegisters`), `loop` (138), `recv`, `remove` (205), `ended`. `HandlerRegisters`
has all three ends of the code: no free slot (nothing is said), OK sent, OK not
sent (socket closed, entry given back, and the loop entered all the same).
`CheckerPass` is one run of `alive_checker` under its lock: the old and the ones
whose PING fails are dropped. Time is counted in its runs, as in `UdpChat`.

A connection carries a sequence of messages each way; `recv` takes one or several at
once and recognises the first. Equal messages in a row are kept as one. What is written
to a client that has gone may fail, or succeed and be answered with a reset; the next
write to it may then raise SIGPIPE, which ends the server (`Dies`). This may happen at
every `send` but that of `MainAccepts`, the first on its connection. A client that typed
STOP still answers a PING it reads before it ends. `delivered` holds what the last step
passed on, with the client who wrote it (`author`) and the one in whose name it went
(`sender`).

Left out: a message that is split over two `recv`, failing `accept`, `malloc` and
`pthread_create`, a `send` that waits for a client that does not read, and a first
message that is not REGI (no client sends one).

### QueueChat

A step is one `mq_send` or `mq_receive` with what follows it up to the next. `Queued`
puts a message behind those of its own priority or higher; a full queue makes the
action of the sender wait, which for the server (107) is the end of all service
if that client has gone. The process of the keyboard and its child are the actions
`UserTypes` and `UserPrints` of one user. The server's table is the sequence
`clients`; the number of a client is its place, less one. Over the limit the
server says nothing (88) and the client waits for its id.

### Signals

A signal comes between any two steps of the process it interrupts, and ends a `pause`.
The test of a flag and the `pause` after it are two steps (catcher.c:79,
sender.c:34-35). The catcher's handlers run line by line (`signal_line`, `ctrl_c_line`),
since `sa_mask` is empty (catcher.c:48): Ctrl+C may interrupt `handle_signal` before
each line and end the process there, or SIGUSR1 interrupt `handle_ctrl_c` between its
two looks at `mode`. `running` is the frame on top, and what a handler returns to
follows from the line of the other. SIGUSR1 alone waits while its handler runs. The
catcher begins after it has printed its PID (line 43): a sender may be quicker than
`sigaction` (50), and its signal then ends the catcher. `sigint` is what Ctrl+C does:
the Makefile compiles with `-std=c11` and the source defines `_POSIX_C_SOURCE`, so that
`signal` has System V semantics: the handler serves for one call, and then the default
is back. That `printf` and `exit`, which are not async-signal-safe, work in a handler is
taken for granted. SIGUSR1 is not queued: `lost` notes the senders whose signal fell on
a pending one. `zad1.c` of the lab raises one signal at itself and is left out.

### Summation, ThreadSum, PipeSum, FifoSum

The value of a part is the part itself: a total is a function that says what was
added for each part. `Summation` computes parts in any order and announces a total
in which each part that was computed stands for itself; for one whose worker was
lost anything may be added.

`ThreadSum`: `results` is the set of slots that are filled, `sum` what `main` has added for
each. `ready` and `results` are plain variables, a data race in C; the model has what gcc for
x86-64 makes of it: the stores of a thread are seen in their order, and the test
in the loop reads memory each time, for `nanosleep` is called in between.

`PipeSum`: `writers` holds the processes with a writing end of each pipe. A child
inherits all ends that are open when it is forked, and closes those of the
others; the parent closes its own only after it has waited for all (80-85). A
`read` waits as long as the pipe is empty and somebody can write. At the end of the
pipe of a killed child it stores nothing (89), and `result`, which holds what was
read before or nothing defined, is added. The reading ends are never closed; the
model takes it that there are enough of them.

`FifoSum`: `open` of a FIFO is two steps, to arrive and to meet the other end; a FIFO
that does not exist makes it fail, and the calculator goes on without.

## 3. The runs

| Run | Bounds | Shows |
|---|---|---|
| `hospital` | 4 patients, 2 pharmacists, room of 2, medicine for 2 consultations, deliveries of 1; symmetry | `TypeOK`, `DoctorNotAsleepOverWork`, `TreatedWereConsulted`, `NoPatientAbandoned`, `HangsOnlySo`, `IsClinic` |
| `hospital_live` | 3 patients, 1 pharmacist; no symmetry | `FullRoomIsConsulted`, `AnnouncedDeliveryTaken` |
| `hospital_go_home` | as above | **violated**: `ConsultedGoHome` |
| `hospital_replenish` | as above | **violated**: `WaitingPharmacistReplenishes` |
| `print_queue` | 2 users, 2 printers, 2 slots, 2 texts, 1 restart | `TypeOK`, `MutualExclusion`, `IsSpooler`, `QueuedJobsAreTaken`, `RoomComesBack` |
| `buffer` | 5 slots, 10 values | `TypeOK`, `ValuesPartitioned`, `NoLostSignal`, `ChecksPass`, `ProgramEnds` |
| `udp_chat` | 2 addresses, two ids at the first, 2 slots, time-out of 1 run, 2 starts, 1 command | `AttributedToAddress`, `IsDirectory` |
| `udp_chat_author` | 1 address with two ids, 2 slots, time-out of 2 runs, 2 starts, 1 command | **violated**: `AttributedToAuthor` |
| `udp_chat_live` | the same, no command, 1 copy | `TypeOK`, `AnsweringClientStays`, `GhostsVanish` |
| `tcp_chat` | 2 clients, time-out of 2 runs, five setups (below) | `TypeOK`, `CountAgrees`, `SocketsAreTheirs`, `ReachesAddressee`, `IsDirectory`, `SilentAreDropped` |
| `tcp_chat_author` | the same | **violated**: `AttributedToAuthor` |
| `programs` | `QueueChat`: 3 users, tables of 2 and 3, queues of 2, 2 texts. `Signals`: 2 senders, 2 Ctrl+C. `ThreadSum`: 3 threads. `PipeSum`: up to 3 children. | `Sound`, `SignalsSound`, `IdsAgree`, `OneOrder`, `TextsArrive`, `SendersEnd`, `ModesAreCarriedOut`, `ThreadsSumUp`, `PipesSumUp`, `ParentComesThrough`, `ProgramsMeet` |

Why these bounds are enough to be of interest:

- *Hospital.* Four patients fill the room of two twice, so that patients come back,
  turn away at a full room and meet a second consultation; the stock falls to
  zero after two and is delivered again, one unit at a time; two pharmacists
  meet at one delivery. Patients are alike and pharmacists are alike, so that
  permuting them is sound for invariants and for `IsClinic`, which is safety and tells
  no patient from another; the liveness runs have no symmetry. The program may stop with threads that wait
  (section 5), so deadlock is not checked.
- *PrintQueue.* Two slots and four processes: the ring goes round, both ends
  block, users and printers compete for the mutex, and a restart finds every
  intermediate state. Deadlock is checked.
- *Buffer.* Half of the source's sizes in the same ratio. The program ends, and
  deadlock is therefore not checked; `ProgramEnds` says that it ends.
- *UdpChat.* Two slots take two clients that write to each other, or the two ids of one
  address, whose second client meets the datagrams and the entry of the first. In
  `udp_chat` an entry is dropped at the first run of `ping_thread` that finds it old, which
  makes a lookup stale after one run; the properties that speak of answers in time have the
  source's two intervals, and datagrams doubled besides. With two starts the table
  of two is never full: that the limit is kept is proved, for every `MAX_CLIENTS`
  (`ImplementsDirectory`). The invariants of `udp_chat` do not read the history, which its
  VIEW leaves out. Deadlock is checked.
- *TcpChat.* Two clients are enough for a number to change hands, which is what the
  hazards are about: the second client gets the number of the first. `MCSetups`
  takes in turn two clients that write, come and go; a STOP
  beside a time-out; two clients under one id; a table of one with a server that
  is interrupted; a table of one and two clients that stop. In each of them both
  may vanish at any time, be silent, time out, and raise SIGPIPE. (Only
  the SIGPIPE of a refusal needs a third client; the proofs cover it.) The server may
  end, so deadlock is not checked.
- *The small programs.* `MAX_CLIENTS` of 2 turns the third user away, of 3 takes all;
  queues of two fill up, so that the server blocks; two senders meet at a pending
  signal, the second waiting while the first is handled, and two Ctrl+C use up the handler
  and meet the default, in the main loop or in either handler; three rounds of
  children have pipes before and after the one that is read. All of these end or
  may block as the code does, and deadlock is not checked.

### Fairness

- *Hospital*, *Buffer*: weak fairness of each thread. No action stays enabled and
  is then taken away from a thread by another's critical section, so this is what
  a scheduler and a mutex that let each thread run give; nothing is asked about
  the order in which threads get the mutex. Spurious wakeups are promised by
  nobody and have no fairness. `FullRoomIsConsulted` needs the doctor alone:
  nobody else empties a full room.
- *PrintQueue*: weak fairness of each process. A process waiting at a semaphore
  may be passed by others for ever; the properties speak of the queue and not of
  one process.
- *UdpChat*: the two threads of the server run. The network and the clients promise
  nothing: a datagram may stay under way for ever.
- *TcpChat*: the threads of the connections and `alive_checker` run. `main` is promised
  nothing, and clients neither answer nor end by promise: `SilentAreDropped` must
  come from the checker.
- *QueueChat*: the server runs, and so do a user's first `mq_receive` and its child,
  which wait for nothing but a message. What a user types is its own affair.
- *Signals*: both programs run and a pending signal is delivered; starting a sender
  and Ctrl+C are up to the user.
- *ThreadSum*, *PipeSum*: the threads, the children and the parent run. Being killed is
  promised by nobody.
- *FifoSum*: both programs run; this includes that the user who is asked for the
  numbers types them (`AskerAsks`).

## 4. What is proved

TLAPS checks the following for every value of the constants that satisfies the
assumptions of the modules (finite sets of threads, positive sizes).

`HospitalProofs`. `InvHolds` shows the inductive invariant `Inv`. None of the safety
properties is inductive on its own:

- `SeatsDistinct` needs to know who may sit down: a patient whose seat is taken
  stands outside the waiting loop only when the room is full and stocked or
  nobody remains (`AwayFromSeat`); then it cannot sit down again, since the room
  is full and stays so until the consultation, which empties the seats.
- That a consultation begun stays possible (`ConsultationSealed`) keeps the room
  full, so nobody sits down meanwhile, and the stock above what is consumed; from
  it follow the lower bound of the stock in `TypeOK` and `ConsultationIsolated`.
- `TreatedWereConsulted` needs `WaitingHaveSeats`: whoever waits has a seat or has
  been consulted, so that a seat found gone means a consultation.
- `NoPatientAbandoned` needs a count: `patients_remaining` is never below the number
  of the untreated (`RemainingCoversUntreated`; the source forgets to decrease it
  when somebody sits down first, and never decreases it twice). The doctor
  leaves when it is zero (`DoctorLeavesLast`), hence when nobody is untreated. The
  lemmas on cardinality rest on `FiniteSetTheorems`.

The theorems `TypeCorrect`, `NoLostWakeup`, `OneSeatEach`, `TreatedSound`,
`DoctorStaysForAll` and `ConsultationIsolated` follow. Each step of `Next` has a lemma or a
case in one.

`ImplementsClinic` and `StopsOnlySo` need more: a second invariant, `Waiting`, inductive
relative to `Inv`, which says what brought each thread to the place where it waits.

- Whoever is `seated` is in the room (`SeatedInRoom`) and nobody in the room was treated
  (`RoomUntreated`), so that entering adds one patient, and the seats of a room that counts
  as full hold as many patients (`RoomCardinality`, by `FiniteSetTheorems`).
- A delivery is announced only while the stock is short (`AnnouncedWhileShort`), stays
  announced as long as its pharmacist waits (`AnnouncedWhileAwaited`) and is still needed
  when the doctor takes it (`DeliveryNeeded`): no consultation comes between.
- `DoneWereTreated`, `PharmacistsStay`, `RoomLeftEmpty`, `PatientsJoined` and `DoctorJoined` say with what
  a thread ended, and what `main` knows after each join.

With these, the steps of the threads map to the actions of `Clinic` or to stutters. For
`StopsOnlySo` each join of `main` is a case: while patients are joined the doctor sleeps,
since he outlasts the untreated; that he sleeps excludes a full stocked room and a
needed delivery; so what remains is a room that does not fill or medicine that is gone.
`BlockedForGood` shows that in a blocked state no action but a spurious wakeup is
taken. The converse, that `Blocked` describes all such states, needs `ENABLED`; that it does was
checked by TLC on the instance of the run, and can be read off the guards.

`BufferProofs`. `Inv` adds to `ValuesPartitioned` that the buffer holds no value twice
(`BufferInjective`), which is what makes taking the top value remove it, and that
`produced = consumed + count`, which bounds `count`. `TypeCorrect`, `EachValueOnce`
and `SignalsArrive` follow; the last includes that the two threads never wait for
each other, and `NobodyLeftWaiting` that none of them ends while the other waits.

`VerdictsPass` needs two more invariants. `InTurn` says in which order the checks of
the two threads can come, and that a thread waits only with values left to pass on
and ends with none. `SumAgrees` is about the sum that main compares: what was
processed and what is in the buffer are together the sum of the values produced. The sum
of the buffer would be a recursive function of its content; the invariant says
instead that there is a function of partial sums (`SumsOfBuffer`), and each step
gives the next one from the last.

`PrintQueueProofs`. `Inv` has two counts and what lies in the slots:

- `SlotsCounted`: every slot is free (`SEM_EMPTY`), reserved by a user, queued, or
  about to be freed by a printer; together they are `MAX_QUEUE`. So there is room
  where a user is about to write, and a job where a printer is about to take one
  (`QueueBounds`).
- `MutexCounted`: `SEM_MUTEX` and the processes inside are one, which gives
  `MutualExclusion`, and that no other user moves `tail` between a copy and its
  advance (`CopiedToTail`).
- `QueueHoldsJobs`, `UsersHoldJobs`: what is queued or about to be is a job.

How a count changes when one process moves is one lemma (`Moving`), used for users and
printers. The lemmas `Slot...` say how the slots of the queue shift when `tail` advances
and wraps round: slot `tail` is none of them while there is room, and becomes the last
of them. With these, a step of a user maps to `Send` when it advances `tail`, one of a
printer to `Take` when it advances `head` and to `Finish` when it has printed, a restart
to `Restart`, and every other step to a stutter: `ImplementsSpooler`. `HeadInPace`
(`HeadKeepsPace`) shows by the same arithmetic that only a restart moves `head` away
from the oldest queued job. `NeverAllBlocked` is the freedom from deadlock, without
`ENABLED`: with a user and a printer, not all of them stand at a semaphore that is zero.
If nobody holds the mutex, users that all wait have filled the queue and printers that
all wait have emptied it, and `SlotsCounted` excludes both at once.

`UdpChatProofs`. `ImplementsDirectory`: the third critical section of a REGI maps to
`Register` when the id is free and a slot is too, and otherwise to a stutter; every other
step activates and renames nobody (`Shrinks`), which is `Drop`. That a free slot leaves
room for one more is a matter of cardinalities (`RoomForOneMore`). `UniqueIds` needs
only that `ServerRegisters` looks for the id in the critical section in which it writes. The
invariant `Attributable` says of the table, of every datagram under way and of the
request in hand that an address and an id in it belong together. The slot found in
one critical section is used in the next: `ping_thread` may have freed it in
between, but no other client has taken it, as only the thread that uses it
registers clients. So a text carries an id that its author's address uses
(`AttributedWithinAddress`). That it is the author's own does not follow where an address has
two ids, and is not so (`udp_chat_author`).

`AnsweringClientsKept` is about the race of time-out and PONG. Its invariant `Answering` says
that the sender the main thread did not find has no entry, unless noted in `missed`; and that an
entry which has aged, of a client that chats, and which has not missed a sign of life, waits
for one that is under way or in hand: the PING, the PONG, or a datagram not yet
noted. So when `ping_thread` drops an answering client, the answer takes longer than the time
since the first PING. A `PING_TIMEOUT` of two intervals (the source has 60 s and 30 s) is assumed
and needed: it covers the unit that rounding and oversleeping add, so that a first PING
has been sent before the time is up.

`TcpChatProofs`. `Inv` is `Typed` and `Consistent`. The second has, besides `CountAgrees` and
`UniqueIds`, four parts (`Owned`) that need one another:

- `OneEntryEach`: no number stands in two entries. Otherwise dropping one client
  would close the number of another.
- `OneNumberEach`: a connection has one number and was accepted. With the pigeonhole
  principle it gives `accept` a free number (`NumberLeft`).
- `FirstOwns`: a thread that has not registered its client still has the number it
  was started with. It holds because numbers are closed only through entries,
  and an entry's number leads to a client that has registered.
- `Theirs`: the number of an entry leads to a client of the entry's id, whose thread
  is past its registration and knows it by that number. After `main` has closed
  the numbers, at its end, it may lead nowhere.

The steps are proved by what they do to numbers and entries, in the lemmas `Moving`,
`Leaving`, `GivingUp`, `Entering`, `Accepting` and `Closing`. `remove_client` of a thread whose
client was dropped long ago is a case of `Leaving`: it removes the client that has
the number now, entry and number together, which is why the table stays
consistent though the wrong client is dropped. `TypeCorrect`, `CountedRight`,
`NumbersStayTheirs`, `RightAddressees` and `ImplementsDirectory` state all the safety properties
of the run `tcp_chat`. For the last, a step shrinks the table, whoever takes it, or is the
locked part of `HandlerRegisters`.

`AttributedToAuthor` does not hold (section 5). `OthersTextsOnlyOnceDropped` says how
far it fails: a text goes out under another's id only from a thread whose client is not
registered. The invariant is `ReadsOwn`: the `recv` of a registered client's thread is
on this client's connection. It is inductive because numbers are opened only for clients
that have no thread yet (`OpensForNew`), and an entry is made only by a thread that
still waits for its first message (`EntersOnce`): nobody who is not registered comes to
be so with a `recv` under way (`RegisteredBefore`).

`QueueChatProofs`. First what `Queued` does: one message is inserted, nothing lost or
doubled, and among equal priorities it comes last. The invariant: a user asks once
(`Asking`), a queue gets nothing before its user is registered, and as long as the user
waits, the first message in it is its number (`Numbered`). `NumbersAgree` follows.

`TextsAgree` compares the pasts of two users. What a user has printed and what is in its
queue is one series (`SeriesOf`), which only grows at its end: a text put into a queue
of one priority comes last, and printing moves the border between the two parts. The
invariant `Ordered` says that two series never have two texts in opposite orders
(`Agree`), that the text in the server's hands is the last of the series it was put into
so far and is in none of the others (`PassedUpTo`), and that what is still in the
server's queue is in no series (`OthersTexts`). So what is appended is new, and later
than all that the others have seen. `TypeCorrect` needs `TextsBehind`: behind the number
there are only texts, and the number has been taken when the child that prints is
forked. `WaitersAccountedFor` says why a client may wait for its id: its INIT is still
at the server (`QueuedKeeps` and `TailKeeps`: what is put into a queue stays there until
it is taken), the id comes next in its queue (`Numbered`), or the table is full; it is
the safety part of what TLC checks as `TextsArrive`, for registrations.

`SummationProofs` shows the refinements. For the threads, what `main` has found
ready stays ready, and a slot of `results` is filled before its flag. For the pipes,
all children are over, ended or killed, before `main` reads, and a part computed is
in its pipe until `main` has come to that pipe, and added afterwards; a step of the program
maps to `Compute`, `Lose`, `Announce`, `Again` or a stutter. `ReadsReturn` is why no `read` waits
for ever: when the parent reads, all children are at their end and it has closed its own
ends, so nobody can write.

`ProgramsProofs`. For `Signals`, `RequestsAccountedFor` divides the senders that have
sent: their request is pending, being handled, lost behind a pending one, or confirmed.
A signal that comes while one is pending goes to the lost, and the pending one is
delivered only when none is being handled. `HandlingInv` says what the handler has done
before each of its lines: from line 20 on `sender_pid` is that of the request it was
called for, so that line 22 confirms this one and no other; a `handle_ctrl_c` above or
below it changes none of it. `count` is one ahead of the confirmed exactly between lines
20 and 22, where Ctrl+C may leave it for good. For `FifoSum`, `FifoInv` is the order in
which the ends of the two FIFOs are opened, from which it follows that an answer was
computed from what was asked (`OnlyTheIntegral`). `FifoEnds` adds which ends have been
opened wherever each program stands; with it `NeverWaitForEachOther` shows that the only
deadlock is that of a calculator that did not find the FIFO of the questions. `ENABLED`
is not used: `AskerWaits` and `CalculatorWaits` spell the guards out. `ProgramsSound`
puts the invariants of the five programs together (`Sound` and `SignalsSound`), for the
specification that the run `programs` checks: a program that is not started stays as it
is.

The theorems hold under the named assumptions of the modules: `ConstantsAssumption`,
`QueueAssumption`, `ThreadAssumption` and so on, which say that sets of processes are
finite, that sizes are positive, and that the values for "none" are none of the others.

Only model-checked are the liveness properties: `FullRoomIsConsulted`,
`AnnouncedDeliveryTaken`, `QueuedJobsAreTaken`, `RoomComesBack`, `ProgramEnds`,
`GhostsVanish`, `SilentAreDropped`, `TextsArrive`, `SendersEnd`, `ModesAreCarriedOut`,
`ParentComesThrough` and `ProgramsMeet`. Liveness under fairness and `ENABLED` are out
of reach of the installed provers. `NobodyLeftWaiting`, `NeverAllBlocked`,
`ReadsReturn`, `StopsOnlySo`, `WaitersAccountedFor` and `NeverWaitForEachOther` prove
parts of them that are safety. The properties of the four runs that are violated do not
hold, and are no theorems.

Induction over data and recursive operators are out of reach as well: the library's
induction theorems take an operator as a parameter. No module with a theorem declares
a recursive operator, and where a proof needs a sum it is kept as a function with one
step per index (`SumsOfBuffer`).

## 5. What the runs found

- `hospital_go_home`. Lab 10/README.md lets a patient go home after the consultation.
  The patient that fills the room does not wait in the loop of line 139; with its
  seat taken it goes for a walk, is consulted in its absence, comes back, and sits
  down again. It then holds a seat that nobody may be left to complete.
- `hospital_replenish`. Lab 10/README.md excludes a pharmacist who cannot replenish.
  A pharmacist who came while there was medicine waits on `pharmacists_cond`, and
  the consultation that uses the medicine up wakes only the patients.
- `tcp_chat_author`. Lab 11/README.md lets the server pass a text on with the id of its
  sender. `alive_checker` drops a silent client whose thread is not in `recv`; the next
  client gets its number, and the old thread reads the next client's text and
  passes it on under the old id (server.c:181). `SocketsAreTheirs` still holds: the
  table is right, it is the thread that is not. That nothing worse happens is proved
  (`OthersTextsOnlyOnceDropped`).
- `udp_chat_author`. Lab 11/README.md, which Lab 12/README.md keeps, lets the server pass a text
  on with the id of its sender. Lab 12's server tells senders by their address (line 110) and
  registers a second id at an address it knows (117-142). A client is started again
  on the port of one that went without STOP, or whose STOP is late; its texts carry
  the id of the entry that is found first, which may be the old one. That it is never the id
  of another address is proved (`AttributedWithinAddress`).

Seen while modelling, and written into the properties as what they except:

- Lab 10: the program hangs in four ways, each of which TLC reaches in the run's instance
  (`HangsOnlySo`): the patients still to be treated sit there and do not fill the room
  (`TooFewLeft`); the room is full, the medicine gone, and the pharmacists wait for the
  stock to fall (`OutOfMedicine`); all have been treated, but one of them did not find the
  hospital empty when it got the mutex, and was not counted out (line 160: `Miscounted`); a pharmacist announced its
  delivery when the doctor was about to go (`DeliveryTooLate`).
- Lab 8: README.md:15 has a printer print what was sent. `get_job` (zad1.c:37-41, 73) does not
  read the slot; it makes up a text.
- Lab 12: an answer that takes longer than the interval costs an answering client its place, and
  so may a second id at its address, whose entry is noted alive instead
  (`AnsweringClientStays`).
- Lab 5: a sender quicker than line 50 ends the catcher; Ctrl+C inside `handle_signal` leaves a
  request counted and not confirmed (`RequestsAccountedFor`).
- Lab 5: a confirmation that comes between test and `pause`, and a request that comes
  between the switch and `pause` or before `mode = 0`, are slept on or lost (`SendersEnd`,
  `ModesAreCarriedOut`).
- Lab 7: one client that has gone stops the server after ten texts, and with it all
  the others (`TextsArrive`).
- Lab 6: a calculator started before the FIFOs exist goes on without them, and the other
  program waits for ever (`ProgramsMeet`).

## 6. Plan

Done: every program of the repository in which more than one process or thread
runs to some purpose, with proofs of all the safety properties that hold.

Left, in this order:

1. `UdpChat`: the end of the server, and a client without a terminal (client.c:188), which
   waits for a datagram after its STOP.
2. `TcpChat`: a client that does not read, so that `send` waits under `clients_mutex`.

### Not modelled

- Lab 5/zad1.c raises one signal at itself: one process, one step.
- Lab 2 computes a pure function and Lab 1 prints a countdown; there is no state that
  two steps could leave inconsistent.
- Lab 3 reverses a file, sequentially; its two variants are two loops over one file.
- Lab 4 forks and prints process ids; its only state is one variable that each
  process has a copy of. `zad2.c` ends in `exec`.
- Test 1 holds separate short exercises, each one call or two.
