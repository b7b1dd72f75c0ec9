----------------------------- MODULE ThreadSum -----------------------------
(***************************************************************************)
(* Lab 9/zad1.c: threads compute the parts of an integral; main polls the  *)
(* array ready, without a lock, and adds the results.  Memory is as the    *)
(* program finds it when gcc builds it for x86-64: the two stores of a     *)
(* thread become visible in their order, and each test of ready reads it.  *)
(* Starting a thread does not fail.                                        *)
(***************************************************************************)
EXTENDS Integers, FiniteSets

CONSTANTS num_threads, Uninitialized

Threads == 0 .. num_threads - 1

ASSUME ThreadAssumption == num_threads \in Nat \ {0} /\ Uninitialized \notin Threads

VARIABLES
  results,          \* the parts that are in the array of results
  ready,
  thread,           \* where each thread is
  main, m,          \* where main is, and the counter of its loop
  sum               \* what main has added for each thread

threadVars == <<results, ready, thread, main, m, sum>>

-----------------------------------------------------------------------------
ThreadStores(t) ==
  /\ thread[t] = "computing"
  /\ results' = results \union {t}
  /\ thread' = [thread EXCEPT ![t] = "stored"]
  /\ UNCHANGED <<ready, main, m, sum>>

ThreadIsReady(t) ==
  /\ thread[t] = "stored"
  /\ ready' = ready \union {t}
  /\ thread' = [thread EXCEPT ![t] = "ended"]
  /\ UNCHANGED <<results, main, m, sum>>

Thread(t) == ThreadStores(t) \/ ThreadIsReady(t)

Last == m = num_threads - 1
Moves(place) == main' = place /\ m' = 0
MovesAfterLast(place) == IF Last THEN Moves(place) ELSE main' = main /\ m' = m + 1

MainStarts ==
  /\ main = "starting"
  /\ thread' = [thread EXCEPT ![m] = "computing"]
  /\ MovesAfterLast("polling")
  /\ UNCHANGED <<results, ready, sum>>

Counts_AnyReady == ready # {}
Counts == m \in ready

(* Lines 82-92: at the first that is not ready, main sleeps and starts again. *)
MainPolls ==
  /\ main = "polling"
  /\ \/ Counts /\ MovesAfterLast("adding")
     \/ ~Counts /\ Moves("polling")
  /\ UNCHANGED <<results, ready, thread, sum>>

MainAdds ==
  /\ main = "adding"
  /\ sum' = [sum EXCEPT ![m] = IF m \in results THEN m ELSE Uninitialized]
  /\ MovesAfterLast("over")
  /\ UNCHANGED <<results, ready, thread>>

ThreadMain == MainStarts \/ MainPolls \/ MainAdds

-----------------------------------------------------------------------------
ThreadInit(started) ==
  /\ results = {} /\ ready = {} /\ sum = [t \in Threads |-> Uninitialized]
  /\ thread = [t \in Threads |-> "absent"]
  /\ main = (IF started THEN "starting" ELSE "absent") /\ m = 0

ThreadNext == ThreadMain \/ \E t \in Threads : Thread(t)

ThreadFairness == WF_threadVars(ThreadMain) /\ \A t \in Threads : WF_threadVars(Thread(t))

ThreadSpec == ThreadInit(TRUE) /\ [][ThreadNext]_threadVars /\ ThreadFairness

-----------------------------------------------------------------------------
(* Properties *)

ThreadTypeOK ==
  /\ results \subseteq Threads /\ ready \subseteq Threads /\ sum \in [Threads -> Threads \union {Uninitialized}]
  /\ thread \in [Threads -> {"absent", "computing", "stored", "ended"}]
  /\ main \in {"absent", "starting", "polling", "adding", "over"} /\ m \in Threads

Sum == INSTANCE Summation WITH
  Garbage <- Uninitialized, parts <- Threads, computed <- results, lost <- {},
  totals <- IF main = "over" THEN {sum} ELSE {}

(* The total main prints is the sum of all the parts, though nothing but the *)
(* order of two stores tells it that a result is there.                      *)
ThreadsSumUp ==
  /\ Sum!Begin(Threads)
  /\ [][(\E t \in Threads : Sum!Compute(t)) \/ Sum!Announce]_(Sum!sumVars)

=============================================================================
