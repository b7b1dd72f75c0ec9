------------------------------- MODULE Buffer -------------------------------
(***************************************************************************)
(* Test 2/main.c and Test 2/checks.h: a producer and a consumer thread     *)
(* exchange VALUE_COUNT values through a buffer of BUFFER_SIZE slots that  *)
(* is filled and emptied at the same end, under one mutex and two          *)
(* condition variables; checks.h judges the threads while they start and   *)
(* the sum of the values when they have ended.                             *)
(*                                                                         *)
(* An action is one critical section; the mutex needs no variable, for     *)
(* nothing shared is touched outside it until both threads are joined.     *)
(* The broadcasts of check_cond_producer and check_cond_consumer find      *)
(* nobody waiting: each thread announces the condition it will wait on     *)
(* itself, before its loop.  BUFFER_SIZE and VALUE_COUNT are parameters    *)
(* here; checks.h writes out 20 values and their sum.                      *)
(*                                                                         *)
(* An operator X_Fault stands before the operator X of which it is a       *)
(* faulty version; nothing uses it, the properties are tried against it.   *)
(***************************************************************************)
EXTENDS Integers

CONSTANTS BUFFER_SIZE, VALUE_COUNT

ASSUME SizesAssumption == BUFFER_SIZE \in Nat \ {0} /\ VALUE_COUNT \in Nat

VARIABLES
  buffer, count,
  producer, consumer,    \* where the threads are
  produced, consumed,    \* i of each loop
  processed_value_count, processed_value_sum,
  mutex1, cond1,         \* which mutex, which condition the checks saw first
  main,
  verdicts,              \* what the checks have printed: PASS or FAIL
  processed              \* history: the values given to process_value

shared == <<buffer, count>>
checks == <<mutex1, cond1, verdicts>>
sums == <<processed_value_count, processed_value_sum, processed>>
vars == <<shared, producer, consumer, produced, consumed, sums, checks, main>>

Slots == 0 .. BUFFER_SIZE - 1
ThreadAt == {"checkMutex", "checkCond", "loop", "waiting", "woken", "done"}
Running == {"loop", "woken"}

(* The addresses given to the checks; NULL before. *)
NULL == "NULL"
Verdict(passed) == verdicts' = verdicts \union {IF passed THEN "PASS" ELSE "FAIL"}

(* pthread_cond_signal: each condition has at most one thread waiting on it. *)
Signalled(thread) == IF thread = "waiting" THEN "woken" ELSE thread

-----------------------------------------------------------------------------
(* checks.h: check_mutex_producer and _consumer, given &mutex by both. *)
CheckMutex ==
  /\ mutex1' = IF mutex1 = NULL THEN "mutex" ELSE mutex1
  /\ Verdict(mutex1 \in {NULL, "mutex"})
  /\ UNCHANGED cond1

(* check_cond_producer and _consumer; mutex1 must be set when it is locked. *)
CheckCond(cond) ==
  /\ cond1' = IF cond1 = NULL THEN cond ELSE cond1
  /\ Verdict(mutex1 # NULL /\ cond1 # cond)
  /\ UNCHANGED mutex1

ProducerIsChecked ==
  /\ \/ producer = "checkMutex" /\ producer' = "checkCond" /\ CheckMutex
     \/ producer = "checkCond" /\ producer' = "loop" /\ CheckCond("producer_cond")
  /\ UNCHANGED <<shared, consumer, produced, consumed, sums, main>>

ConsumerIsChecked_OtherCond ==
  /\ \/ consumer = "checkMutex" /\ consumer' = "checkCond" /\ CheckMutex
     \/ consumer = "checkCond" /\ consumer' = "loop" /\ CheckCond("producer_cond")
  /\ UNCHANGED <<shared, producer, produced, consumed, sums, main>>

ConsumerIsChecked ==
  /\ \/ consumer = "checkMutex" /\ consumer' = "checkCond" /\ CheckMutex
     \/ consumer = "checkCond" /\ consumer' = "loop" /\ CheckCond("consumer_cond")
  /\ UNCHANGED <<shared, producer, produced, consumed, sums, main>>

-----------------------------------------------------------------------------
(* The two loops *)

ProducerWaits ==
  /\ producer \in Running /\ produced < VALUE_COUNT
  /\ count = BUFFER_SIZE
  /\ producer' = "waiting"
  /\ UNCHANGED <<shared, consumer, produced, consumed, sums, checks, main>>

(* "if" in place of "while" at line 55. *)
Produces_OnceWoken ==
  /\ producer \in Running /\ produced < VALUE_COUNT
  /\ producer = "woken" \/ count # BUFFER_SIZE
  /\ buffer' = [buffer EXCEPT ![count] = produced]
  /\ count' = count + 1
  /\ produced' = produced + 1
  /\ producer' = "loop"
  /\ consumer' = Signalled(consumer)
  /\ UNCHANGED <<consumed, sums, checks, main>>

Produces ==
  /\ producer \in Running /\ produced < VALUE_COUNT
  /\ count # BUFFER_SIZE
  /\ buffer' = [buffer EXCEPT ![count] = produced]
  /\ count' = count + 1
  /\ produced' = produced + 1
  /\ producer' = "loop"
  /\ consumer' = Signalled(consumer)
  /\ UNCHANGED <<consumed, sums, checks, main>>

ProducerEnds ==
  /\ producer \in Running /\ produced = VALUE_COUNT
  /\ producer' = "done"
  /\ UNCHANGED <<shared, consumer, produced, consumed, sums, checks, main>>

ConsumerWaits ==
  /\ consumer \in Running /\ consumed < VALUE_COUNT
  /\ count = 0
  /\ consumer' = "waiting"
  /\ UNCHANGED <<shared, producer, produced, consumed, sums, checks, main>>

(* buffer[--count], and process_value. *)
Consumes_PostDecrement ==
  LET value == buffer[count % BUFFER_SIZE]
  IN  /\ consumer \in Running /\ consumed < VALUE_COUNT
      /\ count # 0
      /\ count' = count - 1
      /\ processed_value_sum' = processed_value_sum + value
      /\ processed_value_count' = processed_value_count + 1
      /\ processed' = processed \union {value}
      /\ consumed' = consumed + 1
      /\ consumer' = "loop"
      /\ producer' = Signalled(producer)
      /\ UNCHANGED <<buffer, produced, checks, main>>

Consumes_NoSignal ==
  LET value == buffer[count - 1]
  IN  /\ consumer \in Running /\ consumed < VALUE_COUNT
      /\ count # 0
      /\ count' = count - 1
      /\ processed_value_sum' = processed_value_sum + value
      /\ processed_value_count' = processed_value_count + 1
      /\ processed' = processed \union {value}
      /\ consumed' = consumed + 1
      /\ consumer' = "loop"
      /\ UNCHANGED <<buffer, producer, produced, checks, main>>

Consumes ==
  LET value == buffer[count - 1]
  IN  /\ consumer \in Running /\ consumed < VALUE_COUNT
      /\ count # 0
      /\ count' = count - 1
      /\ processed_value_sum' = processed_value_sum + value
      /\ processed_value_count' = processed_value_count + 1
      /\ processed' = processed \union {value}
      /\ consumed' = consumed + 1
      /\ consumer' = "loop"
      /\ producer' = Signalled(producer)
      /\ UNCHANGED <<buffer, produced, checks, main>>

ConsumerEnds ==
  /\ consumer \in Running /\ consumed = VALUE_COUNT
  /\ consumer' = "done"
  /\ UNCHANGED <<shared, producer, produced, consumed, sums, checks, main>>

(* pthread_cond_wait may return without a signal. *)
SpuriousWakeup ==
  /\ \/ producer = "waiting" /\ producer' = "woken" /\ UNCHANGED consumer
     \/ consumer = "waiting" /\ consumer' = "woken" /\ UNCHANGED producer
  /\ UNCHANGED <<shared, produced, consumed, sums, checks, main>>

(* main joins the threads in turn, then check_wait and check_results. *)
MainJoins ==
  /\ \/ main = "joinProducer" /\ producer = "done" /\ main' = "joinConsumer"
     \/ main = "joinConsumer" /\ consumer = "done" /\ main' = "checkResults"
  /\ UNCHANGED <<shared, producer, consumer, produced, consumed, sums, checks>>

MainChecksResults ==
  /\ main = "checkResults"
  /\ main' = "done"
  /\ Verdict(/\ processed_value_count = VALUE_COUNT
             /\ 2 * processed_value_sum = VALUE_COUNT * (VALUE_COUNT - 1))
  /\ UNCHANGED <<shared, producer, consumer, produced, consumed, sums, mutex1, cond1>>

Producer == ProducerIsChecked \/ ProducerWaits \/ Produces \/ ProducerEnds
Consumer == ConsumerIsChecked \/ ConsumerWaits \/ Consumes \/ ConsumerEnds
Main == MainJoins \/ MainChecksResults

Init ==
  /\ buffer = [i \in Slots |-> 0] /\ count = 0
  /\ producer = "checkMutex" /\ consumer = "checkMutex"
  /\ produced = 0 /\ consumed = 0
  /\ processed_value_count = 0 /\ processed_value_sum = 0 /\ processed = {}
  /\ mutex1 = NULL /\ cond1 = NULL /\ verdicts = {}
  /\ main = "joinProducer"

Next == Producer \/ Consumer \/ Main \/ SpuriousWakeup

Fairness == WF_vars(Producer) /\ WF_vars(Consumer) /\ WF_vars(Main)

Spec == Init /\ [][Next]_vars /\ Fairness

-----------------------------------------------------------------------------
(* Properties *)

TypeOK ==
  /\ buffer \in [Slots -> 0 .. VALUE_COUNT] /\ count \in 0 .. BUFFER_SIZE
  /\ producer \in ThreadAt /\ consumer \in ThreadAt
  /\ produced \in 0 .. VALUE_COUNT /\ consumed \in 0 .. VALUE_COUNT
  /\ processed_value_count \in 0 .. VALUE_COUNT /\ processed_value_sum \in Nat
  /\ mutex1 \in {NULL, "mutex"} /\ cond1 \in {NULL, "producer_cond", "consumer_cond"}
  /\ main \in {"joinProducer", "joinConsumer", "checkResults", "done"}
  /\ verdicts \subseteq {"PASS", "FAIL"}
  /\ processed \subseteq 0 .. VALUE_COUNT

InBuffer == {buffer[i] : i \in 0 .. count - 1}

(* Every value produced is in the buffer or has been processed, never both: *)
(* none is lost, none is processed twice, although slots are reused while   *)
(* older values still lie below them.                                       *)
ValuesPartitioned ==
  /\ InBuffer \union processed = 0 .. produced - 1
  /\ InBuffer \intersect processed = {}

(* A thread waits only while it has to: the signal of the other thread is   *)
(* never lost, so the two never wait for one another.                       *)
NoLostSignal ==
  /\ producer = "waiting" => count = BUFFER_SIZE
  /\ consumer = "waiting" => count = 0

(* checks.h never prints FAIL, in whatever order the threads reach it.      *)
ChecksPass == "FAIL" \notin verdicts

(* The program ends: both threads are joined and the results are judged.    *)
ProgramEnds == <>(main = "done")

=============================================================================
