---------------------------- MODULE BufferProofs ----------------------------
(***************************************************************************)
(* Proofs of the safety properties of Buffer, for every BUFFER_SIZE and    *)
(* VALUE_COUNT.                                                            *)
(***************************************************************************)
EXTENDS Buffer, TLAPS

BufferInjective ==
  \A i, j \in 0 .. count - 1 : buffer[i] = buffer[j] => i = j

CountsAgree == produced = consumed + count /\ processed_value_count = consumed

Inv ==
  /\ TypeOK
  /\ ValuesPartitioned
  /\ BufferInjective
  /\ CountsAgree
  /\ NoLostSignal

-----------------------------------------------------------------------------
(* The invariant holds before the threads start. *)
LEMMA InitInv == Init => Inv
<1> SUFFICES ASSUME Init PROVE Inv
  OBVIOUS
<1> USE DEF Init
<1>1. TypeOK
  BY SizesAssumption DEF TypeOK, Slots, ThreadAt, NULL
<1>2. 0 .. count - 1 = {} /\ 0 .. produced - 1 = {}
  OBVIOUS
<1> QED
  BY <1>1, <1>2 DEF Inv, ValuesPartitioned, InBuffer, BufferInjective, CountsAgree, NoLostSignal

(* The producer writes above the values that are in the buffer. *)
LEMMA ProducesInv == ASSUME Inv, Produces PROVE Inv'
<1> USE DEF Inv, Produces
<1>1. /\ count \in 0 .. BUFFER_SIZE - 1 /\ count' = count + 1
      /\ produced \in 0 .. VALUE_COUNT - 1 /\ produced' = produced + 1
      /\ buffer'[count] = produced
      /\ \A i \in 0 .. count - 1 : buffer'[i] = buffer[i]
      /\ 0 .. count' - 1 = (0 .. count - 1) \union {count}
  BY SizesAssumption DEF TypeOK, Slots
<1>2. TypeOK'
  BY <1>1, SizesAssumption DEF TypeOK, Slots, Signalled, ThreadAt, sums, checks
<1>3. InBuffer' = InBuffer \union {produced}
  BY <1>1 DEF InBuffer
<1>4. produced \notin InBuffer /\ produced \notin processed
  BY <1>1 DEF ValuesPartitioned
<1>5. ValuesPartitioned'
  BY <1>1, <1>3, <1>4 DEF ValuesPartitioned, sums
<1>6. BufferInjective'
  BY <1>1, <1>4 DEF BufferInjective, InBuffer
<1>7. CountsAgree'
  BY <1>1 DEF CountsAgree, TypeOK, sums
<1>8. NoLostSignal'
  BY DEF NoLostSignal, Signalled
<1> QED
  BY <1>2, <1>5, <1>6, <1>7, <1>8

(* The consumer takes the topmost value. *)
LEMMA ConsumesInv == ASSUME Inv, Consumes PROVE Inv'
<1> DEFINE value == buffer[count - 1]
<1> USE DEF Inv, Consumes
<1>1. /\ count \in 1 .. BUFFER_SIZE /\ count' = count - 1
      /\ 0 .. count - 1 = (0 .. count' - 1) \union {count - 1}
      /\ count - 1 \in 0 .. count - 1 /\ count - 1 \notin 0 .. count' - 1
      /\ count - 1 \in Slots
      /\ consumed \in 0 .. VALUE_COUNT - 1
      /\ buffer' = buffer /\ produced' = produced
      /\ processed' = processed \union {value}
  BY SizesAssumption DEF TypeOK, Slots
<1>2. value \in 0 .. VALUE_COUNT
  BY <1>1 DEF TypeOK
<1>3. TypeOK'
  <2>1. processed_value_sum' \in Nat
    BY <1>2 DEF TypeOK
  <2>2. processed_value_count' \in 0 .. VALUE_COUNT
    BY <1>1, SizesAssumption DEF TypeOK, CountsAgree
  <2>3. processed' \subseteq 0 .. VALUE_COUNT
    BY <1>1, <1>2 DEF TypeOK
  <2>4. count' \in 0 .. BUFFER_SIZE /\ consumed' \in 0 .. VALUE_COUNT
    BY <1>1, SizesAssumption
  <2>5. producer' \in ThreadAt /\ consumer' \in ThreadAt
    BY DEF TypeOK, Signalled, ThreadAt
  <2> QED
    BY <2>1, <2>2, <2>3, <2>4, <2>5 DEF TypeOK, checks
<1>4. InBuffer = InBuffer' \union {value} /\ value \notin InBuffer'
  BY <1>1 DEF InBuffer, BufferInjective
<1>5. ValuesPartitioned'
  BY <1>1, <1>4 DEF ValuesPartitioned
<1>6. BufferInjective'
  BY <1>1 DEF BufferInjective
<1>7. CountsAgree'
  BY <1>1 DEF CountsAgree, TypeOK
<1>8. NoLostSignal'
  BY DEF NoLostSignal, Signalled
<1> QED
  BY <1>3, <1>5, <1>6, <1>7, <1>8

(* Every other step leaves the buffer and the counters alone. *)
LEMMA OtherInv ==
  ASSUME Inv,
         \/ ProducerIsChecked \/ ProducerWaits \/ ProducerEnds
         \/ ConsumerIsChecked \/ ConsumerWaits \/ ConsumerEnds
         \/ Main \/ SpuriousWakeup \/ UNCHANGED vars
  PROVE  Inv'
<1> USE DEF Inv
<1>1. UNCHANGED <<shared, produced, consumed, sums>>
  BY DEF ProducerIsChecked, ProducerWaits, ProducerEnds, ConsumerIsChecked, ConsumerWaits,
         ConsumerEnds, Main, MainJoins, MainChecksResults, SpuriousWakeup, vars
<1>2. /\ producer' \in ThreadAt /\ consumer' \in ThreadAt
      /\ producer' = "waiting" => count = BUFFER_SIZE
      /\ consumer' = "waiting" => count = 0
  BY DEF TypeOK, NoLostSignal, ThreadAt, ProducerIsChecked, ProducerWaits, ProducerEnds,
         ConsumerIsChecked, ConsumerWaits, ConsumerEnds, Main, MainJoins, MainChecksResults,
         SpuriousWakeup, vars
<1>3. /\ mutex1' \in {NULL, "mutex"} /\ cond1' \in {NULL, "producer_cond", "consumer_cond"}
      /\ main' \in {"joinProducer", "joinConsumer", "checkResults", "done"}
      /\ verdicts' \subseteq {"PASS", "FAIL"}
  BY DEF TypeOK, ProducerIsChecked, ProducerWaits, ProducerEnds,
         ConsumerIsChecked, ConsumerWaits, ConsumerEnds, Main, MainJoins, MainChecksResults,
         SpuriousWakeup, vars, checks, CheckMutex, CheckCond, Verdict
<1>4. TypeOK'
  BY <1>1, <1>2, <1>3 DEF TypeOK, shared, sums
<1> QED
  BY <1>1, <1>2, <1>4
  DEF ValuesPartitioned, InBuffer, BufferInjective, CountsAgree, NoLostSignal, shared, sums

(* The invariant is inductive. *)
LEMMA NextInv == Inv /\ [Next]_vars => Inv'
BY ProducesInv, ConsumesInv, OtherInv DEF Next, Producer, Consumer

(* The inductive invariant holds in every reachable state. *)
THEOREM InvHolds == Spec => []Inv
BY InitInv, NextInv, PTL DEF Spec

(* The buffer is never overrun and count never negative, for any sizes.     *)
THEOREM TypeCorrect == Spec => []TypeOK
<1>1. Inv => TypeOK
  BY DEF Inv
<1> QED
  BY <1>1, InvHolds, PTL

(* No value is lost or processed twice.                                     *)
THEOREM EachValueOnce == Spec => []ValuesPartitioned
<1>1. Inv => ValuesPartitioned
  BY DEF Inv
<1> QED
  BY <1>1, InvHolds, PTL

(* Neither thread waits while the other has already made room or a value,   *)
(* and they never wait for each other.                                      *)
THEOREM SignalsArrive ==
  Spec => [](NoLostSignal /\ ~(producer = "waiting" /\ consumer = "waiting"))
<1>1. Inv => NoLostSignal /\ ~(producer = "waiting" /\ consumer = "waiting")
  BY SizesAssumption DEF Inv, NoLostSignal
<1> QED
  BY <1>1, InvHolds, PTL

-----------------------------------------------------------------------------
(* The checks *)

(* s[i] is the sum of the i lowest values in the buffer. *)
SumsOfBuffer(s) ==
  /\ s \in [0 .. BUFFER_SIZE -> Nat] /\ s[0] = 0
  /\ \A i \in 0 .. count - 1 : s[i + 1] = s[i] + buffer[i]

(* What was processed and what is in the buffer are together the sum of all *)
(* values produced.                                                         *)
SumAgrees ==
  \E s : /\ SumsOfBuffer(s)
         /\ 2 * (processed_value_sum + s[count]) = produced * (produced - 1)

(* A thread checks its condition when a mutex is known, and before anybody  *)
(* has announced that condition; it waits while it has values to pass on,   *)
(* and main judges when both threads have done all they had to do.          *)
InTurn ==
  /\ producer # "checkMutex" \/ consumer # "checkMutex" => mutex1 = "mutex"
  /\ producer \in {"checkMutex", "checkCond"} => cond1 # "producer_cond"
  /\ consumer \in {"checkMutex", "checkCond"} => cond1 # "consumer_cond"
  /\ producer = "waiting" => produced < VALUE_COUNT
  /\ consumer = "waiting" => consumed < VALUE_COUNT
  /\ producer = "done" => produced = VALUE_COUNT
  /\ consumer = "done" => consumed = VALUE_COUNT
  /\ main # "joinProducer" => producer = "done"
  /\ main \in {"checkResults", "done"} => consumer = "done"

Judged == SumAgrees /\ InTurn /\ ChecksPass

LEMMA InitJudged == Init => Judged
<1> SUFFICES ASSUME Init PROVE Judged
  OBVIOUS
<1> DEFINE s == [i \in 0 .. BUFFER_SIZE |-> 0]
<1>1. SumsOfBuffer(s) /\ s[count] = 0
  BY SizesAssumption DEF Init, SumsOfBuffer
<1>2. 2 * (processed_value_sum + 0) = produced * (produced - 1)
  BY DEF Init
<1>3. SumAgrees
  BY <1>1, <1>2 DEF SumAgrees
<1> QED
  BY <1>3 DEF Init, Judged, InTurn, ChecksPass, NULL

LEMMA NextNumber ==
  ASSUME NEW n \in Nat
  PROVE  (n + 1) * ((n + 1) - 1) = n * (n - 1) + 2 * n
OBVIOUS

(* A value goes on top, and the sums below stay. *)
LEMMA ProducesSum == ASSUME Inv, SumAgrees, Produces PROVE SumAgrees'
<1>1. /\ count \in 0 .. BUFFER_SIZE - 1 /\ count' = count + 1
      /\ produced \in Nat /\ produced' = produced + 1
      /\ buffer' = [buffer EXCEPT ![count] = produced]
      /\ processed_value_sum \in Nat /\ processed_value_sum' = processed_value_sum
      /\ buffer \in [Slots -> 0 .. VALUE_COUNT]
  BY SizesAssumption DEF Inv, TypeOK, Produces, sums
<1>2. PICK s : SumsOfBuffer(s) /\ 2 * (processed_value_sum + s[count]) = produced * (produced - 1)
  BY DEF SumAgrees
<1>3. PICK t : /\ t \in [0 .. BUFFER_SIZE -> Nat] /\ t[0] = 0
              /\ t[count + 1] = s[count] + produced
              /\ \A i \in 0 .. count : t[i] = s[i]
  <2> WITNESS [s EXCEPT ![count + 1] = s[count] + produced]
  <2> QED
    BY <1>1, <1>2, SizesAssumption DEF SumsOfBuffer
<1>4. \A i \in 0 .. count' - 1 : t[i + 1] = t[i] + buffer'[i]
  <2> TAKE i \in 0 .. count' - 1
  <2>1. CASE i = count
    BY <1>1, <1>3, <2>1, SizesAssumption DEF Slots
  <2>2. CASE i \in 0 .. count - 1
    <3>1. buffer'[i] = buffer[i] /\ t[i] = s[i] /\ t[i + 1] = s[i + 1]
      BY <1>1, <1>3, <2>2, SizesAssumption DEF Slots
    <3> QED
      BY <1>2, <2>2, <3>1 DEF SumsOfBuffer
  <2> QED
    BY <1>1, <2>1, <2>2
<1>5. 2 * (processed_value_sum + t[count + 1]) = (produced + 1) * ((produced + 1) - 1)
  <2>1. s[count] \in Nat
    BY <1>1, <1>2, SizesAssumption DEF SumsOfBuffer
  <2>2. 2 * (processed_value_sum + (s[count] + produced))
          = 2 * (processed_value_sum + s[count]) + 2 * produced
    BY <1>1, <2>1
  <2> QED
    BY <1>1, <1>2, <1>3, <2>2, NextNumber
<1>6. SumsOfBuffer(t)'
  BY <1>3, <1>4 DEF SumsOfBuffer
<1> QED
  BY <1>1, <1>5, <1>6 DEF SumAgrees

(* The topmost value moves from the buffer to what was processed. *)
LEMMA ConsumesSum == ASSUME Inv, SumAgrees, Consumes PROVE SumAgrees'
<1>1. /\ count \in 1 .. BUFFER_SIZE /\ count' = count - 1
      /\ processed_value_sum \in Nat
      /\ processed_value_sum' = processed_value_sum + buffer[count - 1]
      /\ buffer[count - 1] \in Nat
      /\ UNCHANGED <<buffer, produced>>
  BY SizesAssumption DEF Inv, TypeOK, Consumes, Slots
<1>2. PICK s : SumsOfBuffer(s) /\ 2 * (processed_value_sum + s[count]) = produced * (produced - 1)
  BY DEF SumAgrees
<1>3. s[count] = s[count - 1] + buffer[count - 1] /\ s[count - 1] \in Nat
  BY <1>1, <1>2, SizesAssumption DEF SumsOfBuffer
<1>4. SumsOfBuffer(s)'
  BY <1>1, <1>2 DEF SumsOfBuffer
<1>5. processed_value_sum' + s[count'] = processed_value_sum + s[count]
  BY <1>1, <1>3
<1> QED
  BY <1>1, <1>2, <1>4, <1>5 DEF SumAgrees

LEMMA OtherSum ==
  ASSUME SumAgrees, UNCHANGED <<shared, produced, processed_value_sum>>
  PROVE  SumAgrees'
BY DEF SumAgrees, SumsOfBuffer, shared

(* At the end the buffer is empty, and the sum is that of all the values. *)
LEMMA RightResults ==
  ASSUME Inv, SumAgrees, InTurn, main = "checkResults"
  PROVE  /\ processed_value_count = VALUE_COUNT
         /\ 2 * processed_value_sum = VALUE_COUNT * (VALUE_COUNT - 1)
<1>1. produced = VALUE_COUNT /\ consumed = VALUE_COUNT
  BY DEF InTurn
<1>2. count = 0 /\ processed_value_count = VALUE_COUNT /\ processed_value_sum \in Nat
  BY <1>1, SizesAssumption DEF Inv, TypeOK, CountsAgree
<1>3. 2 * (processed_value_sum + 0) = VALUE_COUNT * (VALUE_COUNT - 1)
  BY <1>1, <1>2 DEF SumAgrees, SumsOfBuffer
<1> QED
  BY <1>2, <1>3

LEMMA NextJudged == Inv /\ Judged /\ [Next]_vars => Judged'
<1> SUFFICES ASSUME Inv, Judged, [Next]_vars PROVE Judged'
  OBVIOUS
<1> USE DEF Judged, shared, sums, checks
<1>1. CASE Produces
  BY <1>1, ProducesSum DEF Produces, InTurn, Signalled, Running, ChecksPass
<1>2. CASE Consumes
  BY <1>2, ConsumesSum DEF Consumes, InTurn, Signalled, Running, ChecksPass
<1>3. CASE ProducerIsChecked
  <2>1. Verdict(TRUE) \/ UNCHANGED verdicts
    BY <1>3 DEF ProducerIsChecked, CheckMutex, CheckCond, Inv, TypeOK, InTurn, NULL
  <2> QED
    BY <1>3, <2>1, OtherSum
       DEF ProducerIsChecked, CheckMutex, CheckCond, Verdict, Inv, TypeOK, InTurn, ChecksPass, NULL
<1>4. CASE ConsumerIsChecked
  <2>1. Verdict(TRUE)
    BY <1>4 DEF ConsumerIsChecked, CheckMutex, CheckCond, Inv, TypeOK, InTurn, NULL
  <2> QED
    BY <1>4, <2>1, OtherSum
       DEF ConsumerIsChecked, CheckMutex, CheckCond, Verdict, Inv, TypeOK, InTurn, ChecksPass, NULL
<1>5. CASE ProducerWaits \/ ProducerEnds \/ ConsumerWaits \/ ConsumerEnds \/ SpuriousWakeup
  BY <1>5, OtherSum DEF ProducerWaits, ProducerEnds, ConsumerWaits, ConsumerEnds, SpuriousWakeup,
                       Running, InTurn, ChecksPass
<1>6. CASE MainJoins
  BY <1>6, OtherSum DEF MainJoins, InTurn, ChecksPass
<1>7. CASE MainChecksResults
  <2>1. Verdict(TRUE)
    BY <1>7, RightResults DEF MainChecksResults, Verdict
  <2> QED
    BY <1>7, <2>1, OtherSum DEF MainChecksResults, Verdict, InTurn, ChecksPass
<1>8. CASE UNCHANGED vars
  BY <1>8, OtherSum DEF vars, InTurn, ChecksPass
<1> QED
  BY <1>1, <1>2, <1>3, <1>4, <1>5, <1>6, <1>7, <1>8 DEF Next, Producer, Consumer, Main

(* For any sizes and any order of the threads, checks.h prints no FAIL: the  *)
(* mutex and the conditions are announced as it asks, and the sum of what    *)
(* was processed is that of all the values.                                  *)
THEOREM VerdictsPass == Spec => []ChecksPass
<1>1. Judged => ChecksPass
  BY DEF Judged
<1>2. Spec => Init /\ [][Next]_vars
  BY DEF Spec
<1> QED
  BY <1>1, <1>2, InvHolds, InitJudged, NextJudged, PTL

(* Whoever waits is waited for by nobody: the other thread neither waits nor *)
(* has ended, and so comes to signal.  Were one to end while the other       *)
(* waits, main would join the sleeper for ever.                              *)
THEOREM NobodyLeftWaiting ==
  Spec => [](/\ producer = "waiting" => consumer \notin {"waiting", "done"}
             /\ consumer = "waiting" => producer \notin {"waiting", "done"})
<1> DEFINE Partnered == /\ producer = "waiting" => consumer \notin {"waiting", "done"}
                        /\ consumer = "waiting" => producer \notin {"waiting", "done"}
<1>1. Inv /\ Judged => Partnered
  BY SizesAssumption DEF Inv, TypeOK, CountsAgree, NoLostSignal, Judged, InTurn
<1>2. Spec => Init /\ [][Next]_vars
  BY DEF Spec
<1> HIDE DEF Partnered
<1>3. Spec => []Partnered
  BY <1>1, <1>2, InvHolds, InitJudged, NextJudged, PTL
<1> QED
  BY <1>3 DEF Partnered

=============================================================================
