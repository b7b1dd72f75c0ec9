--------------------------- MODULE SummationProofs ---------------------------
(***************************************************************************)
(* Lab 9/zad1.c, for any number of threads, and Lab 6/zad1.c, for any      *)
(* number of rounds and any children killed: what is printed is the sum of *)
(* the parts, each once, of all that computed one; and no read of a pipe   *)
(* waits for a writer.                                                     *)
(***************************************************************************)
EXTENDS ThreadSum, PipeSum, TLAPS

(* The threads *)

(* The two arrays follow the threads; what main has found ready stays so.  *)
ThreadInv ==
  /\ ThreadTypeOK
  /\ results = {t \in Threads : thread[t] \in {"stored", "ended"}}
  /\ ready = {t \in Threads : thread[t] = "ended"}
  /\ main = "starting" => \A t \in Threads : t >= m => thread[t] = "absent"
  /\ main = "polling" => \A t \in Threads : t < m => t \in ready
  /\ main \in {"adding", "over"} => ready = Threads
  /\ main = "adding" => \A t \in Threads : t < m => sum[t] = t
  /\ main = "over" => \A t \in Threads : sum[t] = t

LEMMA ThreadInvInit == ASSUME NEW started \in BOOLEAN, ThreadInit(started) PROVE ThreadInv
BY ThreadAssumption DEF ThreadAssumption, ThreadInit, ThreadInv, ThreadTypeOK, Threads

(* What main does at thread m it does before it comes to m + 1. *)
LEMMA Upward ==
  ASSUME NEW here \in Threads
  PROVE  /\ 0 \in Threads
         /\ here # num_threads - 1 => here + 1 \in Threads
         /\ \A t \in Threads : t < here + 1 => t < here \/ t = here
         /\ here = num_threads - 1 => \A t \in Threads : t < here \/ t = here
         /\ \A t \in Threads : ~(t < 0)
BY ThreadAssumption DEF ThreadAssumption, Threads

(* A thread whose part is counted does not come back to it. *)
LEMMA ThreadInvStep == ThreadInv /\ [ThreadNext]_threadVars => ThreadInv'
<1> SUFFICES ASSUME ThreadInv, [ThreadNext]_threadVars PROVE ThreadInv'
  OBVIOUS
<1> USE DEF ThreadInv, ThreadTypeOK
<1>m. m \in Threads /\ Threads \subseteq Int
  BY DEF Threads
<1>1. CASE MainStarts
  <2>1. /\ thread' = [thread EXCEPT ![m] = "computing"] /\ thread[m] = "absent"
        /\ UNCHANGED <<results, ready, sum>>
    BY <1>1, <1>m DEF MainStarts
  <2>2. /\ results' = {t \in Threads : thread'[t] \in {"stored", "ended"}}
        /\ ready' = {t \in Threads : thread'[t] = "ended"}
    BY <2>1
  <2>3. /\ m' \in Threads
        /\ \/ main' = "polling" /\ m' = 0
           \/ main' = "starting" /\ m' = m + 1
    BY <1>1, <1>m, Upward DEF MainStarts, MovesAfterLast, Moves, Last
  <2>4. main' = "starting" => \A t \in Threads : t >= m' => thread'[t] = "absent"
    BY <1>1, <2>1, <2>3, <1>m DEF MainStarts
  <2> QED
    BY <1>1, <2>1, <2>2, <2>3, <2>4, Upward
<1>2. CASE MainPolls
  <2>1. UNCHANGED <<results, ready, thread, sum>>
    BY <1>2 DEF MainPolls
  <2>2. CASE m \in ready /\ m = num_threads - 1
    <3>1. main = "polling" /\ main' = "adding" /\ m' = 0
      BY <1>2, <2>2 DEF MainPolls, Counts, MovesAfterLast, Moves, Last
    <3>2. \A t \in Threads : t \in ready
      BY <2>2, <3>1, Upward
    <3>3. ready' = Threads
      BY <2>1, <3>2
    <3> QED
      BY <2>1, <3>1, <3>3, Upward
  <2>3. CASE m \in ready /\ m # num_threads - 1
    BY <1>2, <2>1, <2>3, <1>m, Upward DEF MainPolls, Counts, MovesAfterLast, Last
  <2>4. CASE m \notin ready
    BY <1>2, <2>1, <2>4, <1>m, Upward DEF MainPolls, Counts, Moves
  <2> QED
    BY <2>2, <2>3, <2>4
<1>3. CASE MainAdds
  <2>1. /\ m \in results
        /\ sum' = [sum EXCEPT ![m] = m]
        /\ UNCHANGED <<results, ready, thread>>
    BY <1>3, <1>m DEF MainAdds
  <2>2. sum' \in [Threads -> Threads \union {Uninitialized}]
    BY <2>1, <1>m
  <2>3. \A t \in Threads : t < m \/ t = m => sum'[t] = t
    BY <1>3, <2>1, <1>m DEF MainAdds
  <2>4. CASE m = num_threads - 1
    BY <1>3, <2>1, <2>2, <2>3, <2>4, <1>m, Upward DEF MainAdds, MovesAfterLast, Moves, Last
  <2>5. CASE m # num_threads - 1
    BY <1>3, <2>1, <2>2, <2>3, <2>5, <1>m, Upward DEF MainAdds, MovesAfterLast, Last
  <2> QED
    BY <2>4, <2>5
<1>4. ASSUME NEW t \in Threads, ThreadStores(t) PROVE ThreadInv'
  BY <1>4 DEF ThreadStores
<1>5. ASSUME NEW t \in Threads, ThreadIsReady(t) PROVE ThreadInv'
  BY <1>5 DEF ThreadIsReady
<1>6. CASE UNCHANGED threadVars
  BY <1>6 DEF threadVars
<1> QED
  BY <1>1, <1>2, <1>3, <1>4, <1>5, <1>6 DEF ThreadNext, ThreadMain, Thread

LEMMA ThreadInvHolds == ThreadSpec => []ThreadInv
<1>1. ThreadSpec => ThreadInit(TRUE) /\ [][ThreadNext]_threadVars
  BY DEF ThreadSpec
<1>2. ThreadInit(TRUE) => ThreadInv
  BY ThreadInvInit
<1> QED
  BY <1>1, <1>2, ThreadInvStep, PTL

-----------------------------------------------------------------------------
(* The refinement *)

ThreadImplements == (\E t \in Threads : Sum!Compute(t)) \/ Sum!Announce

LEMMA ThreadBeginsAsSummation == ThreadInit(TRUE) => Sum!Begin(Threads)
BY DEF ThreadInit, Sum!Begin

(* Storing a result computes a part, the last addition announces the total,  *)
(* and nothing else is seen.                                                 *)
LEMMA ThreadStepsAsSummation ==
  ThreadInv /\ ThreadInv' /\ [ThreadNext]_threadVars => [ThreadImplements]_(Sum!sumVars)
<1> SUFFICES ASSUME ThreadInv, ThreadInv', [ThreadNext]_threadVars
             PROVE  ThreadImplements \/ UNCHANGED Sum!sumVars
  BY DEF Sum!sumVars
<1> USE DEF ThreadInv, ThreadTypeOK
<1>1. CASE MainAdds
  <2>1. main = "adding" /\ UNCHANGED results /\ results = Threads
    BY <1>1 DEF MainAdds
  <2>2. main' \in {"adding", "over"}
    BY <1>1 DEF MainAdds, MovesAfterLast, Moves
  <2>3. CASE main' = "over"
    <3>1. sum' \in [Threads -> Threads \union {Uninitialized}] /\ \A p \in results : sum'[p] = p
      BY <2>1, <2>3
    <3> QED
      BY <2>1, <2>3, <3>1 DEF ThreadImplements, Sum!Announce
  <2> QED
    BY <2>1, <2>2, <2>3 DEF Sum!sumVars
<1>2. CASE MainStarts \/ MainPolls
  BY <1>2 DEF MainStarts, MainPolls, MovesAfterLast, Moves, Sum!sumVars
<1>3. ASSUME NEW t \in Threads, ThreadStores(t) PROVE Sum!Compute(t)
  BY <1>3 DEF ThreadStores, Sum!Compute
<1>4. ASSUME NEW t \in Threads, ThreadIsReady(t) PROVE UNCHANGED Sum!sumVars
  BY <1>4 DEF ThreadIsReady, Sum!sumVars
<1>5. CASE UNCHANGED threadVars
  BY <1>5 DEF threadVars, Sum!sumVars
<1> QED
  BY <1>1, <1>2, <1>3, <1>4, <1>5 DEF ThreadNext, ThreadMain, Thread, ThreadImplements

(* The variables of the threads program hold values of their kinds. *)
THEOREM ThreadTypesHold == ThreadSpec => []ThreadTypeOK
<1>1. ThreadInv => ThreadTypeOK
  BY DEF ThreadInv
<1> QED
  BY <1>1, ThreadInvHolds, PTL

(* For any number of threads, main prints the sum of all the parts.          *)
THEOREM ThreadsImplementSummation == ThreadSpec => ThreadsSumUp
<1>1. ThreadSpec => ThreadInit(TRUE) /\ [][ThreadNext]_threadVars
  BY DEF ThreadSpec
<1> QED
  BY <1>1, ThreadInvHolds, ThreadBeginsAsSummation, ThreadStepsAsSummation, PTL DEF ThreadsSumUp, ThreadImplements

-----------------------------------------------------------------------------
(* The pipes *)

USE PipeAssumption DEF PipeAssumption

WrittenParts == {c \in AllChildren : child[c] \in {"written", "ended"}}
AtTheEnd == {"ended", "killed"}

(* Who may still hold a writing end. *)
Running == {c \in AllChildren : child[c] \in {"forked", "computing", "written"}}
NobodyWrites == \A d \in AllChildren : writers[d] = {}

(* A part stays in its pipe until the parent, which reads when all children  *)
(* have come to their end, has added it.                                     *)
PipeInv ==
  /\ PipeTypeOK
  /\ n \in Children /\ result \in Children \union {Garbage}
  /\ \A c \in AllChildren : added[c] \in Children \union {Garbage}
  /\ \A c \in AllChildren : c >= k => child[c] = "absent"
  /\ parent = "absent" => \A c \in AllChildren : child[c] = "absent"
  /\ parent = "forking" => \A c \in AllChildren : c >= n <=> child[c] = "absent"
  /\ parent \in {"waiting", "reading", "printing"} => \A c \in Children : child[c] # "absent"
  /\ parent \in {"reading", "printing"} => \A c \in Children : child[c] \in AtTheEnd
  /\ parent \in {"absent", "forking", "waiting"} => held = WrittenParts
  /\ parent = "reading" => /\ \A c \in WrittenParts : c >= n => c \in held
                           /\ \A c \in WrittenParts : c < n => added[c] = c
  /\ parent = "printing" => \A c \in WrittenParts : added[c] = c
  /\ parent \in {"waiting", "printing"} => n = 0
  /\ parent \in {"reading", "printing"} => NobodyWrites
  /\ \A d \in AllChildren : writers[d] \subseteq {Parent} \union Running

LEMMA Sizes ==
  /\ AllChildren \subseteq Int /\ 0 \in AllChildren
  /\ k \in 1 .. max_processes =>
            /\ Children \subseteq AllChildren /\ 0 \in Children
            /\ \A c \in AllChildren : c \in Children <=> c < k
            /\ \A c \in Children : c # k - 1 => c + 1 \in Children
            /\ \A c \in Children : c >= 0 /\ (c < k)
BY DEF AllChildren, Children

LEMMA PipeInvInit == ASSUME NEW started \in BOOLEAN, PipeInit(started) PROVE PipeInv
BY Sizes DEF PipeInit, PipeInv, PipeTypeOK, AllChildren, Children, Opened, WrittenParts, Running,
             NobodyWrites

LEMMA PipeInvStep == PipeInv /\ [PipeNext]_pipeVars => PipeInv'
<1> SUFFICES ASSUME PipeInv, [PipeNext]_pipeVars PROVE PipeInv'
  OBVIOUS
<1> USE DEF PipeInv, PipeTypeOK, WrittenParts, AtTheEnd, Running, NobodyWrites
<1>1. CASE ParentForks
  <2>1. /\ parent = "forking" /\ UNCHANGED <<k, held, result, added>>
        /\ child' = [child EXCEPT ![n] = "forked"]
        /\ child[n] = "absent"
    BY <1>1, Sizes DEF ParentForks
  <2>2. writers' \in [AllChildren -> SUBSET (AllChildren \union {Parent})]
    BY <1>1, Sizes DEF ParentForks
  <2>3. held' = WrittenParts'
    BY <2>1
  <2>4. \/ n = k - 1 /\ parent' = "waiting" /\ n' = 0
        \/ n # k - 1 /\ parent' = "forking" /\ n' = n + 1
    BY <1>1, <2>1 DEF ParentForks, Steps
  <2>5. Children' = Children
    BY <2>1 DEF Children
  <2>6. \A c \in AllChildren : c >= n + 1 <=> child'[c] = "absent"
    BY <2>1, Sizes
  <2>7. child' \in [AllChildren -> {"absent", "forked", "computing", "written", "ended", "killed"}]
    BY <2>1, Sizes
  <2>8. \A d \in AllChildren : writers'[d] \subseteq {Parent} \union Running'
    <3>1. Running' = Running \union {n}
      BY <2>1, Sizes
    <3>2. \A d \in AllChildren : writers'[d] \subseteq writers[d] \union {n}
      BY <1>1 DEF ParentForks
    <3> HIDE DEF Running
    <3> QED
      BY <3>1, <3>2
  <2> HIDE DEF Running
  <2>9. CASE n = k - 1
    <3>1. parent' = "waiting" /\ n' = 0
      BY <2>4, <2>9
    <3>2. \A c \in Children : child'[c] # "absent"
      BY <2>6, <2>9, Sizes
    <3> QED
      BY <2>1, <2>2, <2>3, <2>5, <2>6, <2>7, <2>8, <3>1, <3>2, Sizes
  <2>10. CASE n # k - 1
    <3>1. parent' = "forking" /\ n' = n + 1 /\ n' \in Children'
      BY <2>4, <2>5, <2>10, Sizes
    <3> QED
      BY <2>1, <2>2, <2>3, <2>5, <2>6, <2>7, <2>8, <3>1, Sizes
  <2> QED
    BY <2>9, <2>10
<1>2. CASE ParentWaits
  <2>1. /\ parent = "waiting" /\ parent' = "reading"
        /\ \A c \in Children : child[c] \in {"ended", "killed"}
        /\ writers' = [d \in AllChildren |-> writers[d] \ {Parent}]
        /\ UNCHANGED <<k, n, child, held, result, added>> /\ Children' = Children
    BY <1>2 DEF ParentWaits, LeftOpen, Children
  <2>2. Running = {} /\ Running' = {}
    <3>1. \A c \in AllChildren : child[c] \in {"ended", "killed", "absent"}
      <4>1. \A c \in AllChildren : c \in Children \/ c >= k
        BY Sizes
      <4> QED
        BY <2>1, <4>1
    <3>2. Running = {} /\ Running' = Running
      BY <2>1, <3>1
    <3> QED
      BY <3>2
  <2>3. \A d \in AllChildren : writers'[d] = {}
    <3> HIDE DEF Running
    <3> QED
      BY <2>1, <2>2
  <2> QED
    BY <2>1, <2>2, <2>3, Sizes
<1>3. CASE ParentReads
  BY <1>3, Sizes DEF ParentReads, PipeRead, Steps, Children
<1>4. CASE ParentBegins
  BY <1>4, Sizes DEF ParentBegins, Opened, Children, AllChildren
<1>5. ASSUME NEW c \in AllChildren, ChildCloses(c) PROVE PipeInv'
  BY <1>5, Sizes DEF ChildCloses, Children
<1>6. ASSUME NEW c \in AllChildren, ChildWrites(c) PROVE PipeInv'
  BY <1>6, Sizes DEF ChildWrites, Children
<1>7. ASSUME NEW c \in AllChildren, ChildEnds(c) PROVE PipeInv'
  BY <1>7, Sizes DEF ChildEnds, Leaves, Children
<1>8. ASSUME NEW c \in AllChildren, ChildIsKilled(c) PROVE PipeInv'
  BY <1>8, Sizes DEF ChildIsKilled, Leaves, Children
<1>9. CASE UNCHANGED pipeVars
  BY <1>9 DEF pipeVars, Children
<1> QED
  BY <1>1, <1>2, <1>3, <1>4, <1>5, <1>6, <1>7, <1>8, <1>9 DEF PipeNext, PipeParent, Child

LEMMA PipeInvHolds == PipeSpec => []PipeInv
<1>1. PipeSpec => PipeInit(TRUE) /\ [][PipeNext]_pipeVars
  BY DEF PipeSpec
<1>2. PipeInit(TRUE) => PipeInv
  BY PipeInvInit
<1> QED
  BY <1>1, <1>2, PipeInvStep, PTL

-----------------------------------------------------------------------------
(* The refinement *)

PipeImplements ==
  \/ \E c \in AllChildren : PSum!Compute(c) \/ PSum!Lose(c)
  \/ PSum!Announce
  \/ PSum!Again(0 .. k)

LEMMA PipeBeginsAsSummation == PipeInit(TRUE) => PSum!Begin({0})
BY Sizes DEF PipeInit, PSum!Begin, Children, AllChildren

(* A write computes a part and a kill loses one; the last read announces the *)
(* total, the next round begins again, and nothing else is seen.             *)
LEMMA PipeStepsAsSummation ==
  PipeInv /\ PipeInv' /\ [PipeNext]_pipeVars => [PipeImplements]_(PSum!sumVars)
<1> SUFFICES ASSUME PipeInv, PipeInv', [PipeNext]_pipeVars
             PROVE  PipeImplements \/ UNCHANGED PSum!sumVars
  BY DEF PSum!sumVars
<1> USE DEF PipeInv, PipeTypeOK, WrittenParts, AtTheEnd
<1>1. CASE ParentForks
  BY <1>1, Sizes DEF ParentForks, Steps, PSum!sumVars, Children
<1>2. CASE ParentWaits
  BY <1>2, Sizes DEF ParentWaits, PSum!sumVars, Children
<1>3. CASE ParentReads
  <2>1. UNCHANGED <<k, child>> /\ parent = "reading" /\ Children' = Children
    BY <1>3 DEF ParentReads, Children
  <2>2. CASE parent' = "reading"
    BY <2>1, <2>2 DEF PSum!sumVars
  <2>3. CASE parent' = "printing"
    <3> DEFINE total == [c \in Children |-> added'[c]]
    <3>1. \A c \in WrittenParts : c \in Children /\ added'[c] = c
      BY <2>1, <2>3, Sizes
    <3>2. \A c \in Children : added'[c] \in Children \union {Garbage}
      BY <2>1, Sizes
    <3>3. total \in [Children -> Children \union {Garbage}]
      BY <3>2
    <3> QED
      <4>1. \A p \in WrittenParts : total[p] = p
        BY <3>1
      <4>2. \A c \in Children : c \in AllChildren /\ child[c] \in {"ended", "killed"}
        BY <2>1, Sizes
      <4>3. \A c \in AllChildren : child[c] = "killed" => c \in Children
        BY Sizes
      <4>4. Children = WrittenParts \union {c \in AllChildren : child[c] = "killed"}
        BY <3>1, <4>2, <4>3
      <4>5. PSum!Announce
        BY <2>1, <2>3, <3>3, <4>1, <4>4 DEF PSum!Announce
      <4> QED
        BY <4>5 DEF PipeImplements
  <2> QED
    BY <1>3, <2>1, <2>2, <2>3 DEF ParentReads, Steps
<1>4. CASE ParentBegins
  BY <1>4, Sizes DEF ParentBegins, PipeImplements, PSum!Again, Children, AllChildren
<1>5. ASSUME NEW c \in AllChildren, ChildCloses(c) PROVE UNCHANGED PSum!sumVars
  BY <1>5 DEF ChildCloses, PSum!sumVars, Children
<1>6. ASSUME NEW c \in AllChildren, ChildWrites(c) PROVE PSum!Compute(c)
  BY <1>6, Sizes DEF ChildWrites, PSum!Compute, Children
<1>7. ASSUME NEW c \in AllChildren, ChildEnds(c) PROVE UNCHANGED PSum!sumVars
  BY <1>7 DEF ChildEnds, Leaves, PSum!sumVars, Children
<1>8. ASSUME NEW c \in AllChildren, ChildIsKilled(c) PROVE PSum!Lose(c)
  BY <1>8, Sizes DEF ChildIsKilled, Leaves, PSum!Lose, Children
<1>9. CASE UNCHANGED pipeVars
  BY <1>9 DEF pipeVars, PSum!sumVars, Children
<1> QED
  BY <1>1, <1>2, <1>3, <1>4, <1>5, <1>6, <1>7, <1>8, <1>9
     DEF PipeNext, PipeParent, Child, PipeImplements

(* When the parent reads, no process has a writing end of any pipe: each read *)
(* returns at once, with a part or at the end of the pipe (zad1.c:77-92).     *)
THEOREM ReadsReturn == PipeSpec => [](parent = "reading" => \A d \in AllChildren : writers[d] = {})
<1>1. PipeInv => (parent = "reading" => \A d \in AllChildren : writers[d] = {})
  BY DEF PipeInv, NobodyWrites
<1> QED
  BY <1>1, PipeInvHolds, PTL

(* The variables of the pipes program hold values of their kinds. *)
THEOREM PipeTypesHold == PipeSpec => []PipeTypeOK
<1>1. PipeInv => PipeTypeOK
  BY DEF PipeInv
<1> QED
  BY <1>1, PipeInvHolds, PTL

(* For any number of rounds, each prints the sum of the parts of its         *)
(* children, with something in the place of those that were killed.          *)
THEOREM PipesImplementSummation == PipeSpec => PipesSumUp
<1>1. PipeSpec => PipeInit(TRUE) /\ [][PipeNext]_pipeVars
  BY DEF PipeSpec
<1> QED
  BY <1>1, PipeInvHolds, PipeBeginsAsSummation, PipeStepsAsSummation, PTL DEF PipesSumUp, PipeImplements

=============================================================================
