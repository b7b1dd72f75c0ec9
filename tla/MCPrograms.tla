---------------------------- MODULE MCPrograms ----------------------------
(***************************************************************************)
(* Five programs that have nothing to do with each other: in each behavior *)
(* one of them is started, and the others stand still.                     *)
(***************************************************************************)
EXTENDS QueueChat, Signals, ThreadSum, PipeSum, FifoSum, TLC

CONSTANTS u1, u2, u3, s1, s2

Init ==
  \E program \in {"queue", "signals", "threads", "pipes", "fifos"} :
    /\ QueueInit(IF program = "queue" THEN Users ELSE {})
    /\ SignalsInit(program = "signals")
    /\ ThreadInit(program = "threads")
    /\ PipeInit(program = "pipes")
    /\ FifoInit(program = "fifos")

Next ==
  \/ QueueNext /\ UNCHANGED <<signalVars, threadVars, pipeVars, fifoVars>>
  \/ SignalsNext /\ UNCHANGED <<queueVars, threadVars, pipeVars, fifoVars>>
  \/ ThreadNext /\ UNCHANGED <<queueVars, signalVars, pipeVars, fifoVars>>
  \/ PipeNext /\ UNCHANGED <<queueVars, signalVars, threadVars, fifoVars>>
  \/ FifoNext /\ UNCHANGED <<queueVars, signalVars, threadVars, pipeVars>>

vars == <<queueVars, signalVars, threadVars, pipeVars, fifoVars>>

Spec ==
  Init /\ [][Next]_vars
    /\ QueueFairness /\ SignalsFairness /\ ThreadFairness /\ PipeFairness /\ FifoFairness

(* The variables of each program hold values of their kinds (those of the    *)
(* signals in SignalsSound).                                                *)
TypesOK == QueueTypeOK /\ ThreadTypeOK /\ PipeTypeOK /\ FifoTypeOK

(* No user of Lab 7 is forgotten; in Lab 6 nothing is printed but the        *)
(* integral, and its two programs do not wait for each other unless the     *)
(* calculator came too early.                                               *)
Sound ==
  /\ TypesOK
  /\ NobodyForgotten
  /\ PrintsTheIntegral /\ WaitsInVainOnlyAtFirst

=============================================================================
