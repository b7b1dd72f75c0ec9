------------------------------ MODULE Spooler ------------------------------
(***************************************************************************)
(* What Lab 8/README.md asks of the printing system: jobs are taken in the *)
(* order in which they were sent, by printers that are not busy, out of a  *)
(* queue of bounded length.  The program may be stopped and started again; *)
(* the jobs queued then are lost.                                          *)
(***************************************************************************)
EXTENDS Integers, Sequences

CONSTANTS Jobs, Printers, MAX_QUEUE

VARIABLES
  pending,    \* the jobs sent and not yet taken, oldest first
  busy        \* the printers that have taken a job and not finished with it

vars == <<pending, busy>>

Init == pending = <<>> /\ busy = {}

Send ==
  /\ Len(pending) < MAX_QUEUE
  /\ \E j \in Jobs : pending' = Append(pending, j)
  /\ UNCHANGED busy

Take(d) ==
  /\ d \notin busy /\ pending # <<>>
  /\ pending' = Tail(pending)
  /\ busy' = busy \union {d}

Finish(d) ==
  /\ d \in busy
  /\ busy' = busy \ {d}
  /\ UNCHANGED pending

Restart == pending' = <<>> /\ busy' = {}

Next == Send \/ Restart \/ \E d \in Printers : Take(d) \/ Finish(d)

Spec == Init /\ [][Next]_vars

=============================================================================
