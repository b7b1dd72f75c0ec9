----------------------------- MODULE Summation -----------------------------
(***************************************************************************)
(* What the programs that split an integral promise (Lab 6/zad1.c and Lab  *)
(* 9/zad1.c): parts are computed in any order, and the total announced is  *)
(* the sum of all of them, each once.  When the worker of a part is lost,  *)
(* what is added for that part may be anything.                            *)
(***************************************************************************)
CONSTANT Garbage    \* a number that is no part

VARIABLES
  parts, computed, lost,
  totals            \* the total announced, as what was added for each part

sumVars == <<parts, computed, lost, totals>>

Begin(ps) ==
  /\ parts = ps /\ computed = {} /\ lost = {} /\ totals = {}

Compute(p) ==
  /\ totals = {} /\ p \notin lost
  /\ computed' = computed \union {p}
  /\ UNCHANGED <<parts, lost, totals>>

Lose(p) ==
  /\ totals = {} /\ p \notin computed
  /\ lost' = lost \union {p}
  /\ UNCHANGED <<parts, computed, totals>>

Announce ==
  /\ totals = {} /\ parts = computed \union lost
  /\ \E total \in [parts -> parts \union {Garbage}] :
       /\ \A p \in computed : total[p] = p
       /\ totals' = {total}
  /\ UNCHANGED <<parts, computed, lost>>

(* The same again, with parts ps. *)
Again(ps) ==
  /\ totals # {}
  /\ parts' = ps /\ computed' = {} /\ lost' = {} /\ totals' = {}

=============================================================================
