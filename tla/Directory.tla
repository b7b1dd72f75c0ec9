----------------------------- MODULE Directory -----------------------------
(***************************************************************************)
(* What Lab 11/README.md and Lab 12/README.md ask of the list of clients a *)
(* chat server keeps: at most so many, each under a name of its own, each  *)
(* where it registered until it is dropped.  Any of them may be dropped,   *)
(* at any time and several at once.                                        *)
(***************************************************************************)
EXTENDS Integers, FiniteSets

CONSTANTS Names, Places

VARIABLES
  registered,   \* who is listed, and where
  capacity      \* how many may be; it does not change

vars == <<registered, capacity>>

Init == registered = {} /\ capacity \in Nat \ {0}

Register(name, place) ==
  /\ \A r \in registered : r.id # name
  /\ Cardinality(registered) < capacity
  /\ registered' = registered \union {[id |-> name, at |-> place]}
  /\ UNCHANGED capacity

Drop ==
  /\ \E gone \in SUBSET registered : registered' = registered \ gone
  /\ UNCHANGED capacity

Next == Drop \/ \E name \in Names, place \in Places : Register(name, place)

Spec == Init /\ [][Next]_vars

=============================================================================
