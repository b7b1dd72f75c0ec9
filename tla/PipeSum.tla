------------------------------ MODULE PipeSum ------------------------------
(***************************************************************************)
(* Lab 6/zad1.c: for k = 1, 2, ..., children compute the parts of an       *)
(* integral and write them to a pipe each; the parent waits for all the    *)
(* children, closes its writing ends, and reads and adds what the pipes    *)
(* hold.  A read waits as long as its pipe is empty and somebody can write *)
(* to it; at the end of the pipe the program adds what its variable held.  *)
(* A child may be killed.  pipe and fork do not fail.                      *)
(***************************************************************************)
EXTENDS Integers, FiniteSets

CONSTANTS max_processes, Parent, Garbage

AllChildren == 0 .. max_processes - 1

ASSUME PipeAssumption ==
  /\ max_processes \in Nat \ {0}
  /\ Parent \notin AllChildren /\ Garbage \notin AllChildren

VARIABLES
  k, parent, n,     \* the round, where the parent is, and the counter of its loop
  child,            \* where each child is
  held,             \* the parts that are in their pipes
  writers,          \* the processes with a writing end of each pipe
  result,           \* the parent's local variable
  added             \* what the parent has added for each child

pipeVars == <<k, parent, n, child, held, writers, result, added>>

Children == 0 .. k - 1

-----------------------------------------------------------------------------
(* Lines 60-65. *)
ChildCloses(c) ==
  /\ child[c] = "forked"
  /\ child' = [child EXCEPT ![c] = "computing"]
  /\ writers' = [d \in AllChildren |-> IF d = c THEN writers[d] ELSE writers[d] \ {c}]
  /\ UNCHANGED <<k, parent, n, held, result, added>>

ChildWrites(c) ==
  /\ child[c] = "computing"
  /\ child' = [child EXCEPT ![c] = "written"]
  /\ held' = held \union {c}
  /\ UNCHANGED <<k, parent, n, writers, result, added>>

Leaves(c, place) ==
  /\ child' = [child EXCEPT ![c] = place]
  /\ writers' = [d \in AllChildren |-> writers[d] \ {c}]
  /\ UNCHANGED <<k, parent, n, held, result, added>>

ChildEnds(c) == child[c] = "written" /\ Leaves(c, "ended")

ChildIsKilled(c) == child[c] \in {"forked", "computing"} /\ Leaves(c, "killed")

Child(c) == ChildCloses(c) \/ ChildWrites(c) \/ ChildEnds(c)

-----------------------------------------------------------------------------
Steps(place) ==
  IF n = k - 1 THEN parent' = place /\ n' = 0 ELSE parent' = parent /\ n' = n + 1

(* Line 52: a child has all the ends its parent has open. *)
ParentForks ==
  /\ parent = "forking"
  /\ child' = [child EXCEPT ![n] = "forked"]
  /\ writers' = [d \in AllChildren |-> IF Parent \in writers[d] THEN writers[d] \union {n}
                                                               ELSE writers[d]]
  /\ Steps("waiting")
  /\ UNCHANGED <<k, held, result, added>>

LeftOpen_All(d) == writers[d]
LeftOpen(d) == writers[d] \ {Parent}

(* Lines 77-85. *)
ParentWaits ==
  /\ parent = "waiting"
  /\ \A c \in Children : child[c] \in {"ended", "killed"}
  /\ writers' = [d \in AllChildren |-> LeftOpen(d)]
  /\ parent' = "reading"
  /\ UNCHANGED <<k, n, child, held, result, added>>

PipeRead_First == 0
PipeRead == n

(* Lines 87-92: at the end of the pipe the read stores nothing. *)
ParentReads ==
  /\ parent = "reading"
  /\ PipeRead \in held \/ writers[PipeRead] = {}
  /\ result' \in (IF PipeRead \in held THEN {PipeRead} ELSE {result, Garbage})
  /\ added' = [added EXCEPT ![n] = result']
  /\ held' = held \ {PipeRead}
  /\ Steps("printing")
  /\ UNCHANGED <<k, child, writers>>

Opened(size) == [d \in AllChildren |-> IF d < size THEN {Parent} ELSE {}]

(* Lines 38-49 of the next round.  The reading ends stay open. *)
ParentBegins ==
  /\ parent = "printing" /\ k < max_processes
  /\ k' = k + 1
  /\ parent' = "forking"
  /\ child' = [c \in AllChildren |-> "absent"]
  /\ held' = {} /\ result' = Garbage /\ added' = [c \in AllChildren |-> Garbage]
  /\ writers' = Opened(k + 1)
  /\ UNCHANGED n

PipeParent == ParentForks \/ ParentWaits \/ ParentReads \/ ParentBegins

-----------------------------------------------------------------------------
PipeInit(started) ==
  /\ k = 1 /\ n = 0 /\ held = {} /\ result = Garbage
  /\ added = [c \in AllChildren |-> Garbage]
  /\ parent = IF started THEN "forking" ELSE "absent"
  /\ child = [c \in AllChildren |-> "absent"]
  /\ writers = Opened(1)

PipeNext == PipeParent \/ \E c \in AllChildren : Child(c) \/ ChildIsKilled(c)

PipeFairness == WF_pipeVars(PipeParent) /\ \A c \in AllChildren : WF_pipeVars(Child(c))

PipeSpec == PipeInit(TRUE) /\ [][PipeNext]_pipeVars /\ PipeFairness

-----------------------------------------------------------------------------
(* Properties *)

PipeTypeOK ==
  /\ k \in 1 .. max_processes /\ n \in AllChildren
  /\ parent \in {"absent", "forking", "waiting", "reading", "printing"}
  /\ child \in [AllChildren -> {"absent", "forked", "computing", "written", "ended", "killed"}]
  /\ held \subseteq Children /\ result \in AllChildren \union {Garbage}
  /\ added \in [AllChildren -> AllChildren \union {Garbage}]
  /\ writers \in [AllChildren -> SUBSET (AllChildren \union {Parent})]

PSum == INSTANCE Summation WITH
  parts <- Children,
  computed <- {c \in AllChildren : child[c] \in {"written", "ended"}},
  lost <- {c \in AllChildren : child[c] = "killed"},
  totals <- IF parent = "printing" THEN {[c \in Children |-> added[c]]} ELSE {}

(* What is printed for k is the sum of the parts of this k's children, each  *)
(* once; if one was killed, something is added in the place of its part.     *)
PipesSumUp ==
  /\ PSum!Begin({0})
  /\ [][\/ \E c \in AllChildren : PSum!Compute(c) \/ PSum!Lose(c)
        \/ PSum!Announce
        \/ PSum!Again(0 .. k)]_(PSum!sumVars)

(* The parent comes through all rounds, even if children are killed: no      *)
(* writing end is left that keeps a read of an empty pipe waiting.           *)
ParentComesThrough == (parent = "forking") ~> (parent = "printing" /\ k = max_processes)

=============================================================================
