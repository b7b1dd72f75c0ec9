------------------------------ MODULE Signals ------------------------------
(***************************************************************************)
(* Lab 5/catcher.c and Lab 5/sender.c.  A sender puts a mode in a signal,  *)
(* the catcher's handler stores it and confirms, and the catcher's main    *)
(* loop carries the mode out.  A handler runs between any two steps of what *)
(* it interrupts, the main loop or the other handler, and ends a pause.    *)
(*                                                                         *)
(* SIGUSR1 is not queued: while one is pending another is lost.  It waits   *)
(* while its handler runs; SIGINT does not wait for either handler.  The   *)
(* programs are compiled with -std=c11 and _POSIX_C_SOURCE, so that signal *)
(* installs a handler for one call: after it the default is back.          *)
(***************************************************************************)
EXTENDS Naturals, FiniteSets

CONSTANTS
  Senders, NoSender,
  MaxInterrupts     \* bound: Ctrl+C pressed

ASSUME SignalsAssumption == NoSender \notin Senders /\ MaxInterrupts \in Nat

Modes == 1 .. 5

VARIABLES
  mode, count, sender_pid,
  catcher,          \* where the main loop is
  running,          \* what the catcher runs: its main loop, or a handler above it
  info, signal_line,  \* handle_signal: the request it was called for, the next of its lines
  ctrl_c_line,      \* handle_ctrl_c: the next of its lines
  sigint,           \* what Ctrl+C does to the catcher
  pending,          \* the SIGUSR1 that waits for the catcher
  sender,           \* where each sender is
  confirmation,     \* of each sender: none, under way, received
  lost,             \* senders whose signal was lost
  interrupts

stored == <<mode, count, sender_pid>>
frames == <<running, info, signal_line, ctrl_c_line>>
senders == <<sender, confirmation, lost>>
signalVars == <<stored, catcher, frames, sigint, pending, senders, interrupts>>

NoRequest == [from |-> NoSender, mode |-> 0]

-----------------------------------------------------------------------------
(* sender.c *)

SenderSends(s) ==
  /\ sender[s] = "off"
  /\ IF catcher = "ended"
       THEN sender' = [sender EXCEPT ![s] = "failed"] /\ UNCHANGED <<pending, lost>>
       ELSE /\ sender' = [sender EXCEPT ![s] = "testing"]
            /\ \/ /\ pending = NoRequest /\ UNCHANGED lost
                  /\ \E m \in Modes : pending' = [from |-> s, mode |-> m]
               \/ pending # NoRequest /\ lost' = lost \union {s} /\ UNCHANGED pending
  /\ UNCHANGED <<stored, catcher, frames, sigint, confirmation, interrupts>>

SenderTests(s) ==
  /\ sender[s] = "testing"
  /\ sender' = [sender EXCEPT ![s] = IF confirmation[s] = "received" THEN "done" ELSE "pausing"]
  /\ UNCHANGED <<stored, catcher, frames, sigint, pending, confirmation, lost, interrupts>>

SenderPauses(s) ==
  /\ sender[s] = "pausing"
  /\ sender' = [sender EXCEPT ![s] = "paused"]
  /\ UNCHANGED <<stored, catcher, frames, sigint, pending, confirmation, lost, interrupts>>

(* confirmation_handler. *)
SenderIsConfirmed(s) ==
  /\ confirmation[s] = "sent"
  /\ confirmation' = [confirmation EXCEPT ![s] = "received"]
  /\ sender' = [sender EXCEPT ![s] = IF @ = "paused" THEN "testing" ELSE @]
  /\ UNCHANGED <<stored, catcher, frames, sigint, pending, lost, interrupts>>

Sender(s) == SenderSends(s) \/ SenderTests(s) \/ SenderPauses(s) \/ SenderIsConfirmed(s)

-----------------------------------------------------------------------------
(* catcher.c *)

Runs(what) == catcher # "ended" /\ running = what

Awake == IF catcher = "paused" THEN "switch" ELSE catcher

(* The kernel delivers SIGUSR1, which ends a catcher that has not come to    *)
(* line 50; else handle_signal is called, and SIGUSR1 blocked until it      *)
(* returns.                                                                 *)
CatcherIsSignalled ==
  /\ pending # NoRequest /\ info = NoRequest /\ catcher # "ended"
  /\ IF catcher = "starting"
       THEN catcher' = "ended" /\ UNCHANGED <<pending, frames>>
       ELSE /\ info' = pending /\ pending' = NoRequest
            /\ signal_line' = 18 /\ running' = "handle_signal" /\ UNCHANGED ctrl_c_line
            /\ catcher' = Awake
  /\ UNCHANGED <<stored, sigint, senders, interrupts>>

SenderPid_TheFirst(s) == IF sender_pid = NoSender THEN s ELSE sender_pid
SenderPid(s) == s

(* handle_signal, line by line.  After the last what it interrupted goes on. *)
CatcherHandles ==
  /\ Runs("handle_signal")
  /\ \/ /\ signal_line = 18 /\ signal_line' = 19
        /\ mode' = info.mode
        /\ UNCHANGED <<count, sender_pid, info, running, confirmation>>
     \/ /\ signal_line = 19 /\ signal_line' = 20
        /\ sender_pid' = SenderPid(info.from)
        /\ UNCHANGED <<mode, count, info, running, confirmation>>
     \/ /\ signal_line = 20 /\ signal_line' = 22
        /\ count' = count + 1
        /\ UNCHANGED <<mode, sender_pid, info, running, confirmation>>
     \/ /\ signal_line = 22 /\ signal_line' = 0
        /\ confirmation' = [confirmation EXCEPT ![sender_pid] = "sent"]
        /\ info' = NoRequest
        /\ running' = IF ctrl_c_line = 0 THEN "main" ELSE "handle_ctrl_c"
        /\ UNCHANGED stored
  /\ UNCHANGED <<catcher, ctrl_c_line, sigint, pending, sender, lost, interrupts>>

(* SIGINT, whatever the catcher runs. *)
CatcherIsInterrupted ==
  /\ catcher # "ended" /\ interrupts < MaxInterrupts
  /\ interrupts' = interrupts + 1
  /\ \/ sigint = "ignore" /\ UNCHANGED <<catcher, frames, sigint>>
     \/ sigint = "default" /\ catcher' = "ended" /\ UNCHANGED <<frames, sigint>>
     \/ /\ sigint = "handle_ctrl_c" /\ sigint' = "default"
        /\ ctrl_c_line' = 27 /\ running' = "handle_ctrl_c" /\ UNCHANGED <<info, signal_line>>
        /\ catcher' = Awake
  /\ UNCHANGED <<stored, pending, senders>>

(* handle_ctrl_c, which SIGUSR1 may interrupt between its two looks at mode. *)
CatcherHandlesCtrlC ==
  LET Returns == /\ ctrl_c_line' = 0
                 /\ running' = IF info = NoRequest THEN "main" ELSE "handle_signal"
                 /\ UNCHANGED catcher
      GoesTo(line) == ctrl_c_line' = line /\ UNCHANGED <<running, catcher>>
  IN  /\ Runs("handle_ctrl_c")
      /\ \/ ctrl_c_line = 27 /\ IF mode = 4 THEN Returns ELSE GoesTo(29)
         \/ ctrl_c_line = 29 /\ IF mode = 3 THEN Returns ELSE GoesTo(30)
         \/ ctrl_c_line = 30 /\ catcher' = "ended" /\ UNCHANGED <<running, ctrl_c_line>>
      /\ UNCHANGED <<stored, info, signal_line, sigint, pending, senders, interrupts>>

MainGoes(from, to) == Runs("main") /\ catcher = from /\ catcher' = to

(* Lines 50 and 55. *)
CatcherStarts ==
  /\ \/ MainGoes("starting", "started") /\ UNCHANGED sigint
     \/ MainGoes("started", "switch") /\ sigint' = "handle_ctrl_c"
  /\ UNCHANGED <<stored, frames, pending, senders, interrupts>>

(* The switch on mode. *)
CatcherSwitches ==
  /\ MainGoes("switch", CASE mode = 1 -> "printed"
                          [] mode = 2 -> "numbers"
                          [] mode = 3 -> "ignoring"
                          [] mode = 4 -> "catching"
                          [] mode = 5 -> "ending"
                          [] OTHER    -> "pausing")
  /\ UNCHANGED <<stored, frames, sigint, pending, senders, interrupts>>

(* Line 64: whatever the mode is by now. *)
CatcherClearsMode ==
  /\ MainGoes("printed", "switch")
  /\ mode' = 0
  /\ UNCHANGED <<count, sender_pid, frames, sigint, pending, senders, interrupts>>

Counting_ForEver == TRUE
Counting == mode = 2

(* print_numbers returns. *)
CatcherStopsCounting ==
  /\ ~Counting /\ MainGoes("numbers", "switch")
  /\ UNCHANGED <<stored, frames, sigint, pending, senders, interrupts>>

CatcherSetsCtrlC ==
  /\ \/ MainGoes("ignoring", "switch") /\ sigint' = "ignore"
     \/ MainGoes("catching", "switch") /\ sigint' = "handle_ctrl_c"
  /\ UNCHANGED <<stored, frames, pending, senders, interrupts>>

CatcherPauses ==
  /\ MainGoes("pausing", "paused")
  /\ UNCHANGED <<stored, frames, sigint, pending, senders, interrupts>>

(* Line 85. *)
CatcherReturns ==
  /\ MainGoes("ending", "ended")
  /\ UNCHANGED <<stored, frames, sigint, pending, senders, interrupts>>

CatcherMain ==
  \/ CatcherStarts \/ CatcherSwitches \/ CatcherClearsMode \/ CatcherStopsCounting
  \/ CatcherSetsCtrlC \/ CatcherPauses \/ CatcherReturns

CatcherRuns == CatcherMain \/ CatcherHandles \/ CatcherHandlesCtrlC

-----------------------------------------------------------------------------
(* The catcher has printed its PID, line 43. *)
SignalsInit(started) ==
  /\ mode = 0 /\ count = 0 /\ sender_pid = NoSender
  /\ catcher = (IF started THEN "starting" ELSE "ended") /\ running = "main"
  /\ info = NoRequest /\ signal_line = 0 /\ ctrl_c_line = 0
  /\ sigint = "default" /\ pending = NoRequest
  /\ sender = [s \in Senders |-> IF started THEN "off" ELSE "failed"]
  /\ confirmation = [s \in Senders |-> "none"]
  /\ lost = {} /\ interrupts = 0

SignalsNext ==
  \/ \E s \in Senders : Sender(s)
  \/ CatcherIsSignalled \/ CatcherIsInterrupted \/ CatcherRuns

(* Both programs run, and a pending signal is delivered; when a sender is    *)
(* started and Ctrl+C pressed is up to the user.                             *)
SignalsFairness ==
  /\ WF_signalVars(CatcherIsSignalled) /\ WF_signalVars(CatcherRuns)
  /\ \A s \in Senders :
       WF_signalVars(SenderTests(s) \/ SenderPauses(s)) /\ WF_signalVars(SenderIsConfirmed(s))

SignalsSpec == SignalsInit(TRUE) /\ [][SignalsNext]_signalVars /\ SignalsFairness

-----------------------------------------------------------------------------
(* Properties *)

SignalsTypeOK ==
  /\ mode \in {0} \union Modes /\ count \in Nat /\ sender_pid \in Senders \union {NoSender}
  /\ catcher \in {"starting", "started", "switch", "printed", "numbers", "ignoring", "catching",
                  "pausing", "paused", "ending", "ended"}
  /\ running \in {"main", "handle_signal", "handle_ctrl_c"}
  /\ signal_line \in {0, 18, 19, 20, 22} /\ ctrl_c_line \in {0, 27, 29, 30}
  /\ sigint \in {"handle_ctrl_c", "ignore", "default"}
  /\ pending \in [from : Senders, mode : Modes] \union {NoRequest}
  /\ info \in [from : Senders, mode : Modes] \union {NoRequest}
  /\ sender \in [Senders -> {"off", "testing", "pausing", "paused", "done", "failed"}]
  /\ confirmation \in [Senders -> {"none", "sent", "received"}]
  /\ lost \subseteq Senders /\ interrupts \in 0 .. MaxInterrupts

Sent(s) == sender[s] \in {"testing", "pausing", "paused"}

Waiting == {s \in Senders : pending.from = s}
BeingHandled == {s \in Senders : info.from = s}
Confirmed == {s \in Senders : confirmation[s] # "none"}

(* A signal that was sent waits for the catcher, is being handled, was lost  *)
(* behind another, or is confirmed to its sender: exactly one of the four,  *)
(* always, also when Ctrl+C ends the catcher within its handler             *)
(* (catcher.c:15-23) or a signal comes before there is one.  A sender ends   *)
(* only when confirmed.  count is the number of the confirmed, and of the   *)
(* one counted at line 20 and not confirmed yet, or never.                  *)
RequestsAccountedFor ==
  /\ {s \in Senders : Sent(s) \/ sender[s] = "done"}
       = Waiting \union BeingHandled \union lost \union Confirmed
  /\ Waiting \intersect BeingHandled = {} /\ (Waiting \union BeingHandled) \intersect lost = {}
  /\ (Waiting \union BeingHandled \union lost) \intersect Confirmed = {}
  /\ \A s \in Senders : sender[s] = "done" => confirmation[s] = "received"
  /\ count = Cardinality(Confirmed) + (IF signal_line = 22 THEN 1 ELSE 0)

(* What the catcher and the senders keep is of its kind and adds up. *)
SignalsSound == SignalsTypeOK /\ RequestsAccountedFor

(* Those that have sent come to an end, but for the ones whose signal was    *)
(* lost behind another, who sent to a catcher that has ended, or whose      *)
(* confirmation came between test and pause (sender.c:34-35): those are the *)
(* ways, and the only ones, to wait for ever.                               *)
SendersEnd ==
  (\E s \in Senders : Sent(s))
    ~> \A s \in Senders :
         Sent(s) => \/ s \in lost \/ catcher = "ended"
                    \/ sender[s] = "paused" /\ confirmation[s] = "received"

CarriedOut(m) ==
  CASE m = 1 -> catcher = "printed"
    [] m = 2 -> catcher = "numbers"
    [] m = 3 -> sigint = "ignore"
    [] m = 4 -> sigint = "handle_ctrl_c"
    [] m = 5 -> catcher = "ended"

(* When a mode has been stored, the one that is there in the end is carried  *)
(* out, whichever the catcher was in before, unless it was reset (line 64),  *)
(* the catcher ended, or it was stored between the switch and the pause      *)
(* (line 79), where the catcher sleeps on it until the next signal.          *)
ModesAreCarriedOut ==
  (mode # 0) ~> (mode = 0 \/ CarriedOut(mode) \/ catcher \in {"paused", "ended"})

=============================================================================
