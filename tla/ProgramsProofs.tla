--------------------------- MODULE ProgramsProofs ---------------------------
(***************************************************************************)
(* For any number of senders, every signal of Lab 5 is waiting, being      *)
(* handled, lost or confirmed; the asker of Lab 6 prints nothing but the   *)
(* integral it asked for; and what the small programs keep is of its kind. *)
(***************************************************************************)
EXTENDS MCPrograms, QueueChatProofs, SummationProofs, TLAPS, FiniteSetTheorems

(* The signals *)

(* The lines of handle_signal and the request it was called for. *)
HandlingInv ==
  /\ signal_line = 0 <=> info = NoRequest
  /\ signal_line \in {20, 22} => sender_pid = info.from

SignalsInv ==
  /\ SignalsTypeOK /\ RequestsAccountedFor
  /\ HandlingInv
  /\ IsFiniteSet(Confirmed)

LEMMA SignalsInvInit == ASSUME NEW started \in BOOLEAN, SignalsInit(started) PROVE SignalsInv
<1>1. Confirmed = {} /\ Waiting = {} /\ BeingHandled = {}
  BY SignalsAssumption
     DEF SignalsAssumption, SignalsInit, Confirmed, Waiting, BeingHandled, NoRequest
<1>2. IsFiniteSet({}) /\ Cardinality({}) = 0
  BY FS_EmptySet
<1>3. SignalsTypeOK
  BY SignalsAssumption DEF SignalsAssumption, SignalsInit, SignalsTypeOK, NoRequest
<1>4. \A s \in Senders : ~Sent(s) /\ sender[s] # "done"
  BY DEF SignalsInit, Sent
<1>5. HandlingInv
  BY DEF SignalsInit, HandlingInv
<1> QED
  BY <1>1, <1>2, <1>3, <1>4, <1>5 DEF SignalsInit, SignalsInv, RequestsAccountedFor

(* The types, step by step. *)
LEMMA SignalsTypeStep == ASSUME SignalsTypeOK, [SignalsNext]_signalVars PROVE SignalsTypeOK'
<1> USE DEF SignalsTypeOK, stored, frames, senders
<1>1. ASSUME NEW s \in Senders, Sender(s) PROVE SignalsTypeOK'
  <2>1. CASE SenderSends(s)
    BY <2>1 DEF SenderSends
  <2>2. CASE SenderTests(s) \/ SenderPauses(s) \/ SenderIsConfirmed(s)
    BY <2>2 DEF SenderTests, SenderPauses, SenderIsConfirmed
  <2> QED
    BY <1>1, <2>1, <2>2 DEF Sender
<1>2. CASE CatcherIsSignalled
  BY <1>2 DEF CatcherIsSignalled, Awake
<1>3. CASE CatcherHandles
  <2>1. info = NoRequest \/ info \in [from : Senders, mode : Modes]
    OBVIOUS
  <2>2. info.mode \in {0} \union Modes /\ info.from \in Senders \union {NoSender}
    BY <2>1 DEF NoRequest
  <2> QED
    BY <1>3, <2>2 DEF CatcherHandles, SenderPid
<1>4. CASE CatcherIsInterrupted
  BY <1>4, SignalsAssumption DEF SignalsAssumption, CatcherIsInterrupted, Awake
<1>5. CASE CatcherHandlesCtrlC
  BY <1>5 DEF CatcherHandlesCtrlC
<1>6. CASE CatcherMain
  BY <1>6 DEF CatcherMain, CatcherStarts, CatcherSwitches, CatcherClearsMode, CatcherStopsCounting,
              CatcherSetsCtrlC, CatcherPauses, CatcherReturns, MainGoes
<1>7. CASE UNCHANGED signalVars
  BY <1>7 DEF signalVars
<1> QED
  BY <1>1, <1>2, <1>3, <1>4, <1>5, <1>6, <1>7 DEF SignalsNext, CatcherRuns

(* A step that sends, handles and confirms nothing. *)
LEMMA SignalsStay ==
  ASSUME SignalsInv, SignalsTypeOK', HandlingInv', UNCHANGED <<pending, info, lost, count>>,
         signal_line' = 22 <=> signal_line = 22,
         \A s \in Senders : confirmation'[s] = "none" <=> confirmation[s] = "none",
         \A s \in Senders : Sent(s)' \/ sender'[s] = "done" <=> Sent(s) \/ sender[s] = "done",
         \A s \in Senders : sender'[s] = "done" => confirmation'[s] = "received"
  PROVE  SignalsInv'
<1>1. Confirmed' = Confirmed /\ Waiting' = Waiting /\ BeingHandled' = BeingHandled
  BY DEF Confirmed, Waiting, BeingHandled
<1>2. {s \in Senders : Sent(s) \/ sender[s] = "done"}'
        = {s \in Senders : Sent(s) \/ sender[s] = "done"}
  OBVIOUS
<1> QED
  BY <1>1, <1>2 DEF SignalsInv, RequestsAccountedFor

LEMMA SenderStep ==
  ASSUME SignalsInv, SignalsTypeOK', NEW s \in Senders, Sender(s)
  PROVE  SignalsInv'
<1>t. SignalsTypeOK
  BY DEF SignalsInv
<1>d. \A r \in Senders : sender[r] = "done" => confirmation[r] = "received"
  BY DEF SignalsInv, RequestsAccountedFor
<1>h. HandlingInv' /\ UNCHANGED <<info, signal_line, count>>
  BY DEF SignalsInv, HandlingInv, Sender, SenderSends, SenderTests, SenderPauses,
         SenderIsConfirmed, stored, frames
<1>1. CASE SenderSends(s)
  <2>1. /\ sender[s] = "off" /\ UNCHANGED confirmation
        /\ Confirmed' = Confirmed /\ BeingHandled' = BeingHandled
    BY <1>h, <1>1 DEF SenderSends, Confirmed, BeingHandled
  <2>2. CASE catcher = "ended"
    <3>1. UNCHANGED <<pending, lost>> /\ sender' = [sender EXCEPT ![s] = "failed"]
      BY <1>1, <2>2 DEF SenderSends
    <3>2. \A r \in Senders : /\ Sent(r)' \/ sender'[r] = "done" <=> Sent(r) \/ sender[r] = "done"
                             /\ sender'[r] = "done" => sender[r] = "done"
      BY <1>t, <2>1, <3>1 DEF SignalsTypeOK, Sent
    <3> QED
      BY <1>d, <1>h, <2>1, <3>1, <3>2, SignalsStay
  <2>3. CASE catcher # "ended"
    <3>1. /\ sender' = [sender EXCEPT ![s] = "testing"]
          /\ \/ /\ pending = NoRequest /\ lost' = lost
                /\ \E requested \in Modes : pending' = [from |-> s, mode |-> requested]
             \/ pending # NoRequest /\ lost' = lost \union {s} /\ pending' = pending
      BY <1>1, <2>3 DEF SenderSends
    <3>2. \A r \in Senders : /\ Sent(r)' \/ sender'[r] = "done" <=> r = s \/ Sent(r) \/ sender[r] = "done"
                             /\ sender'[r] = "done" => sender[r] = "done"
      BY <1>t, <2>1, <3>1 DEF SignalsTypeOK, Sent
    <3>3. {r \in Senders : Sent(r) \/ sender[r] = "done"}'
            = {r \in Senders : Sent(r) \/ sender[r] = "done"} \union {s}
      BY <3>2
    <3>4. s \notin Waiting /\ s \notin BeingHandled /\ s \notin lost /\ s \notin Confirmed
      <4>1. ~Sent(s) /\ sender[s] # "done"
        BY <2>1 DEF Sent
      <4> QED
        BY <4>1 DEF SignalsInv, RequestsAccountedFor
    <3>5. \/ Waiting = {} /\ Waiting' = {s} /\ lost' = lost
          \/ Waiting' = Waiting /\ lost' = lost \union {s}
      BY <3>1, SignalsAssumption DEF SignalsAssumption, Waiting, NoRequest
    <3>6. \A r \in Senders : sender'[r] = "done" => confirmation'[r] = "received"
      BY <1>d, <2>1, <3>2
    <3> QED
      BY <1>h, <2>1, <3>3, <3>4, <3>5, <3>6 DEF SignalsInv, RequestsAccountedFor
  <2> QED
    BY <2>2, <2>3
<1>2. CASE SenderTests(s) \/ SenderPauses(s)
  <2>1. /\ sender[s] \in {"testing", "pausing"} /\ UNCHANGED <<pending, lost, confirmation>>
        /\ \/ sender' = [sender EXCEPT ![s] = "paused"]
           \/ sender' = [sender EXCEPT ![s] = IF confirmation[s] = "received" THEN "done" ELSE "pausing"]
    BY <1>2 DEF SenderTests, SenderPauses
  <2>2. \A r \in Senders : /\ Sent(r)' \/ sender'[r] = "done" <=> Sent(r) \/ sender[r] = "done"
                           /\ sender'[r] = "done" => confirmation[r] = "received"
    BY <1>t, <1>d, <2>1 DEF SignalsTypeOK, Sent
  <2> QED
    BY <1>h, <2>1, <2>2, SignalsStay
<1>3. CASE SenderIsConfirmed(s)
  <2>1. /\ confirmation[s] = "sent" /\ UNCHANGED <<pending, lost>>
        /\ confirmation' = [confirmation EXCEPT ![s] = "received"]
        /\ sender' = [sender EXCEPT ![s] = IF sender[s] = "paused" THEN "testing" ELSE sender[s]]
    BY <1>3 DEF SenderIsConfirmed
  <2>2. \A r \in Senders : /\ Sent(r)' \/ sender'[r] = "done" <=> Sent(r) \/ sender[r] = "done"
                           /\ sender'[r] = "done" => sender[r] = "done"
    BY <1>t, <2>1 DEF SignalsTypeOK, Sent
  <2>3. \A r \in Senders : /\ confirmation'[r] = "none" <=> confirmation[r] = "none"
                           /\ confirmation[r] = "received" => confirmation'[r] = "received"
    BY <1>t, <2>1 DEF SignalsTypeOK
  <2> QED
    BY <1>d, <1>h, <2>1, <2>2, <2>3, SignalsStay
<1> QED
  BY <1>1, <1>2, <1>3 DEF Sender

(* The request that waited is the one handled, or ends the catcher. *)
LEMMA SignalledStep ==
  ASSUME SignalsInv, SignalsTypeOK', CatcherIsSignalled
  PROVE  SignalsInv'
<1>1. UNCHANGED <<stored, senders>> /\ pending # NoRequest /\ info = NoRequest
  BY DEF CatcherIsSignalled
<1>2. CASE catcher = "starting"
  <2>1. UNCHANGED <<pending, frames>>
    BY <1>2 DEF CatcherIsSignalled
  <2>2. HandlingInv' /\ \A r \in Senders : Sent(r)' <=> Sent(r)
    BY <1>1, <2>1 DEF SignalsInv, HandlingInv, stored, senders, frames, Sent
  <2> QED
    BY <1>1, <2>1, <2>2, SignalsStay
       DEF stored, senders, frames, SignalsInv, RequestsAccountedFor
<1>3. CASE catcher # "starting"
  <2>1. info' = pending /\ pending' = NoRequest /\ signal_line' = 18
    BY <1>3 DEF CatcherIsSignalled
  <2>2. HandlingInv' /\ signal_line = 0
    BY <1>1, <2>1 DEF SignalsInv, HandlingInv
  <2>3. BeingHandled' = Waiting /\ BeingHandled = {} /\ Waiting' = {} /\ Confirmed' = Confirmed
    BY <1>1, <2>1, SignalsAssumption
       DEF SignalsAssumption, BeingHandled, Waiting, Confirmed, NoRequest, senders
  <2>4. \A r \in Senders : Sent(r)' <=> Sent(r)
    BY <1>1 DEF senders, Sent
  <2> QED
    BY <1>1, <2>1, <2>2, <2>3, <2>4 DEF SignalsInv, RequestsAccountedFor, stored, senders
<1> QED
  BY <1>2, <1>3

(* Line 20 counts, line 22 confirms. *)
LEMMA HandlesStep ==
  ASSUME SignalsInv, SignalsTypeOK', CatcherHandles
  PROVE  SignalsInv'
<1>t. SignalsTypeOK /\ HandlingInv
  BY DEF SignalsInv
<1>d. \A r \in Senders : sender[r] = "done" => confirmation[r] = "received"
  BY DEF SignalsInv, RequestsAccountedFor
<1>1. UNCHANGED <<pending, sender, lost>> /\ \A r \in Senders : Sent(r)' <=> Sent(r)
  BY DEF CatcherHandles, Sent
<1>2. CASE signal_line \in {18, 19}
  <2>1. /\ UNCHANGED <<count, info, confirmation>> /\ signal_line' \in {19, 20}
        /\ signal_line' = 20 => sender_pid' = info.from
    BY <1>2 DEF CatcherHandles, SenderPid
  <2>2. HandlingInv'
    BY <1>t, <1>2, <2>1 DEF HandlingInv
  <2> QED
    BY <1>d, <1>1, <1>2, <2>1, <2>2, SignalsStay
<1>3. CASE signal_line = 20
  <2>1. signal_line' = 22 /\ count' = count + 1 /\ UNCHANGED <<sender_pid, info, confirmation>>
    BY <1>3 DEF CatcherHandles
  <2>2. HandlingInv'
    BY <1>t, <1>3, <2>1 DEF HandlingInv
  <2>3. Confirmed' = Confirmed /\ Waiting' = Waiting /\ BeingHandled' = BeingHandled
    BY <1>1, <2>1 DEF Confirmed, Waiting, BeingHandled
  <2>4. Cardinality(Confirmed) \in Nat
    BY FS_CardinalityType DEF SignalsInv
  <2> QED
    BY <1>d, <1>1, <1>3, <2>1, <2>2, <2>3, <2>4 DEF SignalsInv, RequestsAccountedFor
<1>4. CASE signal_line = 22
  <2>1. PICK s \in Senders : info.from = s /\ sender_pid = s
    BY <1>t, <1>4 DEF HandlingInv, SignalsTypeOK
  <2>2. /\ signal_line' = 0 /\ info' = NoRequest /\ UNCHANGED stored
        /\ confirmation' = [confirmation EXCEPT ![s] = "sent"]
    BY <1>4, <2>1 DEF CatcherHandles
  <2>3. BeingHandled = {s} /\ BeingHandled' = {} /\ Waiting' = Waiting
    BY <1>1, <2>1, <2>2, SignalsAssumption
       DEF SignalsAssumption, BeingHandled, Waiting, NoRequest
  <2>4. /\ \A r \in Senders : confirmation'[r] = IF r = s THEN "sent" ELSE confirmation[r]
        /\ s \notin Confirmed /\ s \notin lost /\ s \notin Waiting
    BY <1>t, <2>2, <2>3 DEF SignalsTypeOK, SignalsInv, RequestsAccountedFor
  <2>5. Confirmed' = Confirmed \union {s}
    BY <2>4 DEF Confirmed
  <2>6. IsFiniteSet(Confirmed') /\ Cardinality(Confirmed') = Cardinality(Confirmed) + 1
    BY <2>4, <2>5, FS_AddElement DEF SignalsInv
  <2>7. Cardinality(Confirmed) \in Nat
    BY FS_CardinalityType DEF SignalsInv
  <2>8. \A r \in Senders : sender'[r] = "done" => confirmation'[r] = "received"
    BY <1>d, <1>1, <2>4 DEF Confirmed
  <2>9. HandlingInv' /\ count' = count
    BY <2>2 DEF HandlingInv, stored
  <2> QED
    BY <1>1, <1>4, <2>2, <2>3, <2>4, <2>5, <2>6, <2>7, <2>8, <2>9 DEF SignalsInv, RequestsAccountedFor
<1> QED
  BY <1>2, <1>3, <1>4 DEF CatcherHandles

LEMMA SignalsInvStep == SignalsInv /\ [SignalsNext]_signalVars => SignalsInv'
<1> SUFFICES ASSUME SignalsInv, [SignalsNext]_signalVars PROVE SignalsInv'
  OBVIOUS
<1>1. SignalsTypeOK'
  BY SignalsTypeStep DEF SignalsInv
<1>2. CASE CatcherIsInterrupted \/ CatcherHandlesCtrlC \/ CatcherMain \/ UNCHANGED signalVars
  <2>1. UNCHANGED <<pending, info, signal_line, sender_pid, count, senders>>
    BY <1>2 DEF CatcherIsInterrupted, CatcherHandlesCtrlC, CatcherMain, CatcherStarts,
                CatcherSwitches, CatcherClearsMode, CatcherStopsCounting, CatcherSetsCtrlC,
                CatcherPauses, CatcherReturns, signalVars, stored, frames
  <2>2. HandlingInv' /\ \A r \in Senders : Sent(r)' <=> Sent(r)
    BY <2>1 DEF SignalsInv, HandlingInv, Sent, senders
  <2> QED
    BY <1>1, <2>1, <2>2, SignalsStay DEF senders, SignalsInv, RequestsAccountedFor
<1> QED
  BY <1>1, <1>2, SenderStep, SignalledStep, HandlesStep DEF SignalsNext, CatcherRuns

(* Every signal that was sent waits for the catcher, is being handled, was   *)
(* lost behind another or is confirmed to its sender, and count is the       *)
(* number of the confirmed and of the one counted and not confirmed          *)
(* (catcher.c:15-23), wherever Ctrl+C comes in between.                      *)
THEOREM SignalsAccountedFor == SignalsSpec => []SignalsSound
<1>1. SignalsInit(TRUE) => SignalsInv
  BY SignalsInvInit
<1>2. SignalsInv => SignalsSound
  BY DEF SignalsInv, SignalsSound
<1> QED
  BY <1>1, <1>2, SignalsInvStep, PTL DEF SignalsSpec

-----------------------------------------------------------------------------
(* The FIFOs *)

(* The asker opens the FIFO of the answers when the calculator reads that of *)
(* the questions; the calculator that has come to the answers has the        *)
(* questions open.                                                           *)
FifoInv ==
  /\ FifoTypeOK
  /\ asker \in {"open result", "wait result", "ask", "read", "over"} => "reader" \in at["to_calculate"]
  /\ "reader" \in at["result"] => asker \in {"wait result", "ask", "read", "over"}
  /\ "reader" \in at["to_calculate"] => calculator = "wait first" \/ "to_calculate" \in connected
  /\ "result" \in connected => "to_calculate" \in connected
  /\ answer # "none" => asked /\ answer = "integral"
  /\ asker = "over" => answer # "none"

LEMMA FifoInvInit == ASSUME NEW started \in BOOLEAN, FifoInit(started) PROVE FifoInv
BY DEF FifoInit, FifoInv, FifoTypeOK, Fifos

LEMMA FifoOrder == First = "to_calculate" /\ Second = "result"
BY DEF First, Second, Fifos

LEMMA Arrival ==
  ASSUME FifoTypeOK, NEW f \in Fifos, NEW end \in {"reader", "writer"}, Arrives(f, end)
  PROVE  /\ at' \in [Fifos -> SUBSET {"reader", "writer"}]
         /\ \A g \in Fifos : at'[g] = IF g = f THEN at[g] \union {end} ELSE at[g]
BY DEF FifoTypeOK, Arrives

LEMMA FifoInvStep == FifoInv /\ [FifoNext]_fifoVars => FifoInv'
<1> SUFFICES ASSUME FifoInv, [FifoNext]_fifoVars PROVE FifoInv'
  OBVIOUS
<1> USE DEF FifoInv, FifoTypeOK, Fifos
<1>1. CASE AskerMakes
  BY <1>1 DEF AskerMakes, AskerGoes
<1>2. CASE AskerOpens
  <2>1. UNCHANGED <<fifos, calculator, connected, asked, answer>>
    BY <1>2 DEF AskerOpens
  <2>2. CASE AskerGoes("open to_calculate", "wait to_calculate") /\ Arrives("to_calculate", "writer")
    BY <2>1, <2>2, Arrival DEF AskerGoes
  <2>3. CASE AskerGoes("wait to_calculate", "open result") /\ Met("to_calculate") /\ UNCHANGED at
    BY <2>1, <2>3 DEF AskerGoes, Met
  <2>4. CASE AskerGoes("open result", "wait result") /\ Arrives("result", "reader")
    BY <2>1, <2>4, Arrival DEF AskerGoes
  <2>5. CASE AskerGoes("wait result", "ask") /\ Met("result") /\ UNCHANGED at
    BY <2>1, <2>5 DEF AskerGoes
  <2> QED
    BY <1>2, <2>2, <2>3, <2>4, <2>5 DEF AskerOpens
<1>3. CASE AskerAsks
  BY <1>3 DEF AskerAsks, AskerGoes
<1>4. CASE AskerReads
  BY <1>4 DEF AskerReads, AskerGoes
<1>5. CASE CalculatorStarts
  BY <1>5 DEF CalculatorStarts, CalculatorGoes
<1>6. CASE CalculatorOpens
  <2>1. UNCHANGED <<fifos, asker, connected, asked, answer>>
    BY <1>6 DEF CalculatorOpens
  <2>2. CASE UNCHANGED at /\ calculator # "wait first"
    BY <2>1, <2>2 DEF Opens
  <2>3. CASE Arrives("to_calculate", "reader") /\ calculator' = "wait first"
    BY <2>1, <2>3, Arrival
  <2>4. CASE Arrives("result", "writer") /\ calculator # "wait first"
    BY <2>1, <2>4, Arrival
  <2> QED
    BY <1>6, <2>2, <2>3, <2>4, FifoOrder DEF CalculatorOpens, Opens, EndOf
<1>7. CASE CalculatorConnects
  BY <1>7, FifoOrder DEF CalculatorConnects, CalculatorGoes, Met
<1>8. CASE CalculatorAnswers
  BY <1>8 DEF CalculatorAnswers, CalculatorGoes
<1>9. CASE UNCHANGED fifoVars
  BY <1>9 DEF fifoVars
<1> QED
  BY <1>1, <1>2, <1>3, <1>4, <1>5, <1>6, <1>7, <1>8, <1>9 DEF FifoNext, Asker, Calculator

(* Whichever program comes first, the asker prints nothing but the answer to *)
(* what it asked (zad2_1.c, zad2_2.c:30-38).                                 *)
THEOREM OnlyTheIntegral == FifoSpec => []PrintsTheIntegral
<1>1. FifoInit(TRUE) => FifoInv
  BY FifoInvInit
<1>2. FifoInv => PrintsTheIntegral
  BY DEF FifoInv, PrintsTheIntegral
<1> QED
  BY <1>1, <1>2, FifoInvStep, PTL DEF FifoSpec

(* Where each program stands says which ends have been opened: who waits at  *)
(* a FIFO has its own end there, who has passed it has met the other, and a *)
(* calculator that has the questions open finds the FIFO of the answers.     *)
FifoEnds ==
  /\ asker = "make result" => "to_calculate" \in fifos
  /\ asker \notin {"absent", "make to_calculate", "make result"} => fifos = Fifos
  /\ "writer" \in at["to_calculate"] => fifos = Fifos
  /\ asker \in {"wait to_calculate", "open result", "wait result", "ask", "read", "over"} =>
        "writer" \in at["to_calculate"]
  /\ asker = "wait result" => "reader" \in at["result"]
  /\ asker \in {"ask", "read", "over"} => Met("result")
  /\ asker \in {"read", "over"} => asked
  /\ calculator = "wait first" => "reader" \in at["to_calculate"]
  /\ calculator = "wait second" => "writer" \in at["result"]
  /\ \A f \in connected : Met(f)
  /\ calculator \in {"read", "over"} /\ "to_calculate" \in connected => "result" \in connected
  /\ calculator = "over" /\ "result" \in connected => answer # "none"

LEMMA FifoEndsInit == ASSUME NEW started \in BOOLEAN, FifoInit(started) PROVE FifoEnds
BY DEF FifoInit, FifoEnds, Fifos

LEMMA FifoEndsStep == FifoInv /\ FifoEnds /\ [FifoNext]_fifoVars => FifoEnds'
<1> SUFFICES ASSUME FifoInv, FifoEnds, [FifoNext]_fifoVars PROVE FifoEnds'
  OBVIOUS
<1> USE DEF FifoEnds, Fifos, Met
<1>1. FifoTypeOK
  BY DEF FifoInv
<1>2. ASSUME NEW f \in Fifos, NEW end \in {"reader", "writer"}, Arrives(f, end),
             UNCHANGED connected
      PROVE  \A g \in connected' : at'[g] = {"reader", "writer"}
  <2>1. /\ at' \in [Fifos -> SUBSET {"reader", "writer"}]
        /\ \A g \in Fifos : at[g] \subseteq at'[g]
    BY <1>1, <1>2, Arrival
  <2> TAKE g \in connected'
  <2>2. g \in Fifos /\ at[g] = {"reader", "writer"}
    BY <1>1, <1>2 DEF FifoTypeOK
  <2>3. at'[g] \subseteq {"reader", "writer"}
    BY <2>1, <2>2
  <2> QED
    BY <2>1, <2>2, <2>3
<1>3. CASE AskerMakes
  <2>1. UNCHANGED <<at, calculator, connected, asked, answer>>
    BY <1>3 DEF AskerMakes
  <2>2. CASE AskerGoes("make to_calculate", "make result") /\ fifos' = fifos \union {"to_calculate"}
    <3>1. fifos = Fifos => fifos' = Fifos
      BY <2>2
    <3>2. "to_calculate" \in fifos'
      BY <2>2
    <3> QED
      BY <2>1, <2>2, <3>1, <3>2 DEF AskerGoes
  <2>3. CASE AskerGoes("make result", "open to_calculate") /\ fifos' = fifos \union {"result"}
    <3>1. fifos' = Fifos
      BY <1>1, <2>3 DEF AskerGoes, FifoTypeOK
    <3> QED
      BY <2>1, <2>3, <3>1 DEF AskerGoes
  <2> QED
    BY <1>3, <2>2, <2>3 DEF AskerMakes
<1>4. CASE AskerOpens
  <2>1. UNCHANGED <<fifos, calculator, connected, asked, answer>>
    BY <1>4 DEF AskerOpens
  <2>2. CASE AskerGoes("open to_calculate", "wait to_calculate") /\ Arrives("to_calculate", "writer")
    BY <1>1, <1>2, <2>1, <2>2, Arrival DEF AskerGoes
  <2>3. CASE AskerGoes("wait to_calculate", "open result") /\ Met("to_calculate") /\ UNCHANGED at
    BY <2>1, <2>3 DEF AskerGoes
  <2>4. CASE AskerGoes("open result", "wait result") /\ Arrives("result", "reader")
    BY <1>1, <1>2, <2>1, <2>4, Arrival DEF AskerGoes
  <2>5. CASE AskerGoes("wait result", "ask") /\ Met("result") /\ UNCHANGED at
    BY <2>1, <2>5 DEF AskerGoes
  <2> QED
    BY <1>4, <2>2, <2>3, <2>4, <2>5 DEF AskerOpens
<1>5. CASE AskerAsks \/ AskerReads
  BY <1>5 DEF AskerAsks, AskerReads, AskerGoes
<1>6. CASE CalculatorStarts
  BY <1>6 DEF CalculatorStarts, CalculatorGoes
<1>7. CASE CalculatorOpens
  <2>1. UNCHANGED <<fifos, asker, connected, asked, answer>>
    BY <1>7 DEF CalculatorOpens
  <2>2. CASE calculator' = "open second" /\ UNCHANGED at
    BY <2>1, <2>2
  <2>3. CASE calculator' = "read" /\ UNCHANGED at /\ "result" \notin fifos
    BY <2>1, <2>3
  <2>4. CASE Arrives("to_calculate", "reader") /\ calculator' = "wait first"
    BY <1>1, <1>2, <2>1, <2>4, Arrival
  <2>5. CASE Arrives("result", "writer") /\ calculator' = "wait second"
    BY <1>1, <1>2, <2>1, <2>5, Arrival
  <2> QED
    BY <1>7, <2>2, <2>3, <2>4, <2>5, FifoOrder DEF CalculatorOpens, Opens, EndOf
<1>8. CASE CalculatorConnects
  BY <1>8, FifoOrder DEF CalculatorConnects, CalculatorGoes
<1>9. CASE CalculatorAnswers
  BY <1>9 DEF CalculatorAnswers, CalculatorGoes
<1>10. CASE UNCHANGED fifoVars
  BY <1>10 DEF fifoVars
<1> QED
  BY <1>3, <1>4, <1>5, <1>6, <1>7, <1>8, <1>9, <1>10 DEF FifoNext, Asker, Calculator

LEMMA EndsMeet == FifoInv /\ FifoEnds => WaitsInVainOnlyAtFirst
<1> SUFFICES ASSUME FifoInv, FifoEnds, AskerWaits, CalculatorWaits
             PROVE  at["to_calculate"] = {"writer"} /\ calculator # "wait first"
  BY DEF WaitsInVainOnlyAtFirst
<1>1. \A f \in Fifos : at[f] \subseteq {"reader", "writer"}
  BY DEF FifoInv, FifoTypeOK
<1>2. ASSUME NEW f \in Fifos, "reader" \in at[f], "writer" \in at[f] PROVE Met(f)
  BY <1>1, <1>2 DEF Met
<1>3. CASE asker = "wait to_calculate" /\ ~Met("to_calculate")
  <2>1. "writer" \in at["to_calculate"] /\ "reader" \notin at["to_calculate"]
    BY <1>2, <1>3 DEF FifoEnds, Fifos
  <2> QED
    BY <1>1, <2>1 DEF FifoEnds, Fifos
<1>4. CASE (asker = "wait result" /\ ~Met("result")) \/ (asker = "read" /\ answer = "none")
  <2>1. Met("to_calculate") /\ "reader" \in at["result"]
    BY <1>2, <1>4 DEF FifoInv, FifoEnds, Fifos, Met
  <2>2. calculator \notin {"wait first", "wait second"}
    BY <1>2, <2>1, FifoOrder DEF FifoEnds, Fifos, CalculatorWaits
  <2>3. "to_calculate" \in connected
    BY <1>4, <2>2 DEF FifoInv
  <2>4. "result" \in connected /\ Met("result")
    BY <2>2, <2>3 DEF FifoEnds, CalculatorWaits
  <2> QED
    BY <1>4, <2>2, <2>3, <2>4 DEF FifoEnds, CalculatorWaits
<1> QED
  BY <1>3, <1>4 DEF AskerWaits

(* Once the calculator has opened the FIFO of the questions, the two         *)
(* programs never wait for each other (zad2_1.c:20-37, zad2_2.c:30-38).      *)
THEOREM NeverWaitForEachOther == FifoSpec => []WaitsInVainOnlyAtFirst
<1>1. FifoInit(TRUE) => FifoInv /\ FifoEnds
  BY FifoInvInit, FifoEndsInit
<1> QED
  BY <1>1, EndsMeet, FifoInvStep, FifoEndsStep, PTL DEF FifoSpec

-----------------------------------------------------------------------------
(* The five programs, of which one is started *)

AllInv ==
  /\ Inv /\ TextsBehind /\ Enquiring
  /\ SignalsInv /\ ThreadInv /\ PipeInv /\ FifoInv /\ FifoEnds

LEMMA AllInvInit == Init => AllInv
<1> SUFFICES ASSUME Init PROVE AllInv
  OBVIOUS
<1> PICK program \in {"queue", "signals", "threads", "pipes", "fifos"} :
      /\ QueueInit(IF program = "queue" THEN Users ELSE {})
      /\ SignalsInit(program = "signals")
      /\ ThreadInit(program = "threads")
      /\ PipeInit(program = "pipes")
      /\ FifoInit(program = "fifos")
  BY DEF Init
<1>1. Inv /\ TextsBehind /\ Enquiring
  BY InvInit, TextsBehindInit, EnquiringInit
<1>2. \A b \in {program = "signals", program = "threads", program = "pipes", program = "fifos"} :
        b \in BOOLEAN
  OBVIOUS
<1>3. ThreadInv
  BY <1>2, ThreadInvInit
<1>4. PipeInv
  BY <1>2, PipeInvInit
<1>5. FifoInv /\ FifoEnds
  BY <1>2, FifoInvInit, FifoEndsInit
<1>6. SignalsInv
  BY <1>2, SignalsInvInit
<1> QED
  BY <1>1, <1>3, <1>4, <1>5, <1>6 DEF AllInv

LEMMA AllInvStep == AllInv /\ [Next]_vars => AllInv'
<1> SUFFICES ASSUME AllInv, [Next]_vars PROVE AllInv'
  OBVIOUS
<1>1. /\ [QueueNext]_queueVars /\ [SignalsNext]_signalVars /\ [ThreadNext]_threadVars
      /\ [PipeNext]_pipeVars /\ [FifoNext]_fifoVars
  BY DEF Next, vars
<1>2. Inv' /\ TextsBehind' /\ Enquiring'
  BY <1>1, InvStep, TextsBehindStep, EnquiringStep DEF AllInv
<1> QED
  BY <1>1, <1>2, SignalsInvStep, ThreadInvStep, PipeInvStep, FifoInvStep, FifoEndsStep DEF AllInv

(* Whichever of the five programs is started, what it keeps is of its kind,  *)
(* users are accounted for, only the integral is printed, and the programs   *)
(* of the FIFOs do not wait for each other once they have met.               *)
THEOREM ProgramsSound == Spec => [](Sound /\ SignalsSound)
<1>1. AllInv => Sound /\ SignalsSound
  BY TextsBehindTyped, EnquiringRemembered, EndsMeet
     DEF AllInv, Sound, SignalsInv, SignalsSound, TypesOK, ThreadInv, PipeInv, FifoInv, PrintsTheIntegral
<1> QED
  BY <1>1, AllInvInit, AllInvStep, PTL DEF Spec

=============================================================================
