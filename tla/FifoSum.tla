------------------------------ MODULE FifoSum ------------------------------
(***************************************************************************)
(* Lab 6/zad2_1.c and Lab 6/zad2_2.c: one program asks for an integral,    *)
(* the other computes it; a FIFO goes each way.  open of a FIFO waits for  *)
(* the other end to be opened, and fails if the FIFO does not exist.       *)
(***************************************************************************)
EXTENDS Naturals

VARIABLES
  fifos,            \* the FIFOs that exist
  at,               \* FIFO -> the ends that have been opened, or are being opened
  asker, calculator,
  connected,        \* the FIFOs the calculator has open
  asked,            \* whether the numbers are in to_calculate
  answer            \* what is in result: nothing, the integral, or anything

fifoVars == <<fifos, at, asker, calculator, connected, asked, answer>>

Fifos == {"to_calculate", "result"}

Arrives(f, end) == at' = [at EXCEPT ![f] = @ \union {end}]
Met(f) == at[f] = {"reader", "writer"}

-----------------------------------------------------------------------------
(* zad2_1.c *)

AskerGoes(from, to) == asker = from /\ asker' = to

AskerMakes ==
  /\ \/ AskerGoes("make to_calculate", "make result") /\ fifos' = fifos \union {"to_calculate"}
     \/ AskerGoes("make result", "open to_calculate") /\ fifos' = fifos \union {"result"}
  /\ UNCHANGED <<at, calculator, connected, asked, answer>>

AskerOpens ==
  /\ \/ AskerGoes("open to_calculate", "wait to_calculate") /\ Arrives("to_calculate", "writer")
     \/ AskerGoes("wait to_calculate", "open result") /\ Met("to_calculate") /\ UNCHANGED at
     \/ AskerGoes("open result", "wait result") /\ Arrives("result", "reader")
     \/ AskerGoes("wait result", "ask") /\ Met("result") /\ UNCHANGED at
  /\ UNCHANGED <<fifos, calculator, connected, asked, answer>>

AskerAsks ==
  /\ AskerGoes("ask", "read")
  /\ asked' = TRUE
  /\ UNCHANGED <<fifos, at, calculator, connected, answer>>

AskerReads ==
  /\ answer # "none"
  /\ AskerGoes("read", "over")
  /\ UNCHANGED <<fifos, at, calculator, connected, asked, answer>>

Asker == AskerMakes \/ AskerOpens \/ AskerAsks \/ AskerReads

-----------------------------------------------------------------------------
(* zad2_2.c *)

CalculatorGoes(from, to) == calculator = from /\ calculator' = to

CalculatorStarts ==
  /\ CalculatorGoes("off", "open first")
  /\ UNCHANGED <<fifos, at, asker, connected, asked, answer>>

EndOf(f) == IF f = "to_calculate" THEN "reader" ELSE "writer"
First_Result == "result"
First == "to_calculate"
Second == CHOOSE f \in Fifos : f # First

Opens(f, wait, next) ==
  IF f \in fifos THEN Arrives(f, EndOf(f)) /\ calculator' = wait
                 ELSE UNCHANGED at /\ calculator' = next

CalculatorOpens ==
  /\ \/ calculator = "open first" /\ Opens(First, "wait first", "open second")
     \/ calculator = "open second" /\ Opens(Second, "wait second", "read")
  /\ UNCHANGED <<fifos, asker, connected, asked, answer>>

CalculatorConnects ==
  /\ \/ CalculatorGoes("wait first", "open second") /\ Met(First)
        /\ connected' = connected \union {First}
     \/ CalculatorGoes("wait second", "read") /\ Met(Second)
        /\ connected' = connected \union {Second}
  /\ UNCHANGED <<fifos, at, asker, asked, answer>>

(* Lines 33-38: a read that fails leaves the numbers as they were. *)
CalculatorAnswers ==
  /\ CalculatorGoes("read", "over")
  /\ "to_calculate" \in connected => asked
  /\ answer' = IF "result" \notin connected THEN answer
               ELSE IF "to_calculate" \in connected THEN "integral" ELSE "anything"
  /\ UNCHANGED <<fifos, at, asker, connected, asked>>

Calculator ==
  CalculatorStarts \/ CalculatorOpens \/ CalculatorConnects \/ CalculatorAnswers

-----------------------------------------------------------------------------
(* The FIFOs of an earlier use are still there. *)
FifoInit(started) ==
  /\ fifos \in IF started THEN {{}, Fifos} ELSE {{}}
  /\ at = [f \in Fifos |-> {}]
  /\ asker = IF started THEN "make to_calculate" ELSE "absent"
  /\ calculator = IF started THEN "off" ELSE "absent"
  /\ connected = {} /\ asked = FALSE /\ answer = "none"

FifoNext == Asker \/ Calculator

FifoFairness == WF_fifoVars(Asker) /\ WF_fifoVars(Calculator)

FifoSpec == FifoInit(TRUE) /\ [][FifoNext]_fifoVars /\ FifoFairness

-----------------------------------------------------------------------------
(* Properties *)

FifoTypeOK ==
  /\ fifos \subseteq Fifos /\ at \in [Fifos -> SUBSET {"reader", "writer"}]
  /\ connected \subseteq Fifos /\ asked \in BOOLEAN
  /\ answer \in {"none", "integral", "anything"}

(* Whichever program comes first, and whichever opens of the calculator fail *)
(* (zad2_2.c:30-31), the asker prints nothing but the answer to what it      *)
(* asked: it opens the FIFO of the answers after the calculator has opened   *)
(* that of the questions, and the calculator opens them in the same order.   *)
PrintsTheIntegral == asker = "over" => asked /\ answer = "integral"

(* The asker waits for the other end of a FIFO, or for an answer; the        *)
(* calculator waits for an end or for numbers, or has ended.                 *)
AskerWaits ==
  \/ asker = "wait to_calculate" /\ ~Met("to_calculate")
  \/ asker = "wait result" /\ ~Met("result")
  \/ asker = "read" /\ answer = "none"

CalculatorWaits ==
  \/ calculator = "wait first" /\ ~Met(First)
  \/ calculator = "wait second" /\ ~Met(Second)
  \/ calculator = "read" /\ "to_calculate" \in connected /\ ~asked
  \/ calculator = "over"

(* The asker waits in vain only at the FIFO of the questions, and only when  *)
(* the calculator has failed to open it (zad2_2.c:30): in the middle of the  *)
(* conversation the two never wait for each other.                           *)
WaitsInVainOnlyAtFirst ==
  AskerWaits /\ CalculatorWaits => at["to_calculate"] = {"writer"} /\ calculator # "wait first"

(* Once the FIFO of the questions exists, a calculator that starts and an    *)
(* asker always meet, in both FIFOs, and the asker prints the integral.      *)
ProgramsMeet ==
  (calculator = "open first" /\ "to_calculate" \in fifos) ~> (asker = "over" /\ answer = "integral")

=============================================================================
