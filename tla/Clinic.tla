------------------------------- MODULE Clinic -------------------------------
(***************************************************************************)
(* What Lab 10/README.md asks of the hospital, without threads, mutex,     *)
(* seats or wakeups: patients come in while there is room, the doctor      *)
(* treats a full room if there is medicine for it, an announced delivery   *)
(* replenishes a stock that has run low, and the doctor goes home when     *)
(* everybody has been treated.                                             *)
(***************************************************************************)
EXTENDS Integers, FiniteSets

CONSTANTS Patients, MAX_PATIENTS, CAPACITY, PER_CONSULTATION, DELIVERY

VARIABLES
  room,        \* the patients in the hospital
  stock,       \* the medicine there is
  announced,   \* a pharmacist wants to deliver
  treated,     \* the patients whose consultation has ended
  doctor       \* what the doctor does

vars == <<room, stock, announced, treated, doctor>>

Short == stock < PER_CONSULTATION

Init ==
  /\ room = {} /\ treated = {}
  /\ stock = CAPACITY
  /\ announced = FALSE
  /\ doctor = "free"

Enter(p) ==
  /\ doctor \in {"free", "delivery"}
  /\ p \notin room /\ Cardinality(room) < MAX_PATIENTS
  /\ room' = room \union {p}
  /\ UNCHANGED <<stock, announced, treated, doctor>>

BeginConsultation ==
  /\ doctor = "free"
  /\ Cardinality(room) = MAX_PATIENTS /\ ~Short
  /\ doctor' = "consulting"
  /\ UNCHANGED <<room, stock, announced, treated>>

EndConsultation ==
  /\ doctor = "consulting"
  /\ room' = {}
  /\ treated' = treated \union room
  /\ stock' = stock - PER_CONSULTATION
  /\ doctor' = "free"
  /\ UNCHANGED announced

Announce ==
  /\ doctor \in {"free", "delivery"}
  /\ Short
  /\ announced' = TRUE
  /\ UNCHANGED <<room, stock, treated, doctor>>

BeginDelivery ==
  /\ doctor = "free"
  /\ announced /\ Short
  /\ doctor' = "delivery"
  /\ UNCHANGED <<room, stock, announced, treated>>

EndDelivery ==
  /\ doctor = "delivery"
  /\ stock' = IF stock + DELIVERY < CAPACITY THEN stock + DELIVERY ELSE CAPACITY
  /\ announced' = FALSE
  /\ doctor' = "free"
  /\ UNCHANGED <<room, treated>>

GoHome ==
  /\ doctor = "free"
  /\ room = {} /\ treated = Patients
  /\ doctor' = "home"
  /\ UNCHANGED <<room, stock, announced, treated>>

Next ==
  \/ \E p \in Patients : Enter(p)
  \/ BeginConsultation \/ EndConsultation
  \/ Announce \/ BeginDelivery \/ EndDelivery
  \/ GoHome

Spec == Init /\ [][Next]_vars

=============================================================================
