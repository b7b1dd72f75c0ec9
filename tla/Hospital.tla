------------------------------ MODULE Hospital ------------------------------
(***************************************************************************)
(* Lab 10/zad1.c: a doctor, patients and pharmacists, one thread each,     *)
(* synchronised by hospital_mutex and three condition variables.           *)
(*                                                                         *)
(* Every action below is one critical section, from pthread_mutex_lock (or *)
(* the return of pthread_cond_wait) to the next unlock or wait, or one     *)
(* access made outside the mutex.  Only patients_remaining and             *)
(* patients_in_hospital are read outside it, and each section writes at    *)
(* most one of them, once: these reads see nothing that they could not see *)
(* between two sections, and hospital_mutex needs no variable of its own.  *)
(* The sleep() calls are the points where a thread holds no mutex; they    *)
(* last arbitrarily long.                                                  *)
(*                                                                         *)
(* The source writes the literal 3 for MAX_PATIENTS_IN_HOSPITAL in several *)
(* conditions; the model uses the constant in all of them.                 *)
(* waiting_pharmacist_id and pharmacists_remaining are written and never   *)
(* read; they are left out.                                                *)
(*                                                                         *)
(* An operator X_Fault stands before the operator X of which it is a       *)
(* faulty version; nothing uses it, the properties are tried against it.   *)
(***************************************************************************)
EXTENDS Integers, FiniteSets

CONSTANTS
  Patients,                  \* the patient threads
  Pharmacists,               \* the pharmacist threads
  NoPatient,                 \* the content of a seat nobody has taken yet
  MAX_PATIENTS_IN_HOSPITAL,
  MEDICINE_CAPACITY,
  MEDICINE_PER_CONSULTATION,
  DELIVERY_AMOUNT

ASSUME PatientsAssumption == IsFiniteSet(Patients) /\ NoPatient \notin Patients

ASSUME SizesAssumption ==
  /\ MAX_PATIENTS_IN_HOSPITAL \in Nat \ {0}
  /\ MEDICINE_PER_CONSULTATION \in Nat \ {0}
  /\ MEDICINE_CAPACITY \in Nat
  /\ MEDICINE_PER_CONSULTATION <= MEDICINE_CAPACITY
  /\ DELIVERY_AMOUNT \in Nat

VARIABLES
  patients_in_hospital,  \* seats taken
  medicine_in_stock,
  patients_remaining,
  patients_waiting,      \* seat -> who sits there; only the first patients_in_hospital count
  pharmacist_waiting,
  doctor_sleeping,
  my_position,           \* each patient thread's local; 0 when out of scope
  treated,               \* each patient thread's local
  doctor, patient, pharmacist, main,   \* where each thread is
  consulted              \* history: who sat in a consultation that has ended

shared == <<patients_in_hospital, medicine_in_stock, patients_remaining,
            patients_waiting, pharmacist_waiting, doctor_sleeping>>
locals == <<my_position, treated>>
vars == <<shared, locals, doctor, patient, pharmacist, main, consulted>>

Seats == 0 .. MAX_PATIENTS_IN_HOSPITAL - 1

DoctorAt == {"loop", "loopSecond", "lock", "asleep", "woken", "consulting", "delivery", "done"}
PatientAt == {"loop", "away", "seated", "woken", "done"}
PharmacistAt == {"loop", "loopSecond", "away", "awaitsEmpty", "wokenEmpty",
                 "awaitsDoctor", "wokenDoctor", "done"}
MainAt == {"joinPatients", "joinDoctor", "joinPharmacists", "done"}

-----------------------------------------------------------------------------
(* The conditions the threads test. *)

RoomFull_OneMore == patients_in_hospital > MAX_PATIENTS_IN_HOSPITAL
RoomFull == patients_in_hospital >= MAX_PATIENTS_IN_HOSPITAL

Stocked == medicine_in_stock >= MEDICINE_PER_CONSULTATION

NobodyLeft_EmptyRoom == patients_in_hospital = 0
NobodyLeft == patients_remaining <= 0 /\ patients_in_hospital = 0

CanConsult_OneEarly ==
  patients_in_hospital >= MAX_PATIENTS_IN_HOSPITAL - 1 /\ Stocked
CanConsult == patients_in_hospital >= MAX_PATIENTS_IN_HOSPITAL /\ Stocked
CanTakeDelivery == pharmacist_waiting /\ ~Stocked
HasWork == CanConsult \/ CanTakeDelivery

(* Line 131: the patient who has just become the n-th wakes the doctor. *)
WakesDoctor_OneMore(n) == n > MAX_PATIENTS_IN_HOSPITAL /\ Stocked
WakesDoctor(n) == n = MAX_PATIENTS_IN_HOSPITAL /\ Stocked

(* Lines 139-140: patient at seat pos goes on waiting while n patients are in. *)
MustWait(pos, n) ==
  /\ n > 0
  /\ pos >= MAX_PATIENTS_IN_HOSPITAL \/ n < MAX_PATIENTS_IN_HOSPITAL \/ ~Stocked

(* Lines 146-153: the seats in use that hold p. *)
SeatsOf_NotTheLast(p) == {i \in 0 .. patients_in_hospital - 2 : patients_waiting[i] = p}
SeatsOf(p) == {i \in 0 .. patients_in_hospital - 1 : patients_waiting[i] = p}

SeatOf(p) == CHOOSE i \in SeatsOf(p) : \A j \in SeatsOf(p) : i <= j

Restocked ==
  LET sum == medicine_in_stock + DELIVERY_AMOUNT
  IN  IF sum > MEDICINE_CAPACITY THEN MEDICINE_CAPACITY ELSE sum

(* pthread_cond_signal and pthread_cond_broadcast on the three conditions. *)
SignalDoctor == doctor' = IF doctor = "asleep" THEN "woken" ELSE doctor

BroadcastPatients_One ==
  IF \E p \in Patients : patient[p] = "seated"
    THEN \E p \in Patients : patient[p] = "seated" /\ patient' = [patient EXCEPT ![p] = "woken"]
    ELSE UNCHANGED patient
BroadcastPatients ==
  patient' = [p \in Patients |-> IF patient[p] = "seated" THEN "woken" ELSE patient[p]]

BroadcastPharmacists ==
  pharmacist' = [f \in Pharmacists |->
                   CASE pharmacist[f] = "awaitsEmpty"  -> "wokenEmpty"
                     [] pharmacist[f] = "awaitsDoctor" -> "wokenDoctor"
                     [] OTHER -> pharmacist[f]]

-----------------------------------------------------------------------------
(* doctor_thread *)

(* Line 35 tests patients_remaining, then patients_in_hospital, unlocked. *)
DoctorTestsRemaining ==
  /\ doctor = "loop"
  /\ doctor' = IF patients_remaining > 0 THEN "lock" ELSE "loopSecond"
  /\ UNCHANGED <<shared, locals, patient, pharmacist, main, consulted>>

DoctorTestsHospital ==
  /\ doctor = "loopSecond"
  /\ doctor' = IF patients_in_hospital > 0 THEN "lock" ELSE "done"
  /\ UNCHANGED <<shared, locals, patient, pharmacist, main, consulted>>

DoctorSleeps ==
  /\ doctor \in {"lock", "woken"}
  /\ doctor_sleeping /\ ~HasWork /\ ~NobodyLeft
  /\ doctor' = "asleep"
  /\ UNCHANGED <<shared, locals, patient, pharmacist, main, consulted>>

DoctorGoesHome ==
  /\ doctor \in {"lock", "woken"}
  /\ NobodyLeft
  /\ doctor' = "done"
  /\ UNCHANGED <<shared, locals, patient, pharmacist, main, consulted>>

DoctorIsUp ==
  /\ doctor \in {"lock", "woken"}
  /\ ~doctor_sleeping \/ HasWork
  /\ ~NobodyLeft

DoctorConsults ==
  /\ DoctorIsUp
  /\ CanConsult
  /\ doctor_sleeping' = FALSE
  /\ doctor' = "consulting"
  /\ UNCHANGED <<patients_in_hospital, medicine_in_stock, patients_remaining, patients_waiting,
                 pharmacist_waiting, locals, patient, pharmacist, main, consulted>>

DoctorTakesDelivery ==
  /\ DoctorIsUp
  /\ ~CanConsult /\ CanTakeDelivery
  /\ doctor_sleeping' = FALSE
  /\ doctor' = "delivery"
  /\ UNCHANGED <<patients_in_hospital, medicine_in_stock, patients_remaining, patients_waiting,
                 pharmacist_waiting, locals, patient, pharmacist, main, consulted>>

(* Woken with nothing to do: lines 55 and 93 in one section. *)
DoctorDozesOff ==
  /\ DoctorIsUp
  /\ ~HasWork
  /\ doctor_sleeping' = TRUE
  /\ doctor' = "loop"
  /\ UNCHANGED <<patients_in_hospital, medicine_in_stock, patients_remaining, patients_waiting,
                 pharmacist_waiting, locals, patient, pharmacist, main, consulted>>

DoctorEndsConsultation ==
  /\ doctor = "consulting"
  /\ medicine_in_stock' = medicine_in_stock - MEDICINE_PER_CONSULTATION
  /\ patients_in_hospital' = 0
  /\ BroadcastPatients
  /\ consulted' = consulted \union {patients_waiting[i] : i \in 0 .. patients_in_hospital - 1}
  /\ doctor_sleeping' = TRUE
  /\ doctor' = "loop"
  /\ UNCHANGED <<patients_remaining, patients_waiting, pharmacist_waiting, locals,
                 pharmacist, main>>

DoctorEndsDelivery ==
  /\ doctor = "delivery"
  /\ medicine_in_stock' = Restocked
  /\ pharmacist_waiting' = FALSE
  /\ BroadcastPharmacists
  /\ doctor_sleeping' = TRUE
  /\ doctor' = "loop"
  /\ UNCHANGED <<patients_in_hospital, patients_remaining, patients_waiting, locals,
                 patient, main, consulted>>

Doctor ==
  \/ DoctorTestsRemaining \/ DoctorTestsHospital
  \/ DoctorSleeps \/ DoctorGoesHome
  \/ DoctorConsults \/ DoctorTakesDelivery \/ DoctorDozesOff
  \/ DoctorEndsConsultation \/ DoctorEndsDelivery

-----------------------------------------------------------------------------
(* patient_thread *)

PatientTestsRemaining(p) ==
  /\ patient[p] = "loop"
  /\ patient' = [patient EXCEPT ![p] = IF ~treated[p] /\ patients_remaining > 0
                                         THEN "away" ELSE "done"]
  /\ UNCHANGED <<shared, locals, doctor, pharmacist, main, consulted>>

(* Lines 114 and 119: nobody remains, or the room is full. *)
PatientTurnsBack(p) ==
  /\ patient[p] = "away"
  /\ patients_remaining <= 0 \/ RoomFull
  /\ patient' = [patient EXCEPT ![p] = IF patients_remaining <= 0 THEN "done" ELSE "loop"]
  /\ UNCHANGED <<shared, locals, doctor, pharmacist, main, consulted>>

(* Takes the next seat; whoever fills the last one wakes the doctor, unless *)
(* medicine is short, and then has no reason to wait.                       *)
PatientSitsDown(p) ==
  LET seat == patients_in_hospital
      n    == patients_in_hospital + 1
      waits == MustWait(seat, n)
  IN  /\ patient[p] = "away"
      /\ patients_remaining > 0 /\ ~RoomFull
      /\ patients_waiting' = [patients_waiting EXCEPT ![seat] = p]
      /\ patients_in_hospital' = n
      /\ IF WakesDoctor(n)
           THEN doctor_sleeping' = FALSE /\ SignalDoctor
           ELSE UNCHANGED <<doctor_sleeping, doctor>>
      /\ patient' = [patient EXCEPT ![p] = IF waits THEN "seated" ELSE "loop"]
      /\ my_position' = [my_position EXCEPT ![p] = IF waits THEN seat ELSE 0]
      /\ UNCHANGED <<medicine_in_stock, patients_remaining, pharmacist_waiting, treated,
                     pharmacist, main, consulted>>

(* Woken and still in a seat: waits again, or leaves the waiting loop       *)
(* because it may (line 139) or because nobody remains (line 141).          *)
PatientStillWaiting(p) ==
  /\ patient[p] = "woken"
  /\ SeatsOf(p) # {}
  /\ LET waits == MustWait(SeatOf(p), patients_in_hospital) /\ patients_remaining > 0
     IN  /\ patient' = [patient EXCEPT ![p] = IF waits THEN "seated" ELSE "loop"]
         /\ my_position' = [my_position EXCEPT ![p] = IF waits THEN SeatOf(p) ELSE 0]
  /\ UNCHANGED <<shared, treated, doctor, pharmacist, main, consulted>>

(* Woken with its seat gone.  It counts itself out only if the hospital is  *)
(* still empty when it gets the mutex (line 160).                           *)
PatientTreated(p) ==
  /\ patient[p] = "woken"
  /\ SeatsOf(p) = {}
  /\ treated' = [treated EXCEPT ![p] = TRUE]
  /\ IF my_position[p] < MAX_PATIENTS_IN_HOSPITAL /\ patients_in_hospital = 0
       THEN patients_remaining' = patients_remaining - 1
       ELSE UNCHANGED patients_remaining
  /\ patient' = [patient EXCEPT ![p] = "loop"]
  /\ my_position' = [my_position EXCEPT ![p] = 0]
  /\ UNCHANGED <<patients_in_hospital, medicine_in_stock, patients_waiting, pharmacist_waiting,
                 doctor_sleeping, doctor, pharmacist, main, consulted>>

Patient(p) ==
  \/ PatientTestsRemaining(p)
  \/ PatientTurnsBack(p) \/ PatientSitsDown(p)
  \/ PatientStillWaiting(p) \/ PatientTreated(p)

-----------------------------------------------------------------------------
(* pharmacist_thread *)

PharmacistTestsRemaining(f) ==
  /\ pharmacist[f] = "loop"
  /\ pharmacist' = [pharmacist EXCEPT ![f] = IF patients_remaining > 0
                                               THEN "away" ELSE "loopSecond"]
  /\ UNCHANGED <<shared, locals, doctor, patient, main, consulted>>

PharmacistTestsHospital(f) ==
  /\ pharmacist[f] = "loopSecond"
  /\ pharmacist' = [pharmacist EXCEPT ![f] = IF patients_in_hospital > 0
                                               THEN "away" ELSE "done"]
  /\ UNCHANGED <<shared, locals, doctor, patient, main, consulted>>

PharmacistLeaves(f) ==
  /\ pharmacist[f] \in {"away", "wokenEmpty"}
  /\ NobodyLeft
  /\ pharmacist' = [pharmacist EXCEPT ![f] = "done"]
  /\ UNCHANGED <<shared, locals, doctor, patient, main, consulted>>

PharmacistAwaitsEmpty(f) ==
  /\ pharmacist[f] \in {"away", "wokenEmpty"}
  /\ ~NobodyLeft /\ Stocked
  /\ pharmacist' = [pharmacist EXCEPT ![f] = "awaitsEmpty"]
  /\ UNCHANGED <<shared, locals, doctor, patient, main, consulted>>

PharmacistWakesDoctor_NoSignal(f) ==
  /\ pharmacist[f] \in {"away", "wokenEmpty"}
  /\ ~NobodyLeft /\ ~Stocked
  /\ pharmacist_waiting' = TRUE
  /\ doctor_sleeping' = FALSE
  /\ pharmacist' = [pharmacist EXCEPT ![f] = "awaitsDoctor"]
  /\ UNCHANGED <<patients_in_hospital, medicine_in_stock, patients_remaining, patients_waiting,
                 locals, doctor, patient, main, consulted>>

PharmacistWakesDoctor(f) ==
  /\ pharmacist[f] \in {"away", "wokenEmpty"}
  /\ ~NobodyLeft /\ ~Stocked
  /\ pharmacist_waiting' = TRUE
  /\ doctor_sleeping' = FALSE
  /\ SignalDoctor
  /\ pharmacist' = [pharmacist EXCEPT ![f] = "awaitsDoctor"]
  /\ UNCHANGED <<patients_in_hospital, medicine_in_stock, patients_remaining, patients_waiting,
                 locals, patient, main, consulted>>

(* Lines 217-219: nothing but a delivery ends this wait. *)
PharmacistChecksDelivery(f) ==
  /\ pharmacist[f] = "wokenDoctor"
  /\ pharmacist' = [pharmacist EXCEPT ![f] = IF pharmacist_waiting
                                               THEN "awaitsDoctor" ELSE "loop"]
  /\ UNCHANGED <<shared, locals, doctor, patient, main, consulted>>

Pharmacist(f) ==
  \/ PharmacistTestsRemaining(f) \/ PharmacistTestsHospital(f)
  \/ PharmacistLeaves(f) \/ PharmacistAwaitsEmpty(f) \/ PharmacistWakesDoctor(f)
  \/ PharmacistChecksDelivery(f)

-----------------------------------------------------------------------------
(* main, once it has created the threads, and the condition variables *)

MainWakesDoctor ==
  /\ main = "joinPatients"
  /\ \A p \in Patients : patient[p] = "done"
  /\ doctor_sleeping' = FALSE
  /\ SignalDoctor
  /\ main' = "joinDoctor"
  /\ UNCHANGED <<patients_in_hospital, medicine_in_stock, patients_remaining, patients_waiting,
                 pharmacist_waiting, locals, patient, pharmacist, consulted>>

MainWakesPharmacists ==
  /\ main = "joinDoctor"
  /\ doctor = "done"
  /\ BroadcastPharmacists
  /\ main' = "joinPharmacists"
  /\ UNCHANGED <<shared, locals, doctor, patient, consulted>>

MainReturns ==
  /\ main = "joinPharmacists"
  /\ \A f \in Pharmacists : pharmacist[f] = "done"
  /\ main' = "done"
  /\ UNCHANGED <<shared, locals, doctor, patient, pharmacist, consulted>>

Main == MainWakesDoctor \/ MainWakesPharmacists \/ MainReturns

(* pthread_cond_wait may return without a signal. *)
SpuriousWakeup ==
  /\ \/ /\ doctor = "asleep"
        /\ SignalDoctor
        /\ UNCHANGED <<patient, pharmacist>>
     \/ \E p \in Patients :
          /\ patient[p] = "seated"
          /\ patient' = [patient EXCEPT ![p] = "woken"]
          /\ UNCHANGED <<doctor, pharmacist>>
     \/ \E f \in Pharmacists :
          /\ \/ /\ pharmacist[f] = "awaitsEmpty"
                /\ pharmacist' = [pharmacist EXCEPT ![f] = "wokenEmpty"]
             \/ /\ pharmacist[f] = "awaitsDoctor"
                /\ pharmacist' = [pharmacist EXCEPT ![f] = "wokenDoctor"]
          /\ UNCHANGED <<doctor, patient>>
  /\ UNCHANGED <<shared, locals, main, consulted>>

-----------------------------------------------------------------------------
Init ==
  /\ patients_in_hospital = 0
  /\ medicine_in_stock = MEDICINE_CAPACITY
  /\ patients_remaining = Cardinality(Patients)
  /\ patients_waiting = [i \in Seats |-> NoPatient]
  /\ pharmacist_waiting = FALSE
  /\ doctor_sleeping = TRUE
  /\ my_position = [p \in Patients |-> 0]
  /\ treated = [p \in Patients |-> FALSE]
  /\ doctor = "loop"
  /\ patient = [p \in Patients |-> "loop"]
  /\ pharmacist = [f \in Pharmacists |-> "loop"]
  /\ main = "joinPatients"
  /\ consulted = {}

Next ==
  \/ Doctor
  \/ \E p \in Patients : Patient(p)
  \/ \E f \in Pharmacists : Pharmacist(f)
  \/ Main
  \/ SpuriousWakeup

(* A thread that can run, runs, and gets the mutex it asks for: no section   *)
(* is disabled by another thread's.  Nobody promises a spurious wakeup.      *)
Fairness ==
  /\ WF_vars(Doctor)
  /\ \A p \in Patients : WF_vars(Patient(p))
  /\ \A f \in Pharmacists : WF_vars(Pharmacist(f))
  /\ WF_vars(Main)

Spec == Init /\ [][Next]_vars /\ Fairness

-----------------------------------------------------------------------------
(* The hospital as README.md of Lab 10 describes it. *)

Occupied == 0 .. patients_in_hospital - 1

InRoom == {patients_waiting[i] : i \in Occupied}

DoctorDoes ==
  CASE doctor = "done" -> "home"
    [] doctor \in {"consulting", "delivery"} -> doctor
    [] OTHER -> "free"

AtClinic == INSTANCE Clinic WITH
  MAX_PATIENTS <- MAX_PATIENTS_IN_HOSPITAL, CAPACITY <- MEDICINE_CAPACITY,
  PER_CONSULTATION <- MEDICINE_PER_CONSULTATION, DELIVERY <- DELIVERY_AMOUNT,
  room <- InRoom, stock <- medicine_in_stock, announced <- pharmacist_waiting,
  treated <- consulted,
  doctor <- DoctorDoes

(* How the program may come to a stop before main returns. *)

Untreated == {p \in Patients : ~treated[p]}

(* Every thread has ended or waits, in a condition or in pthread_join, for  *)
(* what no other thread will do.                                            *)
Blocked ==
  /\ doctor \in {"asleep", "done"}
  /\ \A p \in Patients : patient[p] \in {"seated", "done"}
  /\ \A f \in Pharmacists : pharmacist[f] \in {"awaitsEmpty", "awaitsDoctor", "done"}
  /\ main = "joinPatients" => \E p \in Patients : patient[p] # "done"
  /\ main = "joinDoctor" => doctor # "done"
  /\ main = "joinPharmacists" => \E f \in Pharmacists : pharmacist[f] # "done"

(* Those still to be treated sit there and do not fill the room. *)
TooFewLeft ==
  /\ main = "joinPatients" /\ doctor = "asleep"
  /\ ~RoomFull /\ InRoom = Untreated

(* A full room, no medicine, and the pharmacists wait for the stock to fall. *)
OutOfMedicine ==
  /\ main = "joinPatients" /\ doctor = "asleep"
  /\ RoomFull /\ ~Stocked /\ ~pharmacist_waiting
  /\ \A f \in Pharmacists : pharmacist[f] = "awaitsEmpty"

(* All were treated, but some did not count themselves out (line 160). *)
Miscounted ==
  /\ main = "joinDoctor" /\ doctor = "asleep"
  /\ Untreated = {} /\ InRoom = {} /\ patients_remaining > 0

(* A pharmacist announced its delivery when the doctor was about to leave. *)
DeliveryTooLate ==
  /\ main = "joinPharmacists" /\ doctor = "done"
  /\ pharmacist_waiting /\ ~Stocked
  /\ \E f \in Pharmacists : pharmacist[f] = "awaitsDoctor"

-----------------------------------------------------------------------------
(* Properties *)

TypeOK ==
  /\ patients_in_hospital \in 0 .. MAX_PATIENTS_IN_HOSPITAL
  /\ medicine_in_stock \in 0 .. MEDICINE_CAPACITY
  /\ patients_remaining \in 0 .. Cardinality(Patients)
  /\ patients_waiting \in [Seats -> Patients \union {NoPatient}]
  /\ pharmacist_waiting \in BOOLEAN
  /\ doctor_sleeping \in BOOLEAN
  /\ my_position \in [Patients -> Seats]
  /\ treated \in [Patients -> BOOLEAN]
  /\ doctor \in DoctorAt
  /\ patient \in [Patients -> PatientAt]
  /\ pharmacist \in [Pharmacists -> PharmacistAt]
  /\ main \in MainAt
  /\ consulted \subseteq Patients

(* No lost wakeup for the doctor: he is never left in pthread_cond_wait     *)
(* while a full waiting room with medicine, or a pharmacist whose delivery  *)
(* is needed, waits for him (the states README.md of Lab 10 wants excluded).*)
DoctorNotAsleepOverWork == doctor = "asleep" => ~HasWork

(* The doctor tests the room and the stock, releases the mutex for the      *)
(* consultation and then acts on what he tested: nobody changes the room,   *)
(* the seats or the stock meanwhile, so he treats whom he announced.        *)
ConsultationUndisturbed ==
  [][doctor = "consulting" /\ doctor' = "consulting" =>
       UNCHANGED <<patients_in_hospital, patients_waiting, medicine_in_stock>>]_vars

(* Nobody sits in two seats at once, though a patient leaves the waiting    *)
(* loop and comes back while the seat it took is still occupied.            *)
SeatsDistinct ==
  \A i, j \in 0 .. patients_in_hospital - 1 :
    i # j => patients_waiting[i] # patients_waiting[j]

(* A patient thread believes it was treated only if it sat in a             *)
(* consultation: an early, late or spurious wakeup never sends it home      *)
(* untreated.                                                               *)
TreatedWereConsulted == \A p \in Patients : treated[p] => p \in consulted

(* The doctor thread ends only when every patient has been treated, although *)
(* it tests two counters one after the other and without the mutex.         *)
NoPatientAbandoned == doctor = "done" => \A p \in Patients : treated[p]

(* Threads, seats and wakeups do what Clinic says: only a full room is       *)
(* consulted, with medicine for it; those consulted are those who sat there *)
(* when the doctor called them; the stock never changes otherwise.          *)
IsClinic == AtClinic!Spec

(* The program can come to a stop in four ways and in no other: no thread is *)
(* ever left waiting for a signal that was sent too early or to another.    *)
HangsOnlySo ==
  Blocked /\ main # "done" => TooFewLeft \/ OutOfMedicine \/ Miscounted \/ DeliveryTooLate

(* A full waiting room with medicine in stock is always consulted.          *)
FullRoomIsConsulted == CanConsult ~> patients_in_hospital = 0

(* A delivery a pharmacist announced is always taken, or the doctor has     *)
(* gone home.                                                               *)
AnnouncedDeliveryTaken == pharmacist_waiting ~> (~pharmacist_waiting \/ doctor = "done")

(* Lab 10/README.md: after the consultation the patients go home.  So nobody *)
(* who has been consulted takes a seat again.                               *)
ConsultedGoHome ==
  \A i \in 0 .. patients_in_hospital - 1 : patients_waiting[i] \notin consulted

(* Lab 10/README.md: a pharmacist unable to replenish the medicine must not  *)
(* happen.  So a pharmacist waiting for the stock to fall, when it has      *)
(* fallen, does replenish it, or everybody has gone home.                   *)
WaitingPharmacistReplenishes ==
  (~Stocked /\ \E f \in Pharmacists : pharmacist[f] = "awaitsEmpty")
    ~> (Stocked \/ NobodyLeft)

=============================================================================
