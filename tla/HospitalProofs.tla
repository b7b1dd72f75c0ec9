--------------------------- MODULE HospitalProofs ---------------------------
(***************************************************************************)
(* Proofs about Hospital, for any number of patients and pharmacists, any  *)
(* size of the waiting room and any amounts of medicine that satisfy       *)
(* SizesAssumption.                                                        *)
(***************************************************************************)
EXTENDS Hospital, FiniteSetTheorems, TLAPS

-----------------------------------------------------------------------------
(* The inductive invariant. *)

SeatsHoldPatients == \A i \in Occupied : patients_waiting[i] \in Patients

(* A patient whose seat is taken stands elsewhere only when nobody can sit *)
(* down any more: the room is full and will be consulted, or all are done. *)
AwayFromSeat ==
  \A i \in Occupied :
    patient[patients_waiting[i]] \notin {"seated", "woken"}
      => CanConsult \/ patients_remaining <= 0

ConsultationSealed == doctor = "consulting" => CanConsult

TreatedStayTreated ==
  \A p \in Patients : treated[p] => p \in consulted /\ patient[p] \in {"loop", "done"}

WaitingHaveSeats ==
  \A p \in Patients :
    patient[p] \in {"seated", "woken"}
      => p \in consulted \/ \E i \in Occupied : patients_waiting[i] = p

RemainingCoversUntreated == patients_remaining >= Cardinality(Untreated)

DoctorLeavesLast == doctor \in {"loopSecond", "done"} => patients_remaining <= 0

Inv ==
  /\ TypeOK
  /\ SeatsHoldPatients
  /\ SeatsDistinct
  /\ AwayFromSeat
  /\ ConsultationSealed
  /\ TreatedStayTreated
  /\ WaitingHaveSeats
  /\ RemainingCoversUntreated
  /\ DoctorLeavesLast
  /\ DoctorNotAsleepOverWork

-----------------------------------------------------------------------------
(* Counting the untreated. *)

(* The untreated patients can be counted. *)
LEMMA UntreatedFinite == IsFiniteSet(Untreated) /\ Cardinality(Untreated) \in Nat
<1>1. Untreated \subseteq Patients
  BY DEF Untreated
<1>2. IsFiniteSet(Untreated)
  BY <1>1, PatientsAssumption, FS_Subset
<1> QED
  BY <1>2, FS_CardinalityType

(* And so can all of them. *)
LEMMA PatientsCardinality == Cardinality(Patients) \in Nat
BY PatientsAssumption, FS_CardinalityType

(* One patient more that is treated is one untreated patient less. *)
LEMMA OneTreated ==
  ASSUME TypeOK, NEW p \in Patients, ~treated[p],
         treated' = [treated EXCEPT ![p] = TRUE]
  PROVE  Cardinality(Untreated') = Cardinality(Untreated) - 1
<1>1. Untreated' = Untreated \ {p}
  BY DEF TypeOK, Untreated
<1>2. p \in Untreated
  BY DEF Untreated
<1> QED
  BY <1>1, <1>2, UntreatedFinite, FS_RemoveElement

-----------------------------------------------------------------------------
(* The invariant holds when main has created the threads. *)
LEMMA InitInv == Init => Inv
<1> SUFFICES ASSUME Init PROVE Inv
  OBVIOUS
<1> USE DEF Init
<1>1. Occupied = {}
  BY DEF Occupied
<1>2. Untreated = Patients
  BY DEF Untreated
<1>3. TypeOK
  <2>1. patients_waiting \in [Seats -> Patients \union {NoPatient}]
    OBVIOUS
  <2>2. my_position \in [Patients -> Seats] /\ treated \in [Patients -> BOOLEAN]
    BY SizesAssumption DEF Seats
  <2>3. patient \in [Patients -> PatientAt] /\ pharmacist \in [Pharmacists -> PharmacistAt]
    BY DEF PatientAt, PharmacistAt
  <2>4. /\ patients_in_hospital \in 0 .. MAX_PATIENTS_IN_HOSPITAL
        /\ medicine_in_stock \in 0 .. MEDICINE_CAPACITY
        /\ patients_remaining \in 0 .. Cardinality(Patients)
    BY SizesAssumption, PatientsCardinality
  <2> QED
    BY <2>1, <2>2, <2>3, <2>4 DEF TypeOK, DoctorAt, MainAt
<1>4. RemainingCoversUntreated
  BY <1>2, PatientsCardinality DEF RemainingCoversUntreated
<1> QED
  BY <1>1, <1>3, <1>4
  DEF Inv, SeatsHoldPatients, SeatsDistinct, AwayFromSeat, ConsultationSealed,
      TreatedStayTreated, WaitingHaveSeats, DoctorLeavesLast, DoctorNotAsleepOverWork, Occupied

(* Steps that change nothing but where the doctor is, and doctor_sleeping. *)
LEMMA DoctorWalks ==
  ASSUME Inv,
         DoctorTestsRemaining \/ DoctorTestsHospital \/ DoctorSleeps \/ DoctorGoesHome
           \/ DoctorConsults \/ DoctorTakesDelivery \/ DoctorDozesOff
  PROVE  Inv'
<1> USE DEF Inv, shared, locals
<1>1. UNCHANGED <<patients_in_hospital, medicine_in_stock, patients_remaining, patients_waiting,
                  pharmacist_waiting, locals, patient, pharmacist, main, consulted>>
  BY DEF DoctorTestsRemaining, DoctorTestsHospital, DoctorSleeps, DoctorGoesHome,
         DoctorConsults, DoctorTakesDelivery, DoctorDozesOff
<1>2. TypeOK'
  BY <1>1 DEF TypeOK, DoctorAt, DoctorTestsRemaining, DoctorTestsHospital, DoctorSleeps,
              DoctorGoesHome, DoctorConsults, DoctorTakesDelivery, DoctorDozesOff
<1>3. (SeatsHoldPatients /\ SeatsDistinct /\ AwayFromSeat /\ TreatedStayTreated
         /\ WaitingHaveSeats /\ RemainingCoversUntreated)'
  BY <1>1 DEF SeatsHoldPatients, SeatsDistinct, AwayFromSeat, TreatedStayTreated,
              WaitingHaveSeats, RemainingCoversUntreated, Occupied, Untreated, CanConsult, Stocked
<1>4. (ConsultationSealed /\ DoctorLeavesLast /\ DoctorNotAsleepOverWork)'
  BY <1>1 DEF TypeOK, ConsultationSealed, DoctorLeavesLast, DoctorNotAsleepOverWork,
              HasWork, CanConsult, CanTakeDelivery, Stocked, NobodyLeft,
              DoctorTestsRemaining, DoctorTestsHospital, DoctorSleeps,
              DoctorGoesHome, DoctorConsults, DoctorTakesDelivery, DoctorDozesOff
<1> QED
  BY <1>2, <1>3, <1>4

(* Lines 65-70: the room is emptied and the patients woken. *)
LEMMA ConsultationEnds == ASSUME Inv, DoctorEndsConsultation PROVE Inv'
<1> USE DEF Inv, DoctorEndsConsultation, locals
<1>1. CanConsult
  BY DEF ConsultationSealed
<1>2. Occupied' = {}
  BY DEF Occupied
<1>3. TypeOK'
  <2>1. medicine_in_stock' \in 0 .. MEDICINE_CAPACITY
    BY <1>1, SizesAssumption DEF TypeOK, CanConsult, Stocked
  <2>2. patient' \in [Patients -> PatientAt]
    BY DEF TypeOK, BroadcastPatients, PatientAt
  <2>3. consulted' \subseteq Patients
    BY DEF TypeOK, SeatsHoldPatients, Occupied
  <2>4. patients_in_hospital' \in 0 .. MAX_PATIENTS_IN_HOSPITAL
    BY SizesAssumption
  <2> QED
    BY <2>1, <2>2, <2>3, <2>4 DEF TypeOK, DoctorAt
<1>4. TreatedStayTreated'
  BY DEF TypeOK, TreatedStayTreated, BroadcastPatients
<1>5. WaitingHaveSeats'
  <2> SUFFICES ASSUME NEW p \in Patients, patient'[p] \in {"seated", "woken"}
               PROVE  p \in consulted'
    BY DEF WaitingHaveSeats
  <2>1. patient[p] \in {"seated", "woken"}
    BY DEF TypeOK, BroadcastPatients
  <2>2. p \in consulted \/ \E i \in Occupied : patients_waiting[i] = p
    BY <2>1 DEF WaitingHaveSeats
  <2> QED
    BY <2>2 DEF Occupied
<1>6. RemainingCoversUntreated'
  BY DEF RemainingCoversUntreated, Untreated
<1> QED
  BY <1>2, <1>3, <1>4, <1>5, <1>6
  DEF SeatsHoldPatients, SeatsDistinct, AwayFromSeat, ConsultationSealed, DoctorLeavesLast,
      DoctorNotAsleepOverWork, Occupied

(* Lines 80-94: the stock is filled and the pharmacists woken. *)
LEMMA DeliveryEnds == ASSUME Inv, DoctorEndsDelivery PROVE Inv'
<1> USE DEF Inv, DoctorEndsDelivery, locals
<1>1. medicine_in_stock <= medicine_in_stock' /\ medicine_in_stock' \in 0 .. MEDICINE_CAPACITY
  BY SizesAssumption DEF TypeOK, Restocked
<1>2. CanConsult => CanConsult'
  BY <1>1, SizesAssumption DEF TypeOK, CanConsult, Stocked
<1>3. pharmacist' \in [Pharmacists -> PharmacistAt]
  BY DEF TypeOK, BroadcastPharmacists, PharmacistAt
<1>4. TypeOK'
  BY <1>1, <1>3 DEF TypeOK, DoctorAt
<1>5. (SeatsHoldPatients /\ SeatsDistinct /\ AwayFromSeat /\ TreatedStayTreated
         /\ WaitingHaveSeats /\ RemainingCoversUntreated)'
  BY <1>2 DEF SeatsHoldPatients, SeatsDistinct, AwayFromSeat, TreatedStayTreated,
              WaitingHaveSeats, RemainingCoversUntreated, Occupied, Untreated
<1> QED
  BY <1>4, <1>5 DEF ConsultationSealed, DoctorLeavesLast, DoctorNotAsleepOverWork

-----------------------------------------------------------------------------
(* Steps of a patient that touch neither the seats nor the counters. *)
LEMMA PatientWalks ==
  ASSUME Inv, NEW p \in Patients, PatientTestsRemaining(p) \/ PatientTurnsBack(p)
  PROVE  Inv'
<1> USE DEF Inv, shared, locals, PatientTestsRemaining, PatientTurnsBack
<1>1. /\ UNCHANGED <<shared, locals, doctor, pharmacist, main, consulted>>
      /\ patient[p] \in {"loop", "away"}
      /\ patient' = [patient EXCEPT ![p] = patient'[p]]
      /\ patient'[p] \in {"loop", "away", "done"}
  BY DEF TypeOK
<1>2. TypeOK'
  BY <1>1 DEF TypeOK, PatientAt
<1>3. TreatedStayTreated'
  BY DEF TypeOK, TreatedStayTreated
<1>4. AwayFromSeat'
  BY <1>1 DEF TypeOK, AwayFromSeat, SeatsHoldPatients, Occupied, CanConsult, Stocked
<1>5. WaitingHaveSeats'
  BY <1>1 DEF TypeOK, WaitingHaveSeats, Occupied
<1> QED
  BY <1>1, <1>2, <1>3, <1>4, <1>5
  DEF SeatsHoldPatients, SeatsDistinct, ConsultationSealed, RemainingCoversUntreated, Untreated,
      DoctorLeavesLast, DoctorNotAsleepOverWork, Occupied, HasWork, CanConsult, CanTakeDelivery,
      Stocked

(* Lines 126-144: a patient takes a seat and may wake the doctor. *)
LEMMA SittingDown ==
  ASSUME Inv, NEW p \in Patients, PatientSitsDown(p)
  PROVE  Inv'
<1> DEFINE seat == patients_in_hospital
<1> USE DEF Inv, PatientSitsDown
<1>1. /\ patients_in_hospital \in Nat
      /\ patients_in_hospital < MAX_PATIENTS_IN_HOSPITAL
      /\ patients_in_hospital' = patients_in_hospital + 1
      /\ seat \in Seats
      /\ ~CanConsult
      /\ patients_remaining > 0
      /\ Occupied' = Occupied \union {seat}
      /\ seat \notin Occupied
  BY SizesAssumption DEF TypeOK, RoomFull, CanConsult, Occupied, Seats
<1>2. /\ patients_waiting'[seat] = p
      /\ \A i \in Occupied : patients_waiting'[i] = patients_waiting[i]
  BY <1>1 DEF TypeOK, Occupied, Seats
(* Whoever is away from its seat finds the room full. *)
<1>3. \A i \in Occupied : patients_waiting[i] # p
  <2> SUFFICES ASSUME NEW i \in Occupied, patients_waiting[i] = p PROVE FALSE
    OBVIOUS
  <2>1. patient[patients_waiting[i]] = "away"
    OBVIOUS
  <2>2. CanConsult \/ patients_remaining <= 0
    BY <2>1 DEF AwayFromSeat
  <2> QED
    BY <1>1, <2>2 DEF TypeOK
<1>4. /\ patient'[p] \in {"seated", "loop"}
      /\ patient' = [patient EXCEPT ![p] = patient'[p]]
      /\ patient'[p] = "loop" => CanConsult'
  BY <1>1, SizesAssumption DEF TypeOK, MustWait, CanConsult, Stocked
<1>5. TypeOK'
  <2>1. patients_waiting' \in [Seats -> Patients \union {NoPatient}]
    BY <1>1 DEF TypeOK
  <2>2. my_position' \in [Patients -> Seats]
    BY <1>1, SizesAssumption DEF TypeOK, Seats
  <2>3. doctor' \in DoctorAt /\ doctor_sleeping' \in BOOLEAN
    BY DEF TypeOK, SignalDoctor, DoctorAt
  <2>4. patient' \in [Patients -> PatientAt]
    BY <1>4 DEF TypeOK, PatientAt
  <2>5. patients_in_hospital' \in 0 .. MAX_PATIENTS_IN_HOSPITAL
    BY <1>1, SizesAssumption
  <2> QED
    BY <2>1, <2>2, <2>3, <2>4, <2>5 DEF TypeOK
<1>6. (SeatsHoldPatients /\ SeatsDistinct)'
  <2>1. SeatsHoldPatients'
    BY <1>1, <1>2 DEF SeatsHoldPatients
  <2>2. SeatsDistinct'
    <3> SUFFICES ASSUME NEW i \in Occupied', NEW j \in Occupied', i # j
                 PROVE  patients_waiting'[i] # patients_waiting'[j]
      BY DEF SeatsDistinct, Occupied
    <3>1. CASE i = seat
      BY <1>1, <1>2, <1>3, <3>1
    <3>2. CASE j = seat
      BY <1>1, <1>2, <1>3, <3>2
    <3>3. CASE i # seat /\ j # seat
      BY <1>1, <1>2, <3>3 DEF SeatsDistinct, Occupied
    <3> QED
      BY <3>1, <3>2, <3>3
  <2> QED
    BY <2>1, <2>2
<1>7. AwayFromSeat'
  <2> SUFFICES ASSUME NEW i \in Occupied', ~CanConsult'
               PROVE  patient'[patients_waiting'[i]] \in {"seated", "woken"}
    BY DEF AwayFromSeat
  <2>1. CASE i = seat
    BY <1>2, <1>4, <2>1
  <2>2. CASE i # seat
    BY <1>1, <1>2, <1>3, <1>4, <2>2 DEF AwayFromSeat, SeatsHoldPatients, TypeOK
  <2> QED
    BY <2>1, <2>2
<1>8. ConsultationSealed'
  BY <1>1 DEF ConsultationSealed, SignalDoctor
<1>9. TreatedStayTreated'
  BY <1>4 DEF TypeOK, TreatedStayTreated
<1>10. WaitingHaveSeats'
  BY <1>1, <1>2, <1>4 DEF TypeOK, WaitingHaveSeats
<1>11. RemainingCoversUntreated'
  BY DEF RemainingCoversUntreated, Untreated
<1>12. DoctorLeavesLast'
  BY DEF DoctorLeavesLast, SignalDoctor
<1>13. DoctorNotAsleepOverWork'
  BY <1>1, SizesAssumption
  DEF TypeOK, DoctorNotAsleepOverWork, HasWork, CanConsult, CanTakeDelivery, Stocked,
      WakesDoctor, SignalDoctor
<1> QED
  BY <1>5, <1>6, <1>7, <1>8, <1>9, <1>10, <1>11, <1>12, <1>13

(* Lines 139-153: a woken patient finds its seat still taken. *)
LEMMA StillWaiting ==
  ASSUME Inv, NEW p \in Patients, PatientStillWaiting(p)
  PROVE  Inv'
<1> USE DEF Inv, PatientStillWaiting, shared
<1>1. SeatOf(p) \in SeatsOf(p)
  <2>1. SeatsOf(p) \subseteq 0 .. patients_in_hospital - 1 /\ SeatsOf(p) # {}
    BY DEF SeatsOf
  <2>2. \A i, j \in SeatsOf(p) : i = j
    BY DEF SeatsOf, SeatsDistinct
  <2>3. \E i \in SeatsOf(p) : \A j \in SeatsOf(p) : i <= j
    BY <2>1, <2>2
  <2> QED
    BY <2>3 DEF SeatOf
<1>2. SeatOf(p) \in Occupied /\ SeatOf(p) \in Seats
  BY <1>1, SizesAssumption DEF SeatsOf, Occupied, Seats, TypeOK
<1>3. /\ patient[p] = "woken"
      /\ patient'[p] \in {"seated", "loop"}
      /\ patient' = [patient EXCEPT ![p] = patient'[p]]
      /\ patient'[p] = "loop" => CanConsult \/ patients_remaining <= 0
  BY <1>2, SizesAssumption DEF TypeOK, MustWait, CanConsult, Stocked, Occupied, Seats
<1>4. TypeOK'
  <2>1. my_position' \in [Patients -> Seats]
    BY <1>2, SizesAssumption DEF TypeOK, Seats
  <2>2. patient' \in [Patients -> PatientAt]
    BY <1>3 DEF TypeOK, PatientAt
  <2> QED
    BY <2>1, <2>2 DEF TypeOK
<1>5. AwayFromSeat'
  BY <1>3 DEF TypeOK, AwayFromSeat, SeatsHoldPatients, Occupied, CanConsult, Stocked
<1>6. TreatedStayTreated'
  BY <1>3 DEF TypeOK, TreatedStayTreated
<1>7. WaitingHaveSeats'
  BY <1>3 DEF TypeOK, WaitingHaveSeats, Occupied
<1> QED
  BY <1>4, <1>5, <1>6, <1>7
  DEF SeatsHoldPatients, SeatsDistinct, ConsultationSealed, RemainingCoversUntreated, Untreated,
      DoctorLeavesLast, DoctorNotAsleepOverWork, Occupied, HasWork, CanConsult, CanTakeDelivery,
      Stocked

(* Lines 154-163: a woken patient finds its seat gone. *)
LEMMA BeingTreated ==
  ASSUME Inv, NEW p \in Patients, PatientTreated(p)
  PROVE  Inv'
<1> USE DEF Inv, PatientTreated
<1>1. ~treated[p] /\ p \in consulted /\ \A i \in Occupied : patients_waiting[i] # p
  BY DEF TreatedStayTreated, WaitingHaveSeats, SeatsOf, Occupied
<1>2. Cardinality(Untreated') = Cardinality(Untreated) - 1
  BY <1>1, OneTreated
<1>3. p \in Untreated
  BY <1>1 DEF Untreated
<1>4. Cardinality(Untreated) \in Nat \ {0}
  BY <1>3, UntreatedFinite, FS_EmptySet
<1>5. /\ patients_remaining' \in {patients_remaining, patients_remaining - 1}
      /\ patients_remaining' \in 0 .. Cardinality(Patients)
  BY <1>4, PatientsCardinality DEF TypeOK, RemainingCoversUntreated
<1>6. RemainingCoversUntreated'
  BY <1>2, <1>4, <1>5 DEF RemainingCoversUntreated, TypeOK
<1>7. TypeOK'
  BY <1>5, SizesAssumption DEF TypeOK, PatientAt, Seats
<1>8. AwayFromSeat'
  BY <1>1, <1>5 DEF TypeOK, AwayFromSeat, SeatsHoldPatients, Occupied, CanConsult, Stocked
<1>9. TreatedStayTreated'
  BY <1>1 DEF TypeOK, TreatedStayTreated
<1>10. WaitingHaveSeats'
  BY DEF TypeOK, WaitingHaveSeats, Occupied
<1>11. DoctorLeavesLast'
  BY <1>5 DEF TypeOK, DoctorLeavesLast
<1> QED
  BY <1>6, <1>7, <1>8, <1>9, <1>10, <1>11
  DEF SeatsHoldPatients, SeatsDistinct, ConsultationSealed, DoctorNotAsleepOverWork, Occupied,
      HasWork, CanConsult, CanTakeDelivery, Stocked

-----------------------------------------------------------------------------
(* Steps of a pharmacist, of main, and spurious wakeups. *)

(* pharmacist_thread touches pharmacist_waiting and wakes the doctor. *)
LEMMA PharmacistStep ==
  ASSUME Inv, NEW f \in Pharmacists, Pharmacist(f)
  PROVE  Inv'
<1> USE DEF Inv, shared, locals
<1>1. CASE PharmacistWakesDoctor(f)
  <2> USE DEF PharmacistWakesDoctor
  <2>1. TypeOK'
    BY <1>1 DEF TypeOK, PharmacistAt, SignalDoctor, DoctorAt
  <2>2. (ConsultationSealed /\ DoctorLeavesLast /\ DoctorNotAsleepOverWork)'
    BY <1>1 DEF ConsultationSealed, DoctorLeavesLast, DoctorNotAsleepOverWork, SignalDoctor,
                CanConsult, Stocked
  <2> QED
    BY <1>1, <2>1, <2>2
    DEF SeatsHoldPatients, SeatsDistinct, AwayFromSeat, TreatedStayTreated, WaitingHaveSeats,
        RemainingCoversUntreated, Untreated, Occupied, CanConsult, Stocked
<1>2. CASE \/ PharmacistTestsRemaining(f) \/ PharmacistTestsHospital(f) \/ PharmacistLeaves(f)
           \/ PharmacistAwaitsEmpty(f) \/ PharmacistChecksDelivery(f)
  <2>1. /\ UNCHANGED <<shared, locals, doctor, patient, main, consulted>>
        /\ pharmacist' \in [Pharmacists -> PharmacistAt]
    BY <1>2 DEF TypeOK, PharmacistAt, PharmacistTestsRemaining, PharmacistTestsHospital,
                PharmacistLeaves, PharmacistAwaitsEmpty, PharmacistChecksDelivery
  <2> QED
    BY <2>1
    DEF TypeOK, SeatsHoldPatients, SeatsDistinct, AwayFromSeat, ConsultationSealed,
        TreatedStayTreated, WaitingHaveSeats, RemainingCoversUntreated, Untreated,
        DoctorLeavesLast, DoctorNotAsleepOverWork, Occupied, HasWork, CanConsult,
        CanTakeDelivery, Stocked
<1> QED
  BY <1>1, <1>2 DEF Pharmacist

(* main wakes the others when it has joined all the patients. *)
LEMMA MainStep == ASSUME Inv, Main PROVE Inv'
<1> USE DEF Inv, shared, locals
<1>1. /\ UNCHANGED <<patients_in_hospital, medicine_in_stock, patients_remaining,
                     patients_waiting, pharmacist_waiting, locals, patient, consulted>>
      /\ doctor' = doctor \/ (doctor = "asleep" /\ doctor' = "woken")
  BY DEF Main, MainWakesDoctor, MainWakesPharmacists, MainReturns, SignalDoctor
<1>2. /\ doctor_sleeping' \in BOOLEAN /\ main' \in MainAt
      /\ pharmacist' \in [Pharmacists -> PharmacistAt]
  BY DEF Main, MainWakesDoctor, MainWakesPharmacists, MainReturns, TypeOK, MainAt,
         BroadcastPharmacists, PharmacistAt
<1>3. TypeOK'
  BY <1>1, <1>2 DEF TypeOK, DoctorAt
<1> QED
  BY <1>1, <1>3
  DEF SeatsHoldPatients, SeatsDistinct, AwayFromSeat, ConsultationSealed, TreatedStayTreated,
      WaitingHaveSeats, RemainingCoversUntreated, Untreated, DoctorLeavesLast,
      DoctorNotAsleepOverWork, Occupied, HasWork, CanConsult, CanTakeDelivery, Stocked

(* A spurious wakeup moves a thread and changes no shared variable. *)
LEMMA SpuriousStep == ASSUME Inv, SpuriousWakeup PROVE Inv'
<1> USE DEF Inv, shared, locals
<1>1. UNCHANGED <<shared, locals, main, consulted>>
  BY DEF SpuriousWakeup
<1>2. doctor' = doctor \/ (doctor = "asleep" /\ doctor' = "woken")
  BY DEF SpuriousWakeup, SignalDoctor
<1>3. /\ patient' \in [Patients -> PatientAt]
      /\ \A p \in Patients : \/ patient'[p] = patient[p]
                             \/ patient[p] = "seated" /\ patient'[p] = "woken"
  BY DEF SpuriousWakeup, TypeOK, PatientAt
<1>4. pharmacist' \in [Pharmacists -> PharmacistAt]
  BY DEF SpuriousWakeup, TypeOK, PharmacistAt
<1>5. TypeOK'
  BY <1>1, <1>2, <1>3, <1>4 DEF TypeOK, DoctorAt
<1>6. AwayFromSeat'
  BY <1>1, <1>3 DEF AwayFromSeat, SeatsHoldPatients, Occupied, CanConsult, Stocked
<1>7. TreatedStayTreated'
  BY <1>1, <1>3 DEF TreatedStayTreated
<1>8. WaitingHaveSeats'
  BY <1>1, <1>3 DEF WaitingHaveSeats, Occupied
<1> QED
  BY <1>1, <1>2, <1>5, <1>6, <1>7, <1>8
  DEF SeatsHoldPatients, SeatsDistinct, ConsultationSealed, RemainingCoversUntreated, Untreated,
      DoctorLeavesLast, DoctorNotAsleepOverWork, Occupied, HasWork, CanConsult,
      CanTakeDelivery, Stocked

(* Nothing moves. *)
LEMMA StutterStep == ASSUME Inv, UNCHANGED vars PROVE Inv'
BY DEF Inv, vars, shared, locals, TypeOK, SeatsHoldPatients, SeatsDistinct, AwayFromSeat,
       ConsultationSealed, TreatedStayTreated, WaitingHaveSeats, RemainingCoversUntreated,
       Untreated, DoctorLeavesLast, DoctorNotAsleepOverWork, Occupied, HasWork, CanConsult,
       CanTakeDelivery, Stocked

(* The invariant is inductive. *)
LEMMA NextInv == Inv /\ [Next]_vars => Inv'
<1> SUFFICES ASSUME Inv, [Next]_vars PROVE Inv'
  OBVIOUS
<1>1. CASE Doctor
  BY <1>1, DoctorWalks, ConsultationEnds, DeliveryEnds DEF Doctor
<1>2. ASSUME NEW p \in Patients, Patient(p) PROVE Inv'
  BY <1>2, PatientWalks, SittingDown, StillWaiting, BeingTreated DEF Patient
<1>3. ASSUME NEW f \in Pharmacists, Pharmacist(f) PROVE Inv'
  BY <1>3, PharmacistStep
<1>4. CASE Main
  BY <1>4, MainStep
<1>5. CASE SpuriousWakeup
  BY <1>5, SpuriousStep
<1>6. CASE UNCHANGED vars
  BY <1>6, StutterStep
<1> QED
  BY <1>1, <1>2, <1>3, <1>4, <1>5, <1>6 DEF Next

-----------------------------------------------------------------------------
(* The inductive invariant holds in every reachable state. *)
THEOREM InvHolds == Spec => []Inv
BY InitInv, NextInv, PTL DEF Spec

(* Types, and with them the bounds of the counters: the room never holds    *)
(* more patients than it has seats, the stock is never negative nor above   *)
(* the capacity, patients_remaining never falls below zero.                 *)
THEOREM TypeCorrect == Spec => []TypeOK
<1>1. Inv => TypeOK
  BY DEF Inv
<1> QED
  BY <1>1, InvHolds, PTL

(* The doctor's wait misses no signal. *)
THEOREM NoLostWakeup == Spec => []DoctorNotAsleepOverWork
<1>1. Inv => DoctorNotAsleepOverWork
  BY DEF Inv
<1> QED
  BY <1>1, InvHolds, PTL

(* No patient sits in two seats. *)
THEOREM OneSeatEach == Spec => []SeatsDistinct
<1>1. Inv => SeatsDistinct
  BY DEF Inv
<1> QED
  BY <1>1, InvHolds, PTL

(* Nobody leaves believing it was treated without having been consulted. *)
THEOREM TreatedSound == Spec => []TreatedWereConsulted
<1>1. Inv => TreatedWereConsulted
  BY DEF Inv, TreatedStayTreated, TreatedWereConsulted
<1> QED
  BY <1>1, InvHolds, PTL

(* The doctor's thread ends after every patient was treated. *)
THEOREM DoctorStaysForAll == Spec => []NoPatientAbandoned
<1>1. Inv => NoPatientAbandoned
  <2> SUFFICES ASSUME Inv, doctor = "done" PROVE Untreated = {}
    BY DEF NoPatientAbandoned, Untreated
  <2>1. Cardinality(Untreated) <= patients_remaining /\ patients_remaining <= 0
    BY DEF Inv, RemainingCoversUntreated, DoctorLeavesLast
  <2>2. Cardinality(Untreated) = 0
    BY <2>1, UntreatedFinite DEF Inv, TypeOK
  <2> QED
    BY <2>2, UntreatedFinite, FS_EmptySet
<1> QED
  BY <1>1, InvHolds, PTL

(* Room, seats and stock stand still while the doctor consults without      *)
(* holding the mutex.                                                       *)
THEOREM ConsultationIsolated == Spec => ConsultationUndisturbed
<1> DEFINE Still == doctor = "consulting" /\ doctor' = "consulting" =>
                      UNCHANGED <<patients_in_hospital, patients_waiting, medicine_in_stock>>
<1>1. Inv /\ [Next]_vars => Still
  <2> SUFFICES ASSUME Inv, [Next]_vars, doctor = "consulting", doctor' = "consulting"
               PROVE  UNCHANGED <<patients_in_hospital, patients_waiting, medicine_in_stock>>
    OBVIOUS
  <2>1. RoomFull
    BY DEF Inv, ConsultationSealed, CanConsult, RoomFull
  <2>2. CASE Doctor
    BY <2>2 DEF Doctor, DoctorTestsRemaining, DoctorTestsHospital, DoctorSleeps, DoctorGoesHome,
                DoctorConsults, DoctorTakesDelivery, DoctorDozesOff, DoctorIsUp,
                DoctorEndsConsultation, DoctorEndsDelivery
  <2>3. ASSUME NEW p \in Patients, Patient(p)
        PROVE  UNCHANGED <<patients_in_hospital, patients_waiting, medicine_in_stock>>
    BY <2>1, <2>3 DEF Patient, PatientTestsRemaining, PatientTurnsBack, PatientSitsDown,
                      PatientStillWaiting, PatientTreated, shared
  <2>4. ASSUME NEW f \in Pharmacists, Pharmacist(f)
        PROVE  UNCHANGED <<patients_in_hospital, patients_waiting, medicine_in_stock>>
    BY <2>4 DEF Pharmacist, PharmacistTestsRemaining, PharmacistTestsHospital, PharmacistLeaves,
                PharmacistAwaitsEmpty, PharmacistWakesDoctor, PharmacistChecksDelivery, shared
  <2>5. CASE Main \/ SpuriousWakeup
    BY <2>5 DEF Main, MainWakesDoctor, MainWakesPharmacists, MainReturns, SpuriousWakeup, shared
  <2>6. CASE UNCHANGED vars
    BY <2>6 DEF vars, shared
  <2> QED
    BY <2>2, <2>3, <2>4, <2>5, <2>6 DEF Next
<1>2. Inv /\ [Next]_vars => [Still]_vars
  BY <1>1
<1> QED
  BY <1>2, InvHolds, PTL DEF Spec, ConsultationUndisturbed
-----------------------------------------------------------------------------
(* What is needed besides for the refinement of Clinic and for the ways to *)
(* hang: a second invariant, inductive relative to the first.              *)

SeatedInRoom == \A p \in Patients : patient[p] = "seated" => p \in InRoom

RoomUntreated == \A i \in Occupied : ~treated[patients_waiting[i]]

DoneWereTreated == \A p \in Patients : patient[p] = "done" => treated[p] \/ patients_remaining <= 0

AnnouncedWhileShort == pharmacist_waiting => ~Stocked

AnnouncedWhileAwaited ==
  \A f \in Pharmacists : pharmacist[f] = "awaitsDoctor" => pharmacist_waiting

DeliveryNeeded == doctor = "delivery" => CanTakeDelivery

PharmacistsStay ==
  \A f \in Pharmacists : pharmacist[f] \in {"loopSecond", "done"} => patients_remaining <= 0

RoomLeftEmpty == doctor = "done" => patients_in_hospital = 0

PatientsJoined ==
  main # "joinPatients" =>
    /\ \A p \in Patients : patient[p] = "done"
    /\ doctor = "asleep" => ~NobodyLeft

DoctorJoined ==
  main \in {"joinPharmacists", "done"} =>
    doctor = "done" /\ \A f \in Pharmacists : pharmacist[f] # "awaitsEmpty"

Waiting ==
  /\ SeatedInRoom
  /\ RoomUntreated
  /\ DoneWereTreated
  /\ AnnouncedWhileShort
  /\ AnnouncedWhileAwaited
  /\ DeliveryNeeded
  /\ PharmacistsStay
  /\ RoomLeftEmpty
  /\ PatientsJoined
  /\ DoctorJoined

(* Those in the room are as many as the seats taken. *)
LEMMA RoomCardinality == Inv => Cardinality(InRoom) = patients_in_hospital
<1> SUFFICES ASSUME Inv PROVE Cardinality(InRoom) = patients_in_hospital
  OBVIOUS
<1> DEFINE sits == [i \in Occupied |-> patients_waiting[i]]
<1>1. patients_in_hospital \in Nat
  BY SizesAssumption DEF Inv, TypeOK
<1>2. IsFiniteSet(Occupied) /\ Cardinality(Occupied) = patients_in_hospital
  BY <1>1, FS_Interval DEF Occupied
<1>3. sits \in Surjection(Occupied, InRoom)
  BY DEF Surjection, InRoom
<1>4. sits \in Injection(Occupied, InRoom)
  <2>1. \A i, j \in Occupied : sits[i] = sits[j] => i = j
    BY DEF Inv, SeatsDistinct, Occupied
  <2> QED
    BY <1>3, <2>1 DEF Injection, IsInjective, Surjection
<1> QED
  BY <1>2, <1>3, <1>4, FS_Surjection

(* The second invariant holds at the beginning. *)
LEMMA InitWaiting == Init => Waiting
BY DEF Init, Waiting, SeatedInRoom, RoomUntreated, DoneWereTreated, AnnouncedWhileShort,
       AnnouncedWhileAwaited, DeliveryNeeded, PharmacistsStay, RoomLeftEmpty, PatientsJoined,
       DoctorJoined, Occupied

(* Steps that change nothing but where the doctor is, and doctor_sleeping. *)
LEMMA DoctorWalksWaiting ==
  ASSUME Inv, Waiting,
         DoctorTestsRemaining \/ DoctorTestsHospital \/ DoctorSleeps \/ DoctorGoesHome
           \/ DoctorConsults \/ DoctorTakesDelivery \/ DoctorDozesOff
  PROVE  Waiting'
<1> USE DEF Waiting, shared, locals
<1>1. UNCHANGED <<patients_in_hospital, medicine_in_stock, patients_remaining, patients_waiting,
                  pharmacist_waiting, locals, patient, pharmacist, main, consulted>>
  BY DEF DoctorTestsRemaining, DoctorTestsHospital, DoctorSleeps, DoctorGoesHome,
         DoctorConsults, DoctorTakesDelivery, DoctorDozesOff
<1>2. (SeatedInRoom /\ RoomUntreated /\ DoneWereTreated /\ AnnouncedWhileShort
         /\ AnnouncedWhileAwaited /\ PharmacistsStay)'
  BY <1>1 DEF SeatedInRoom, RoomUntreated, DoneWereTreated, AnnouncedWhileShort,
              AnnouncedWhileAwaited, PharmacistsStay, Occupied, InRoom, Stocked
<1>3. doctor # "done"
  BY DEF DoctorTestsRemaining, DoctorTestsHospital, DoctorSleeps, DoctorGoesHome,
         DoctorConsults, DoctorTakesDelivery, DoctorDozesOff, DoctorIsUp
<1>4. doctor' = "delivery" => CanTakeDelivery
  BY DEF DoctorTestsRemaining, DoctorTestsHospital, DoctorSleeps, DoctorGoesHome,
         DoctorConsults, DoctorTakesDelivery, DoctorDozesOff
<1>5. doctor' = "done" => patients_in_hospital = 0
  BY DEF DoctorTestsRemaining, DoctorTestsHospital, DoctorSleeps, DoctorGoesHome,
         DoctorConsults, DoctorTakesDelivery, DoctorDozesOff, NobodyLeft, Inv, TypeOK
<1>6. doctor' = "asleep" => ~NobodyLeft
  BY DEF DoctorTestsRemaining, DoctorTestsHospital, DoctorSleeps, DoctorGoesHome,
         DoctorConsults, DoctorTakesDelivery, DoctorDozesOff
<1>7. (DeliveryNeeded /\ RoomLeftEmpty /\ PatientsJoined /\ DoctorJoined)'
  BY <1>1, <1>3, <1>4, <1>5, <1>6
  DEF DeliveryNeeded, RoomLeftEmpty, PatientsJoined, DoctorJoined, CanTakeDelivery, Stocked,
      NobodyLeft
<1> QED
  BY <1>2, <1>7

(* The end of a consultation: nobody is left seated. *)
LEMMA ConsultationEndsWaiting == ASSUME Inv, Waiting, DoctorEndsConsultation PROVE Waiting'
<1> USE DEF Waiting, DoctorEndsConsultation, locals
<1>1. Occupied' = {}
  BY DEF Occupied
<1>2. \A p \in Patients : patient'[p] # "seated" /\ (patient'[p] = "done" <=> patient[p] = "done")
  BY DEF Inv, TypeOK, BroadcastPatients
<1>3. Stocked' => Stocked
  BY SizesAssumption DEF Inv, TypeOK, Stocked
<1>4. main # "joinPharmacists" /\ main # "done"
  BY DEF DoctorJoined
<1> QED
  BY <1>1, <1>2, <1>3, <1>4
  DEF SeatedInRoom, RoomUntreated, DoneWereTreated, AnnouncedWhileShort, AnnouncedWhileAwaited,
      DeliveryNeeded, PharmacistsStay, RoomLeftEmpty, PatientsJoined, DoctorJoined

(* The end of a delivery: nobody is left awaiting one. *)
LEMMA DeliveryEndsWaiting == ASSUME Inv, Waiting, DoctorEndsDelivery PROVE Waiting'
<1> USE DEF Waiting, DoctorEndsDelivery, locals
<1>1. \A f \in Pharmacists :
        /\ pharmacist'[f] # "awaitsDoctor"
        /\ pharmacist'[f] \in {"loopSecond", "done"} => pharmacist'[f] = pharmacist[f]
  BY DEF Inv, TypeOK, BroadcastPharmacists
<1>2. main # "joinPharmacists" /\ main # "done"
  BY DEF DoctorJoined
<1>3. (SeatedInRoom /\ RoomUntreated /\ DoneWereTreated)'
  BY DEF SeatedInRoom, RoomUntreated, DoneWereTreated, InRoom, Occupied
<1>4. (AnnouncedWhileAwaited /\ PharmacistsStay)'
  BY <1>1 DEF AnnouncedWhileAwaited, PharmacistsStay
<1> QED
  BY <1>2, <1>3, <1>4
  DEF AnnouncedWhileShort, DeliveryNeeded, RoomLeftEmpty, PatientsJoined, DoctorJoined

(* A patient at the door. *)
LEMMA PatientWalksWaiting ==
  ASSUME Inv, Waiting, NEW p \in Patients, PatientTestsRemaining(p) \/ PatientTurnsBack(p)
  PROVE  Waiting'
<1> USE DEF Waiting, shared, locals, PatientTestsRemaining, PatientTurnsBack
<1>1. /\ UNCHANGED <<shared, locals, doctor, pharmacist, main, consulted>>
      /\ patient[p] \in {"loop", "away"}
      /\ patient' = [patient EXCEPT ![p] = patient'[p]]
      /\ patient'[p] \in {"loop", "away", "done"}
  BY DEF Inv, TypeOK
<1>2. patient'[p] = "done" => treated[p] \/ patients_remaining <= 0
  BY DEF Inv, TypeOK
<1>3. main = "joinPatients"
  BY <1>1 DEF PatientsJoined
<1>4. (SeatedInRoom /\ DoneWereTreated)'
  BY <1>1, <1>2 DEF Inv, TypeOK, SeatedInRoom, DoneWereTreated, InRoom, Occupied
<1>5. (RoomUntreated /\ AnnouncedWhileShort /\ AnnouncedWhileAwaited /\ DeliveryNeeded
         /\ PharmacistsStay /\ RoomLeftEmpty)'
  BY <1>1 DEF RoomUntreated, AnnouncedWhileShort, AnnouncedWhileAwaited, DeliveryNeeded,
              PharmacistsStay, RoomLeftEmpty, Occupied, Stocked, CanTakeDelivery
<1> QED
  BY <1>1, <1>3, <1>4, <1>5 DEF PatientsJoined, DoctorJoined

(* What sitting down does to the room. *)
LEMMA SitsInRoom ==
  ASSUME Inv, NEW p \in Patients, PatientSitsDown(p)
  PROVE  /\ patients_in_hospital' = patients_in_hospital + 1
         /\ Occupied' = Occupied \union {patients_in_hospital}
         /\ patients_in_hospital \notin Occupied
         /\ patients_waiting'[patients_in_hospital] = p
         /\ \A i \in Occupied : patients_waiting'[i] = patients_waiting[i]
         /\ InRoom' = InRoom \union {p}
<1> USE DEF PatientSitsDown
<1>1. /\ patients_in_hospital \in Nat /\ patients_in_hospital \in Seats
      /\ patients_in_hospital' = patients_in_hospital + 1
      /\ Occupied \subseteq Seats
  BY SizesAssumption DEF Inv, TypeOK, RoomFull, Occupied, Seats
<1>2. Occupied' = Occupied \union {patients_in_hospital} /\ patients_in_hospital \notin Occupied
  BY <1>1 DEF Occupied
<1>3. /\ patients_waiting'[patients_in_hospital] = p
      /\ \A i \in Occupied : patients_waiting'[i] = patients_waiting[i]
  BY <1>1, <1>2 DEF Inv, TypeOK
<1>4. InRoom' = InRoom \union {p}
  BY <1>2, <1>3 DEF InRoom
<1> QED
  BY <1>1, <1>2, <1>3, <1>4

(* A patient sits down. *)
LEMMA SittingDownWaiting ==
  ASSUME Inv, Waiting, NEW p \in Patients, PatientSitsDown(p)
  PROVE  Waiting'
<1> USE DEF Waiting, PatientSitsDown
<1>1. InRoom' = InRoom \union {p}
  BY SitsInRoom
<1>2. /\ patient[p] = "away" /\ patients_remaining > 0
      /\ patient' = [patient EXCEPT ![p] = patient'[p]]
      /\ patient'[p] \in {"seated", "loop"}
  BY DEF Inv, TypeOK
<1>3. ~treated[p]
  BY <1>2 DEF Inv, TreatedStayTreated
<1>4. doctor # "done" /\ doctor' # "done" /\ main = "joinPatients"
  BY <1>2 DEF Inv, TypeOK, DoctorLeavesLast, PatientsJoined, SignalDoctor
<1>5. doctor' = "delivery" => doctor = "delivery"
  BY DEF SignalDoctor
<1>6. SeatedInRoom'
  BY <1>1, <1>2 DEF Inv, TypeOK, SeatedInRoom
<1>7. RoomUntreated'
  BY <1>3, SitsInRoom DEF RoomUntreated
<1>8. DoneWereTreated'
  BY <1>2 DEF Inv, TypeOK, DoneWereTreated
<1>9. (AnnouncedWhileShort /\ AnnouncedWhileAwaited /\ DeliveryNeeded /\ PharmacistsStay)'
  BY <1>5 DEF AnnouncedWhileShort, AnnouncedWhileAwaited, DeliveryNeeded, PharmacistsStay,
              Stocked, CanTakeDelivery
<1> QED
  BY <1>4, <1>6, <1>7, <1>8, <1>9 DEF RoomLeftEmpty, PatientsJoined, DoctorJoined

(* A woken patient goes back to its seat, or to the door with the seat taken. *)
LEMMA StillWaitingWaiting ==
  ASSUME Inv, Waiting, NEW p \in Patients, PatientStillWaiting(p)
  PROVE  Waiting'
<1> USE DEF Waiting, PatientStillWaiting, shared
<1>1. p \in InRoom
  BY DEF SeatsOf, InRoom, Occupied
<1>2. /\ patient[p] = "woken"
      /\ patient' = [patient EXCEPT ![p] = patient'[p]]
      /\ patient'[p] \in {"seated", "loop"}
  BY DEF Inv, TypeOK
<1>3. main = "joinPatients"
  BY <1>2 DEF PatientsJoined
<1>4. (SeatedInRoom /\ DoneWereTreated)'
  BY <1>1, <1>2 DEF Inv, TypeOK, SeatedInRoom, DoneWereTreated, InRoom, Occupied
<1>5. (RoomUntreated /\ AnnouncedWhileShort /\ AnnouncedWhileAwaited /\ DeliveryNeeded
         /\ PharmacistsStay /\ RoomLeftEmpty)'
  BY DEF RoomUntreated, AnnouncedWhileShort, AnnouncedWhileAwaited, DeliveryNeeded,
         PharmacistsStay, RoomLeftEmpty, Occupied, Stocked, CanTakeDelivery
<1> QED
  BY <1>3, <1>4, <1>5 DEF PatientsJoined, DoctorJoined

(* A woken patient without a seat has been treated. *)
LEMMA BeingTreatedWaiting ==
  ASSUME Inv, Waiting, NEW p \in Patients, PatientTreated(p)
  PROVE  Waiting'
<1> USE DEF Waiting, PatientTreated
<1>1. /\ patient[p] = "woken"
      /\ patient' = [patient EXCEPT ![p] = "loop"] /\ treated' = [treated EXCEPT ![p] = TRUE]
      /\ UNCHANGED <<patients_in_hospital, patients_waiting, medicine_in_stock,
                     pharmacist_waiting, doctor, pharmacist, main>>
  OBVIOUS
<1>2. patients_remaining' \in Int /\ patients_remaining' <= patients_remaining
  BY PatientsCardinality DEF Inv, TypeOK
<1>3. main = "joinPatients"
  BY <1>1 DEF PatientsJoined
<1>4. \A i \in Occupied : patients_waiting[i] # p
  BY DEF SeatsOf, Occupied
<1>5. SeatedInRoom'
  BY <1>1 DEF Inv, TypeOK, SeatedInRoom, InRoom, Occupied
<1>6. RoomUntreated'
  BY <1>1, <1>4 DEF Inv, TypeOK, RoomUntreated, Occupied
<1>7. DoneWereTreated'
  BY <1>1, <1>2 DEF Inv, TypeOK, DoneWereTreated
<1>8. PharmacistsStay'
  BY <1>1, <1>2 DEF Inv, TypeOK, PharmacistsStay
<1>9. (AnnouncedWhileShort /\ AnnouncedWhileAwaited /\ DeliveryNeeded /\ RoomLeftEmpty)'
  BY <1>1 DEF AnnouncedWhileShort, AnnouncedWhileAwaited, DeliveryNeeded, RoomLeftEmpty,
              Stocked, CanTakeDelivery
<1> QED
  BY <1>1, <1>3, <1>5, <1>6, <1>7, <1>8, <1>9 DEF PatientsJoined, DoctorJoined

(* A pharmacist moves. *)
LEMMA PharmacistWaiting ==
  ASSUME Inv, Waiting, NEW f \in Pharmacists, Pharmacist(f)
  PROVE  Waiting'
<1> USE DEF Waiting, shared, locals
<1> DEFINE room == <<patients_in_hospital, medicine_in_stock, patients_remaining, patients_waiting,
                     treated, patient, main>>
<1>1. CASE PharmacistWakesDoctor(f)
  <2> USE DEF PharmacistWakesDoctor
  <2>1. /\ UNCHANGED room
        /\ ~Stocked /\ ~NobodyLeft /\ pharmacist_waiting' = TRUE
        /\ pharmacist' = [pharmacist EXCEPT ![f] = "awaitsDoctor"]
        /\ doctor' = (IF doctor = "asleep" THEN "woken" ELSE doctor)
    BY <1>1 DEF SignalDoctor
  <2>2. (SeatedInRoom /\ RoomUntreated /\ DoneWereTreated)'
    BY <2>1 DEF SeatedInRoom, RoomUntreated, DoneWereTreated, InRoom, Occupied
  <2>3. (AnnouncedWhileShort /\ DeliveryNeeded /\ RoomLeftEmpty)'
    BY <2>1 DEF AnnouncedWhileShort, DeliveryNeeded, RoomLeftEmpty, CanTakeDelivery, Stocked
  <2>4. (AnnouncedWhileAwaited /\ PharmacistsStay)'
    BY <2>1 DEF Inv, TypeOK, AnnouncedWhileAwaited, PharmacistsStay
  <2>5. (PatientsJoined /\ DoctorJoined)'
    BY <2>1 DEF Inv, TypeOK, PatientsJoined, DoctorJoined, NobodyLeft
  <2> QED
    BY <2>2, <2>3, <2>4, <2>5
<1>2. CASE \/ PharmacistTestsRemaining(f) \/ PharmacistTestsHospital(f) \/ PharmacistLeaves(f)
           \/ PharmacistAwaitsEmpty(f) \/ PharmacistChecksDelivery(f)
  <2>1. UNCHANGED room /\ UNCHANGED <<pharmacist_waiting, doctor>>
    BY <1>2 DEF PharmacistTestsRemaining, PharmacistTestsHospital,
                PharmacistLeaves, PharmacistAwaitsEmpty, PharmacistChecksDelivery
  <2>2. /\ pharmacist' = [pharmacist EXCEPT ![f] = pharmacist'[f]]
        /\ pharmacist'[f] = "awaitsDoctor" => pharmacist_waiting
        /\ pharmacist'[f] = "awaitsEmpty" => ~NobodyLeft
    BY <1>2 DEF Inv, TypeOK, PharmacistTestsRemaining, PharmacistTestsHospital,
                PharmacistLeaves, PharmacistAwaitsEmpty, PharmacistChecksDelivery
  <2>3. pharmacist'[f] \in {"loopSecond", "done"} => patients_remaining <= 0
    BY <1>2 DEF Inv, TypeOK, PharmacistTestsRemaining, PharmacistTestsHospital, PharmacistsStay,
                PharmacistLeaves, PharmacistAwaitsEmpty, PharmacistChecksDelivery, NobodyLeft
  <2>4. (SeatedInRoom /\ RoomUntreated /\ DoneWereTreated)'
    BY <2>1 DEF SeatedInRoom, RoomUntreated, DoneWereTreated, InRoom, Occupied
  <2>5. (AnnouncedWhileShort /\ DeliveryNeeded /\ RoomLeftEmpty /\ PatientsJoined)'
    BY <2>1 DEF AnnouncedWhileShort, DeliveryNeeded, RoomLeftEmpty, PatientsJoined,
                CanTakeDelivery, Stocked, NobodyLeft
  <2>6. (AnnouncedWhileAwaited /\ PharmacistsStay)'
    BY <2>1, <2>2, <2>3 DEF Inv, TypeOK, AnnouncedWhileAwaited, PharmacistsStay
  <2>7. DoctorJoined'
    <3> SUFFICES ASSUME main \in {"joinPharmacists", "done"} PROVE DoctorJoined'
      BY <2>1 DEF DoctorJoined
    <3>1. doctor = "done" /\ NobodyLeft
      BY DEF DoctorJoined, RoomLeftEmpty, DoctorLeavesLast, NobodyLeft, Inv
    <3> QED
      BY <2>1, <2>2, <3>1 DEF Inv, TypeOK, DoctorJoined
  <2> QED
    BY <2>4, <2>5, <2>6, <2>7
<1> QED
  BY <1>1, <1>2 DEF Pharmacist

(* main has joined the patients, the doctor or the pharmacists. *)
LEMMA MainWaiting == ASSUME Inv, Waiting, Main PROVE Waiting'
<1> USE DEF Waiting, shared, locals
<1>1. /\ UNCHANGED <<patients_in_hospital, medicine_in_stock, patients_remaining,
                     patients_waiting, pharmacist_waiting, treated, patient>>
      /\ doctor' = doctor \/ (doctor = "asleep" /\ doctor' = "woken")
      /\ pharmacist' = pharmacist \/ BroadcastPharmacists
  BY DEF Main, MainWakesDoctor, MainWakesPharmacists, MainReturns, SignalDoctor
<1>2. \A f \in Pharmacists :
        \/ pharmacist'[f] = pharmacist[f]
        \/ pharmacist'[f] \in {"wokenEmpty", "wokenDoctor"}
  BY <1>1 DEF Inv, TypeOK, BroadcastPharmacists
<1>3. (SeatedInRoom /\ RoomUntreated /\ DoneWereTreated)'
  BY <1>1 DEF SeatedInRoom, RoomUntreated, DoneWereTreated, InRoom, Occupied
<1>4. (AnnouncedWhileShort /\ DeliveryNeeded /\ RoomLeftEmpty)'
  BY <1>1 DEF AnnouncedWhileShort, DeliveryNeeded, RoomLeftEmpty, CanTakeDelivery, Stocked
<1>5. (AnnouncedWhileAwaited /\ PharmacistsStay)'
  BY <1>1, <1>2 DEF AnnouncedWhileAwaited, PharmacistsStay
<1>6. CASE MainWakesDoctor
  BY <1>1, <1>3, <1>4, <1>5, <1>6
  DEF MainWakesDoctor, SignalDoctor, PatientsJoined, DoctorJoined
<1>7. CASE MainWakesPharmacists
  <2>1. \A f \in Pharmacists : pharmacist'[f] # "awaitsEmpty"
    BY <1>7 DEF MainWakesPharmacists, BroadcastPharmacists
  <2> QED
    BY <1>1, <1>3, <1>4, <1>5, <1>7, <2>1 DEF MainWakesPharmacists, PatientsJoined, DoctorJoined
<1>8. CASE MainReturns
  BY <1>1, <1>3, <1>4, <1>5, <1>8 DEF MainReturns, PatientsJoined, DoctorJoined, NobodyLeft
<1> QED
  BY <1>6, <1>7, <1>8 DEF Main

(* A spurious wakeup. *)
LEMMA SpuriousWaiting == ASSUME Inv, Waiting, SpuriousWakeup PROVE Waiting'
<1> USE DEF Waiting, shared, locals
<1>1. /\ UNCHANGED <<shared, treated, main>>
      /\ doctor' = doctor \/ (doctor = "asleep" /\ doctor' = "woken")
  BY DEF SpuriousWakeup, SignalDoctor
<1>2. \A p \in Patients : \/ patient'[p] = patient[p]
                          \/ patient[p] = "seated" /\ patient'[p] = "woken"
  BY DEF SpuriousWakeup, Inv, TypeOK
<1>3. \A f \in Pharmacists :
        \/ pharmacist'[f] = pharmacist[f]
        \/ pharmacist'[f] \in {"wokenEmpty", "wokenDoctor"}
  BY DEF SpuriousWakeup, Inv, TypeOK
<1>4. (SeatedInRoom /\ RoomUntreated /\ DoneWereTreated)'
  BY <1>1, <1>2 DEF SeatedInRoom, RoomUntreated, DoneWereTreated, InRoom, Occupied
<1>5. (AnnouncedWhileShort /\ DeliveryNeeded /\ RoomLeftEmpty)'
  BY <1>1 DEF AnnouncedWhileShort, DeliveryNeeded, RoomLeftEmpty, CanTakeDelivery, Stocked
<1>6. (AnnouncedWhileAwaited /\ PharmacistsStay)'
  BY <1>1, <1>3 DEF AnnouncedWhileAwaited, PharmacistsStay
<1>7. (PatientsJoined /\ DoctorJoined)'
  BY <1>1, <1>2, <1>3 DEF PatientsJoined, DoctorJoined, NobodyLeft
<1> QED
  BY <1>4, <1>5, <1>6, <1>7

(* The second invariant is inductive under the first. *)
LEMMA NextWaiting == Inv /\ Waiting /\ [Next]_vars => Waiting'
<1> SUFFICES ASSUME Inv, Waiting, [Next]_vars PROVE Waiting'
  OBVIOUS
<1>1. CASE Doctor
  BY <1>1, DoctorWalksWaiting, ConsultationEndsWaiting, DeliveryEndsWaiting DEF Doctor
<1>2. ASSUME NEW p \in Patients, Patient(p) PROVE Waiting'
  BY <1>2, PatientWalksWaiting, SittingDownWaiting, StillWaitingWaiting, BeingTreatedWaiting
  DEF Patient
<1>3. ASSUME NEW f \in Pharmacists, Pharmacist(f) PROVE Waiting'
  BY <1>3, PharmacistWaiting
<1>4. CASE Main
  BY <1>4, MainWaiting
<1>5. CASE SpuriousWakeup
  BY <1>5, SpuriousWaiting
<1>6. CASE UNCHANGED vars
  BY <1>6 DEF vars, shared, locals, Waiting, SeatedInRoom, RoomUntreated, DoneWereTreated,
              AnnouncedWhileShort, AnnouncedWhileAwaited, DeliveryNeeded, PharmacistsStay,
              RoomLeftEmpty, PatientsJoined, DoctorJoined, InRoom, Occupied, Stocked,
              CanTakeDelivery, NobodyLeft
<1> QED
  BY <1>1, <1>2, <1>3, <1>4, <1>5, <1>6 DEF Next

(* And holds in every reachable state. *)
THEOREM WaitingHolds == Spec => []Waiting
BY InitWaiting, NextWaiting, InvHolds, PTL DEF Spec

-----------------------------------------------------------------------------
(* The hospital implements Clinic, step by step. *)

(* When nobody remains to be counted, everybody has been treated and the   *)
(* room is empty.                                                          *)
LEMMA NobodyRemains ==
  ASSUME Inv, Waiting, patients_remaining <= 0
  PROVE  Untreated = {} /\ InRoom = {} /\ patients_in_hospital = 0 /\ consulted = Patients
<1>1. Cardinality(Untreated) = 0
  BY UntreatedFinite DEF Inv, TypeOK, RemainingCoversUntreated
<1>2. Untreated = {}
  BY <1>1, UntreatedFinite, FS_EmptySet
<1>3. Occupied = {}
  BY <1>2 DEF Inv, Waiting, RoomUntreated, SeatsHoldPatients, Untreated
<1>4. patients_in_hospital = 0
  BY <1>3 DEF Inv, TypeOK, Occupied
<1>5. consulted = Patients
  BY <1>2 DEF Inv, TypeOK, TreatedStayTreated, Untreated
<1> QED
  BY <1>2, <1>3, <1>4, <1>5 DEF InRoom

(* Clinic counts as this module does. *)
LEMMA SameCardinality == \A S : AtClinic!Cardinality(S) = Cardinality(S)
BY DEF AtClinic!Cardinality, Cardinality

(* A step that leaves the room, the stock, the announcement and the history *)
(* alone, and moves the doctor between two places where he is free or not   *)
(* at all, stutters.                                                        *)
LEMMA Stutters ==
  ASSUME UNCHANGED <<patients_in_hospital, patients_waiting, medicine_in_stock,
                     pharmacist_waiting, consulted>>,
         DoctorDoes' = DoctorDoes
  PROVE  UNCHANGED AtClinic!vars
BY DEF AtClinic!vars, InRoom, Occupied

LEMMA SignalKeepsDoctor == ASSUME SignalDoctor PROVE DoctorDoes' = DoctorDoes
BY DEF SignalDoctor, DoctorDoes

(* The doctor's steps. *)
LEMMA DoctorAtClinic ==
  ASSUME Inv, Waiting, Doctor PROVE [AtClinic!Next]_AtClinic!vars
<1> USE DEF shared, locals
<1> DEFINE kept == <<patients_in_hospital, patients_waiting, medicine_in_stock,
                     pharmacist_waiting, consulted>>
<1>1. CASE \/ DoctorTestsRemaining \/ DoctorSleeps \/ DoctorDozesOff
           \/ (DoctorTestsHospital /\ doctor' # "done")
  <2>1. UNCHANGED kept /\ DoctorDoes' = DoctorDoes
    BY <1>1 DEF DoctorTestsRemaining, DoctorSleeps, DoctorDozesOff, DoctorTestsHospital,
                DoctorIsUp, DoctorDoes
  <2> QED
    BY <2>1, Stutters
<1>2. CASE DoctorGoesHome \/ (DoctorTestsHospital /\ doctor' = "done")
  <2>1. UNCHANGED kept /\ DoctorDoes = "free" /\ DoctorDoes' = "home"
    BY <1>2 DEF DoctorGoesHome, DoctorTestsHospital, DoctorDoes
  <2>2. patients_remaining <= 0
    BY <1>2 DEF DoctorGoesHome, NobodyLeft, DoctorTestsHospital, Inv, DoctorLeavesLast
  <2>3. InRoom = {} /\ consulted = Patients
    BY <2>2, NobodyRemains
  <2>4. InRoom' = InRoom
    BY <2>1 DEF InRoom, Occupied
  <2>5. AtClinic!GoHome
    BY <2>1, <2>3, <2>4 DEF AtClinic!GoHome
  <2> QED
    BY <2>5 DEF AtClinic!Next
<1>3. CASE DoctorConsults
  <2>1. UNCHANGED kept /\ DoctorDoes = "free" /\ DoctorDoes' = "consulting"
    BY <1>3 DEF DoctorConsults, DoctorIsUp, DoctorDoes
  <2>2. Cardinality(InRoom) = MAX_PATIENTS_IN_HOSPITAL /\ Stocked
    BY <1>3, RoomCardinality, SizesAssumption DEF DoctorConsults, CanConsult, Inv, TypeOK
  <2>3. InRoom' = InRoom
    BY <2>1 DEF InRoom, Occupied
  <2>4. ~AtClinic!Short
    BY <2>2, SizesAssumption DEF AtClinic!Short, Stocked, Inv, TypeOK
  <2>5. AtClinic!BeginConsultation
    BY <2>1, <2>2, <2>3, <2>4, SameCardinality DEF AtClinic!BeginConsultation
  <2> QED
    BY <2>5 DEF AtClinic!Next
<1>4. CASE DoctorEndsConsultation
  <2>1. /\ DoctorDoes = "consulting" /\ DoctorDoes' = "free"
        /\ medicine_in_stock' = medicine_in_stock - MEDICINE_PER_CONSULTATION
        /\ pharmacist_waiting' = pharmacist_waiting
    BY <1>4 DEF DoctorEndsConsultation, DoctorDoes
  <2>2. InRoom' = {}
    BY <1>4 DEF DoctorEndsConsultation, InRoom, Occupied
  <2>3. consulted' = consulted \union InRoom
    BY <1>4 DEF DoctorEndsConsultation, InRoom, Occupied
  <2>4. AtClinic!EndConsultation
    BY <2>1, <2>2, <2>3 DEF AtClinic!EndConsultation
  <2> QED
    BY <2>4 DEF AtClinic!Next
<1>5. CASE DoctorTakesDelivery
  <2>1. UNCHANGED kept /\ DoctorDoes = "free" /\ DoctorDoes' = "delivery"
    BY <1>5 DEF DoctorTakesDelivery, DoctorIsUp, DoctorDoes
  <2>2. InRoom' = InRoom
    BY <2>1 DEF InRoom, Occupied
  <2>3. pharmacist_waiting /\ AtClinic!Short
    BY <1>5, SizesAssumption
    DEF DoctorTakesDelivery, CanTakeDelivery, AtClinic!Short, Stocked, Inv, TypeOK
  <2>4. AtClinic!BeginDelivery
    BY <2>1, <2>2, <2>3 DEF AtClinic!BeginDelivery
  <2> QED
    BY <2>4 DEF AtClinic!Next
<1>6. CASE DoctorEndsDelivery
  <2>1. /\ DoctorDoes = "delivery" /\ DoctorDoes' = "free"
        /\ pharmacist_waiting' = FALSE /\ consulted' = consulted
    BY <1>6 DEF DoctorEndsDelivery, DoctorDoes
  <2>2. InRoom' = InRoom
    BY <1>6 DEF DoctorEndsDelivery, InRoom, Occupied
  <2>3. medicine_in_stock' = IF medicine_in_stock + DELIVERY_AMOUNT < MEDICINE_CAPACITY
                               THEN medicine_in_stock + DELIVERY_AMOUNT ELSE MEDICINE_CAPACITY
    BY <1>6, SizesAssumption DEF DoctorEndsDelivery, Restocked, Inv, TypeOK
  <2>4. AtClinic!EndDelivery
    BY <2>1, <2>2, <2>3 DEF AtClinic!EndDelivery
  <2> QED
    BY <2>4 DEF AtClinic!Next
<1> QED
  BY <1>1, <1>2, <1>3, <1>4, <1>5, <1>6 DEF Doctor

(* A patient's steps: only sitting down is one of the clinic. *)
LEMMA PatientAtClinic ==
  ASSUME Inv, Waiting, NEW p \in Patients, Patient(p) PROVE [AtClinic!Next]_AtClinic!vars
<1>1. CASE PatientSitsDown(p)
  <2>1. InRoom' = InRoom \union {p}
    BY <1>1, SitsInRoom
  <2>2. patients_in_hospital < MAX_PATIENTS_IN_HOSPITAL /\ patients_remaining > 0
        /\ UNCHANGED <<medicine_in_stock, pharmacist_waiting, consulted>>
    BY <1>1, SizesAssumption DEF PatientSitsDown, RoomFull, Inv, TypeOK
  <2>3. Cardinality(InRoom) < MAX_PATIENTS_IN_HOSPITAL
    BY <2>2, RoomCardinality
  <2>4. p \notin InRoom
    <3>1. patient[p] = "away" /\ ~CanConsult
      BY <1>1, SizesAssumption DEF PatientSitsDown, RoomFull, CanConsult, Inv, TypeOK
    <3> QED
      BY <2>2, <3>1 DEF InRoom, Inv, AwayFromSeat, TypeOK
  <2>5. DoctorDoes' = DoctorDoes
    BY <1>1 DEF PatientSitsDown, SignalDoctor, DoctorDoes
  <2>6. DoctorDoes \in {"free", "delivery"}
    <3>1. doctor # "consulting"
      BY <2>2, SizesAssumption DEF Inv, TypeOK, ConsultationSealed, CanConsult
    <3>2. doctor # "done"
      BY <2>2 DEF Inv, TypeOK, DoctorLeavesLast
    <3> QED
      BY <3>1, <3>2 DEF DoctorDoes
  <2>7. AtClinic!Enter(p)
    BY <2>1, <2>2, <2>3, <2>4, <2>5, <2>6, SameCardinality DEF AtClinic!Enter
  <2> QED
    BY <2>7 DEF AtClinic!Next
<1>2. CASE ~PatientSitsDown(p)
  <2>1. UNCHANGED <<patients_in_hospital, patients_waiting, medicine_in_stock,
                    pharmacist_waiting, consulted, doctor>>
    BY <1>2 DEF Patient, PatientTestsRemaining, PatientTurnsBack, PatientStillWaiting,
                PatientTreated, shared, locals
  <2> QED
    BY <2>1, Stutters DEF DoctorDoes
<1> QED
  BY <1>1, <1>2

(* A pharmacist's steps: only announcing a delivery is one of the clinic. *)
LEMMA PharmacistAtClinic ==
  ASSUME Inv, Waiting, NEW f \in Pharmacists, Pharmacist(f) PROVE [AtClinic!Next]_AtClinic!vars
<1>1. CASE PharmacistWakesDoctor(f)
  <2>1. /\ UNCHANGED <<patients_in_hospital, patients_waiting, medicine_in_stock, consulted>>
        /\ pharmacist_waiting' = TRUE /\ ~Stocked /\ ~NobodyLeft
    BY <1>1 DEF PharmacistWakesDoctor
  <2>2. InRoom' = InRoom
    BY <2>1 DEF InRoom, Occupied
  <2>3. DoctorDoes' = DoctorDoes
    BY <1>1, SignalKeepsDoctor DEF PharmacistWakesDoctor
  <2>4. doctor # "done"
    BY <2>1 DEF Inv, Waiting, DoctorLeavesLast, RoomLeftEmpty, NobodyLeft
  <2>5. doctor # "consulting"
    BY <2>1 DEF Inv, ConsultationSealed, CanConsult
  <2>6. AtClinic!Short
    BY <2>1, SizesAssumption DEF AtClinic!Short, Stocked, Inv, TypeOK
  <2>7. DoctorDoes \in {"free", "delivery"}
    BY <2>4, <2>5 DEF DoctorDoes
  <2>8. AtClinic!Announce
    BY <2>1, <2>2, <2>3, <2>6, <2>7 DEF AtClinic!Announce
  <2> QED
    BY <2>8 DEF AtClinic!Next
<1>2. CASE ~PharmacistWakesDoctor(f)
  <2>1. UNCHANGED <<patients_in_hospital, patients_waiting, medicine_in_stock,
                    pharmacist_waiting, consulted, doctor>>
    BY <1>2 DEF Pharmacist, PharmacistTestsRemaining, PharmacistTestsHospital, PharmacistLeaves,
                PharmacistAwaitsEmpty, PharmacistChecksDelivery, shared
  <2> QED
    BY <2>1, Stutters DEF DoctorDoes
<1> QED
  BY <1>1, <1>2

(* The threads, the mutex, the seats and the wakeups, spurious ones too, are *)
(* the clinic README.md describes.                                          *)
THEOREM ImplementsClinic == Spec => IsClinic
<1>1. Init => AtClinic!Init
  <2> SUFFICES ASSUME Init PROVE AtClinic!Init
    OBVIOUS
  <2>1. InRoom = {}
    BY DEF Init, InRoom, Occupied
  <2> QED
    BY <2>1 DEF Init, AtClinic!Init, DoctorDoes
<1>2. Inv /\ Waiting /\ [Next]_vars => [AtClinic!Next]_AtClinic!vars
  <2> SUFFICES ASSUME Inv, Waiting, [Next]_vars PROVE [AtClinic!Next]_AtClinic!vars
    OBVIOUS
  <2>1. CASE Doctor
    BY <2>1, DoctorAtClinic
  <2>2. ASSUME NEW p \in Patients, Patient(p) PROVE [AtClinic!Next]_AtClinic!vars
    BY <2>2, PatientAtClinic
  <2>3. ASSUME NEW f \in Pharmacists, Pharmacist(f) PROVE [AtClinic!Next]_AtClinic!vars
    BY <2>3, PharmacistAtClinic
  <2>4. CASE Main \/ SpuriousWakeup
    <3>1. /\ UNCHANGED <<patients_in_hospital, patients_waiting, medicine_in_stock,
                         pharmacist_waiting, consulted>>
          /\ doctor' = doctor \/ SignalDoctor
      BY <2>4 DEF Main, MainWakesDoctor, MainWakesPharmacists, MainReturns, SpuriousWakeup, shared
    <3>2. DoctorDoes' = DoctorDoes
      BY <3>1, SignalKeepsDoctor DEF DoctorDoes
    <3> QED
      BY <3>1, <3>2, Stutters
  <2>5. CASE UNCHANGED vars
    BY <2>5, Stutters DEF vars, shared, DoctorDoes
  <2> QED
    BY <2>1, <2>2, <2>3, <2>4, <2>5 DEF Next
<1> QED
  BY <1>1, <1>2, InvHolds, WaitingHolds, PTL DEF Spec, IsClinic, AtClinic!Spec

-----------------------------------------------------------------------------
(* How the program may stop. *)

(* Once every thread is blocked nothing but a spurious wakeup moves one. *)
THEOREM BlockedForGood == Spec => [][Blocked => SpuriousWakeup]_vars
<1>1. [Next]_vars => [Blocked => SpuriousWakeup]_vars
  <2> SUFFICES ASSUME [Next]_vars, Blocked, ~SpuriousWakeup PROVE UNCHANGED vars
    OBVIOUS
  <2>1. ~Doctor
    BY DEF Blocked, Doctor, DoctorTestsRemaining, DoctorTestsHospital, DoctorSleeps,
           DoctorGoesHome, DoctorConsults, DoctorTakesDelivery, DoctorDozesOff, DoctorIsUp,
           DoctorEndsConsultation, DoctorEndsDelivery
  <2>2. ASSUME NEW p \in Patients PROVE ~Patient(p)
    BY DEF Blocked, Patient, PatientTestsRemaining, PatientTurnsBack, PatientSitsDown,
           PatientStillWaiting, PatientTreated
  <2>3. ASSUME NEW f \in Pharmacists PROVE ~Pharmacist(f)
    BY DEF Blocked, Pharmacist, PharmacistTestsRemaining, PharmacistTestsHospital,
           PharmacistLeaves, PharmacistAwaitsEmpty, PharmacistWakesDoctor,
           PharmacistChecksDelivery
  <2>4. ~Main
    BY DEF Blocked, Main, MainWakesDoctor, MainWakesPharmacists, MainReturns
  <2> QED
    BY <2>1, <2>2, <2>3, <2>4 DEF Next
<1> QED
  BY <1>1, PTL DEF Spec

(* While a patient sits and everybody else has ended, somebody remains to be *)
(* treated, and the pharmacists are all waiting for the stock to fall.       *)
LEMMA StopsBeforeTheEnd ==
  ASSUME Inv, Waiting, Blocked, main = "joinPatients"
  PROVE  TooFewLeft \/ OutOfMedicine
<1>1. PICK p \in Patients : patient[p] = "seated"
  BY DEF Blocked
<1>2. p \in Untreated
  BY <1>1 DEF Inv, TreatedStayTreated, Untreated
<1>3. patients_remaining > 0
  BY <1>2, NobodyRemains DEF Inv, TypeOK
<1>4. doctor = "asleep"
  BY <1>3 DEF Blocked, Inv, TypeOK, DoctorLeavesLast
<1>5. ~CanConsult /\ ~CanTakeDelivery
  BY <1>4 DEF Inv, DoctorNotAsleepOverWork, HasWork
<1>6. ~pharmacist_waiting
  BY <1>5 DEF Waiting, AnnouncedWhileShort, CanTakeDelivery
<1>7. \A f \in Pharmacists : pharmacist[f] = "awaitsEmpty"
  BY <1>3, <1>6 DEF Blocked, Waiting, AnnouncedWhileAwaited, PharmacistsStay, Inv, TypeOK
<1>8. InRoom = Untreated
  <2>1. Untreated \subseteq InRoom
    BY <1>3 DEF Blocked, Waiting, SeatedInRoom, DoneWereTreated, Untreated, Inv, TypeOK
  <2>2. InRoom \subseteq Untreated
    BY DEF Waiting, RoomUntreated, InRoom, Untreated, Inv, SeatsHoldPatients
  <2> QED
    BY <2>1, <2>2
<1>9. RoomFull => ~Stocked
  BY <1>5 DEF CanConsult, RoomFull
<1> QED
  BY <1>4, <1>6, <1>7, <1>8, <1>9 DEF TooFewLeft, OutOfMedicine

(* With all patients home, the doctor sleeps only over a miscount. *)
LEMMA StopsWithoutDoctor ==
  ASSUME Inv, Waiting, Blocked, main = "joinDoctor"
  PROVE  Miscounted
<1>1. doctor = "asleep" /\ ~NobodyLeft
  BY DEF Blocked, Waiting, PatientsJoined
<1>2. patients_remaining > 0
  BY <1>1, NobodyRemains DEF NobodyLeft, Inv, TypeOK
<1>3. Untreated = {}
  BY <1>2 DEF Waiting, PatientsJoined, DoneWereTreated, Untreated, Inv, TypeOK
<1>4. InRoom = {}
  BY <1>3 DEF Waiting, RoomUntreated, InRoom, Untreated, Inv, SeatsHoldPatients
<1> QED
  BY <1>1, <1>2, <1>3, <1>4 DEF Miscounted

(* With the doctor home, a pharmacist waits only for a delivery he will not take. *)
LEMMA StopsWithoutPharmacists ==
  ASSUME Inv, Waiting, Blocked, main = "joinPharmacists"
  PROVE  DeliveryTooLate
<1>1. doctor = "done" /\ \A f \in Pharmacists : pharmacist[f] # "awaitsEmpty"
  BY DEF Waiting, DoctorJoined
<1>2. PICK f \in Pharmacists : pharmacist[f] = "awaitsDoctor"
  BY <1>1 DEF Blocked
<1>3. pharmacist_waiting /\ ~Stocked
  BY <1>2 DEF Waiting, AnnouncedWhileAwaited, AnnouncedWhileShort
<1> QED
  BY <1>1, <1>2, <1>3 DEF DeliveryTooLate

(* There are four ways to come to a stop, and no wakeup lost is one of them. *)
THEOREM StopsOnlySo == Spec => []HangsOnlySo
<1>1. Inv /\ Waiting => HangsOnlySo
  BY StopsBeforeTheEnd, StopsWithoutDoctor, StopsWithoutPharmacists
  DEF HangsOnlySo, Inv, TypeOK, MainAt
<1> QED
  BY <1>1, InvHolds, WaitingHolds, PTL

=============================================================================
