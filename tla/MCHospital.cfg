CONSTANTS
  Patients = {p1, p2, p3, p4}
  Pharmacists = {f1, f2}
  NoPatient = NoPatient
  MAX_PATIENTS_IN_HOSPITAL = 2
  MEDICINE_CAPACITY = 2
  MEDICINE_PER_CONSULTATION = 1
  DELIVERY_AMOUNT = 1
SYMMETRY Symmetry
SPECIFICATION Spec
INVARIANTS TypeOK DoctorNotAsleepOverWork TreatedWereConsulted NoPatientAbandoned HangsOnlySo
PROPERTY IsClinic
CHECK_DEADLOCK FALSE
