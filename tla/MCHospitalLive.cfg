CONSTANTS
  Patients = {p1, p2, p3}
  Pharmacists = {f1}
  NoPatient = NoPatient
  MAX_PATIENTS_IN_HOSPITAL = 2
  MEDICINE_CAPACITY = 2
  MEDICINE_PER_CONSULTATION = 1
  DELIVERY_AMOUNT = 1
SPECIFICATION Spec
PROPERTIES FullRoomIsConsulted AnnouncedDeliveryTaken
CHECK_DEADLOCK FALSE
