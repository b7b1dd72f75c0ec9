CONSTANTS
  Users = {u1, u2}
  Printers = {d1, d2}
  Jobs = {a, b}
  NoJob = NoJob
  MAX_QUEUE = 2
  MaxRestarts = 1
SPECIFICATION Spec
INVARIANTS TypeOK MutualExclusion
PROPERTIES IsSpooler QueuedJobsAreTaken RoomComesBack
