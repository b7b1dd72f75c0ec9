CONSTANTS
  BUFFER_SIZE = 5
  VALUE_COUNT = 10
SPECIFICATION Spec
INVARIANTS TypeOK ValuesPartitioned NoLostSignal ChecksPass
PROPERTY ProgramEnds
CHECK_DEADLOCK FALSE
