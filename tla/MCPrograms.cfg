CONSTANTS
  u1 = u1
  u2 = u2
  u3 = u3
  s1 = s1
  s2 = s2
  Senders = {s1, s2}
  NoSender = NoSender
  MaxInterrupts = 2
  Users = {u1, u2, u3}
  NoText = NoText
  NoId = NoId
  Limits = {2, 3}
  MaxMessages = 2
  MaxTexts = 2
  num_threads = 3
  max_processes = 3
  Parent = Parent
  Garbage = Garbage
  Uninitialized = Uninitialized
SPECIFICATION Spec
INVARIANTS Sound SignalsSound IdsAgree OneOrder
CHECK_DEADLOCK FALSE
PROPERTIES
  TextsArrive SendersEnd ModesAreCarriedOut ThreadsSumUp PipesSumUp ParentComesThrough
  ProgramsMeet
