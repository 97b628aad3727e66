\* Three patients compete for two tickets and two doctors.
CONSTANTS
  patient_count = 3
  doctor_count = 2
  available_count = 2
SPECIFICATION Spec
INVARIANTS
  IInv
  TicketsAccounted
  TokensMatchQueue
  QueueHoldsTheWaiting
  NoLostWakeup
  CancelStrandsNobody
  ReportIsRight
PROPERTIES
  TicketIsHonoured
  ProgramEnds
  ImplementsClinic
