------------------------- MODULE HospitalProperties -------------------------
(***************************************************************************)
(* What is checked and proved of the hospital.                             *)
(***************************************************************************)
EXTENDS Hospital, Functions

(* Every variable holds a value of the C++ type it stands for. *)
TypeOK ==
  /\ available_tickets \in Nat
  /\ has_ticket \in [Patient -> BOOLEAN]
  /\ mutex_ticket \in Patient \union {None}
  /\ PState \in [Patient -> [state : PatientState, doctor_id : Doctor \union {None}]]
  /\ patient_queue \in Seq(Patient)
  /\ patient_doctor \in [Patient -> Doctor \union {None}]
  /\ mutex_patient \in 0 .. patient_count + doctor_count - 1 \union {None}
  /\ sem_patient \in Nat
  /\ cond_patient \in [Patient -> {"raw", "live", "destroyed"}]
  /\ DState \in [Doctor -> [state : DoctorState, patient_id : Patient \union {None}]]
  /\ patient_id \in [Doctor -> Patient \union {None}]
  /\ cancelled \subseteq Doctor
  /\ pc_patient \in [Patient -> {"new", "ticket", "take", "turned_away", "enqueue",
       "push", "post", "check", "wait", "blocked", "treatment", "done"}]
  /\ pc_doctor \in [Doctor -> {"new", "rest", "sem_wait", "front", "assign",
       "work", "signal", "done"}]
  /\ main_pc \in {"create_patients", "create_doctors", "join_patients",
       "cancel_doctor", "join_doctor", "report"}
  /\ main_i \in Nat

-----------------------------------------------------------------------------
(* Vocabulary *)

Holders == {p \in Patient : has_ticket[p]}
Posting == {p \in Patient : pc_patient[p] = "post"}
Taking == {d \in Doctor : pc_doctor[d] \in {"front", "assign"}}
InQueue(p) == p \in Range(patient_queue)
\* d has recorded that it treats p and has not yet signalled p.
SignalPending(d, p) == pc_doctor[d] \in {"work", "signal"} /\ patient_id[d] = p

-----------------------------------------------------------------------------
(* Safety *)

(* Both mutexes exclude: a thread is inside a critical section exactly when *)
(* it owns that section's mutex, for mutex_patient whether it is a patient  *)
(* queueing, a patient about to wait, or a doctor between front and pop.    *)
MutualExclusion ==
  /\ \A p \in Patient : /\ mutex_ticket = p <=> pc_patient[p] = "take"
                        /\ mutex_patient = p <=> pc_patient[p] \in {"push", "wait"}
  /\ \A d \in Doctor : mutex_patient = DoctorThread(d) <=> pc_doctor[d] = "assign"

(* Tickets sold and tickets left add up to available_count in every state,  *)
(* and no more are sold than there are, though the test of                  *)
(* available_tickets and its decrement are two steps: the unsigned counter  *)
(* never wraps round.                                                       *)
TicketsAccounted ==
  /\ available_tickets + Cardinality(Holders) = available_count
  /\ Cardinality(Holders) <= available_count

(* No one is turned away while a ticket is left unsold. *)
TurnedAwayOnlyIfSoldOut ==
  \A p \in Patient : pc_patient[p] \in {"turned_away", "done"} /\ ~has_ticket[p]
                       => available_tickets = 0

(* The semaphore counts the queue although a patient posts after unlocking  *)
(* and a doctor pops after sem_wait returned: every queued patient is one   *)
(* token of the semaphore, one patient still to post, or one doctor that    *)
(* has taken a token and not yet popped.                                    *)
TokensMatchQueue ==
  Len(patient_queue) = sem_patient + Cardinality(Posting) + Cardinality(Taking)

(* A doctor about to call front() and pop() never finds the queue empty,    *)
(* which would be undefined behaviour, even if the patient whose post woke  *)
(* it was already taken by another doctor.                                  *)
FrontIsDefined ==
  \A d \in Doctor : pc_doctor[d] \in {"front", "assign"} => patient_queue # <<>>

(* A patient is in the queue once, and exactly while it is Waiting and no   *)
(* doctor is recorded for it; the doctor between front and pop holds the    *)
(* patient at the front.                                                    *)
QueueHoldsTheWaiting ==
  /\ IsInjective(patient_queue)
  /\ \A p \in Patient :
       InQueue(p) <=> PState[p].state = "Waiting" /\ pc_patient[p] # "push"
  /\ \A d \in Doctor : pc_doctor[d] = "assign" => patient_id[d] = Head(patient_queue)

(* No lost wakeup: if a patient is blocked in pthread_cond_wait although it *)
(* is already BeingTreated, the doctor that took it has yet to signal it.   *)
NoLostWakeup ==
  \A p \in Patient : pc_patient[p] = "blocked" /\ PState[p].state = "BeingTreated"
                       => \E d \in Doctor : SignalPending(d, p)

(* The two records of a treatment agree: a patient BeingTreated names the   *)
(* doctor the final report will name, and no doctor is named for a patient  *)
(* that waits or that never had a ticket.                                   *)
RecordsAgree ==
  \A p \in Patient :
    /\ PState[p].state = "BeingTreated" => PState[p].doctor_id = patient_doctor[p]
                                           /\ patient_doctor[p] # None
    /\ patient_doctor[p] # None => has_ticket[p] /\ PState[p].state # "Waiting"

(* Once main starts to cancel the doctors there is no work left for them:   *)
(* every patient has gone, the queue and the semaphore are empty, and no    *)
(* doctor holds a token, so a cancelled doctor leaves nobody stranded.      *)
CancelStrandsNobody ==
  main_pc \in {"cancel_doctor", "join_doctor", "report"} =>
    /\ \A p \in Patient : pc_patient[p] = "done"
    /\ patient_queue = <<>> /\ sem_patient = 0
    /\ \A d \in Doctor : pc_doctor[d] \notin {"front", "assign"}

(* What main reports: the patients a doctor treated are those that had a    *)
(* ticket, as many tickets are left as patients fell short of them, and     *)
(* all threads have ended, the doctors through doctor_cleanup.              *)
ReportIsRight ==
  main_pc = "report" =>
    /\ \A p \in Patient : /\ patient_doctor[p] # None <=> has_ticket[p]
                          /\ PState[p].state = "Left"
    /\ available_tickets = IF available_count > patient_count
                             THEN available_count - patient_count ELSE 0
    /\ \A d \in Doctor : pc_doctor[d] = "done" /\ DState[d].state = "Unknown"

(* A patient is given a doctor once and keeps it: two doctors never take    *)
(* the same patient, and map's operator[] never overwrites an entry.        *)
TreatedOnce ==
  [][\A p \in Patient : patient_doctor[p] # None
                          => patient_doctor'[p] = patient_doctor[p]]_vars

-----------------------------------------------------------------------------
(* The inductive invariant: the properties above, tied to the places of the *)
(* threads they depend on *)

\* What a patient's place in patient() says of its ticket, of its entry of
\* PState and of its entry of patient_doctor.
PatientLife(p) ==
  LET at == pc_patient[p]
      state == PState[p].state
  IN  /\ IF has_ticket[p]
            THEN at \notin {"new", "ticket", "take", "turned_away"}
            ELSE /\ at \in {"new", "ticket", "take", "turned_away", "done"}
                 /\ patient_doctor[p] = None
      /\ at \in {"new", "ticket", "take", "turned_away", "enqueue"} => state = "Unknown"
      /\ at \in {"push", "wait"} => state = "Waiting"
      /\ at \in {"post", "check", "blocked"} => state \in {"Waiting", "BeingTreated"}
      /\ at = "treatment" => state = "BeingTreated"
      /\ at = "done" => state = "Left"
      /\ state \in {"Unknown", "Waiting"} => patient_doctor[p] = None
      /\ state \in {"BeingTreated", "Left"} /\ has_ticket[p] => patient_doctor[p] # None
      /\ state = "BeingTreated" => PState[p].doctor_id = patient_doctor[p]

\* A doctor past front() knows a patient; a cancelled doctor is main's.
DoctorLife(d) ==
  /\ pc_doctor[d] \in {"assign", "work", "signal"} => patient_id[d] \in Patient
  /\ pc_doctor[d] = "done" => DState[d].state = "Unknown"

\* Whom main has created, joined and cancelled, by the loop it is in.
MainLife ==
  /\ main_pc \in {"create_patients", "join_patients"} => main_i < patient_count
  /\ main_pc \in {"create_doctors", "cancel_doctor", "join_doctor"} => main_i < doctor_count
  /\ main_pc = "join_patients" => \A p \in Patient : p < main_i => pc_patient[p] = "done"
  /\ main_pc \in {"cancel_doctor", "join_doctor", "report"} =>
       \A p \in Patient : pc_patient[p] = "done"
  /\ main_pc \in {"cancel_doctor", "join_doctor"} =>
       \A d \in Doctor : d < main_i => pc_doctor[d] = "done"
  /\ main_pc = "report" => \A d \in Doctor : pc_doctor[d] = "done"

IInv ==
  /\ TypeOK
  /\ MutualExclusion
  /\ \A p \in Patient : pc_patient[p] = "take" => available_tickets > 0
  /\ \A p \in Patient : PatientLife(p)
  /\ \A d \in Doctor : DoctorLife(d)
  /\ QueueHoldsTheWaiting
  /\ NoLostWakeup
  /\ TicketsAccounted
  /\ TurnedAwayOnlyIfSoldOut
  /\ TokensMatchQueue
  /\ MainLife

-----------------------------------------------------------------------------
(* Liveness *)

(* Every patient that got a ticket is given a doctor: no deadlock between   *)
(* the queue, the semaphore and the mutexes keeps it waiting.               *)
TicketIsHonoured == \A p \in Patient : has_ticket[p] ~> patient_doctor[p] # None

(* The program ends: every patient leaves, the doctors, which loop for      *)
(* ever, are all cancelled, and main returns.                               *)
ProgramEnds == <>(main_pc = "report")

-----------------------------------------------------------------------------
(* Refinement *)

Place(p) ==
  IF ~has_ticket[p]
    THEN IF pc_patient[p] \in {"turned_away", "done"} THEN "turned_away" ELSE "outside"
  ELSE IF pc_patient[p] \in {"enqueue", "push"} THEN "ticketed"
  ELSE IF PState[p].state = "Waiting" THEN "line"
  ELSE IF PState[p].state = "BeingTreated" THEN "room"
  ELSE "gone"

PromisedClinic == INSTANCE Clinic WITH
  Tickets <- available_count,
  tickets <- available_tickets,
  place <- [p \in Patient |-> Place(p)],
  line <- patient_queue,
  doctorOf <- patient_doctor

(* The threads together are a clinic: tickets while they last, first come   *)
(* first served, each patient called by one doctor, nobody kept for ever.   *)
ImplementsClinic == PromisedClinic!Spec

(* The safety part of that promise alone. *)
ImplementsSafeClinic == PromisedClinic!SafeSpec

-----------------------------------------------------------------------------
(* What comments of the source say and the code does not do *)

(* main.cpp:263: the doctor signals "the patient to start treatment", so    *)
(* the patient's condition variable is there to be signalled.               *)
SignalFindsCondition ==
  \A d \in Doctor : pc_doctor[d] = "signal" => cond_patient[patient_id[d]] = "live"
=============================================================================
