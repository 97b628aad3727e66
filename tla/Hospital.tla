------------------------------ MODULE Hospital ------------------------------
(***************************************************************************)
(* The hospital of lab2-thread/task1/src/main.cpp (kept a second time,     *)
(* byte for byte, in lab4-synmut/problem3-hospital/posix): one thread per  *)
(* patient, one per doctor, and main, which creates them, joins the        *)
(* patients, then cancels and joins the doctors.                           *)
(*                                                                         *)
(* Grain.  A critical section that reads or writes protected data once is  *)
(* one action, enabled while its mutex is free.  One that does more is two *)
(* actions, the first with the lock and the first access, the second with  *)
(* the last access and the unlock, so that the mutex is seen held in       *)
(* between.  Every critical section of mutex_doctor is a single write of   *)
(* DState, so that mutex is never seen held and has no variable.           *)
(* mutex_cout only guards output.  sleep() is the gap between two actions. *)
(***************************************************************************)
EXTENDS Integers, Sequences, FiniteSets

CONSTANTS patient_count, doctor_count, available_count

ASSUME CountsAssumption == /\ patient_count \in Nat \ {0}
                           /\ doctor_count \in Nat \ {0}
                           /\ available_count \in Nat

Patient == 0 .. patient_count - 1
Doctor == 0 .. doctor_count - 1

None == -1                            \* std::nullopt, and the owner of a free mutex
DoctorThread(d) == patient_count + d  \* patient p owns a mutex as p, doctor d so

PatientState == {"Unknown", "Waiting", "BeingTreated", "Left"}
DoctorState == {"Unknown", "Resting", "Working"}

PatientInfo(state, doctor_id) == [state |-> state, doctor_id |-> doctor_id]
DoctorInfo(state, patient_id) == [state |-> state, patient_id |-> patient_id]

VARIABLES
  available_tickets, has_ticket, mutex_ticket,
  PState, patient_queue, patient_doctor, mutex_patient,
  sem_patient,     \* the semaphore's value
  cond_patient,    \* each condition variable: "raw", "live" or "destroyed"
  DState,
  patient_id,      \* doctor's local: the patient it took from the queue
  cancelled,       \* doctors with a pending pthread_cancel
  pc_patient, pc_doctor,
  main_pc, main_i  \* main's loop and that loop's index

tickets == <<available_tickets, has_ticket, mutex_ticket>>
ward == <<PState, patient_queue, patient_doctor, mutex_patient>>
staff == <<DState, patient_id, pc_doctor>>
control == <<cond_patient, cancelled, main_pc, main_i>>
vars == <<tickets, ward, sem_patient, staff, pc_patient, control>>

Init ==
  /\ available_tickets = available_count
  /\ has_ticket = [p \in Patient |-> FALSE]
  /\ mutex_ticket = None
  /\ PState = [p \in Patient |-> PatientInfo("Unknown", None)]
  /\ patient_queue = <<>>
  /\ patient_doctor = [p \in Patient |-> None]
  /\ mutex_patient = None
  /\ sem_patient = 0
  /\ cond_patient = [p \in Patient |-> "raw"]
  /\ DState = [d \in Doctor |-> DoctorInfo("Unknown", None)]
  /\ patient_id = [d \in Doctor |-> None]
  /\ cancelled = {}
  /\ pc_patient = [p \in Patient |-> "new"]
  /\ pc_doctor = [d \in Doctor |-> "new"]
  /\ main_pc = "create_patients"
  /\ main_i = 0

-----------------------------------------------------------------------------
(* Steps of a thread's program counter, and of main's loops *)

PatientGoes(p, from, to) == /\ pc_patient[p] = from
                            /\ pc_patient' = [pc_patient EXCEPT ![p] = to]

DoctorGoes(d, from, to) == /\ pc_doctor[d] = from
                           /\ pc_doctor' = [pc_doctor EXCEPT ![d] = to]

\* One turn of the loop main is in, over 0 .. count - 1; then the loop next.
LoopTurn(count, next) ==
  IF main_i + 1 < count THEN main_i' = main_i + 1 /\ UNCHANGED main_pc
                        ELSE main_i' = 0 /\ main_pc' = next

\* front() and pop() of an empty std::queue are undefined: front may yield any
\* patient; here pop then leaves the queue as it was.
Fronts(queue) == IF queue = <<>> THEN Patient ELSE {Head(queue)}
Popped(queue) == IF queue = <<>> THEN <<>> ELSE Tail(queue)

-----------------------------------------------------------------------------
(* Slips of the pen: wrong variants of actions below, part of no            *)
(* specification.  Each makes a property of HospitalProperties fail.        *)

SeeTicketOffByOne(p) ==        \* >= for >
  /\ mutex_ticket = None
  /\ available_tickets >= 0
  /\ PatientGoes(p, "ticket", "take")
  /\ mutex_ticket' = p
  /\ UNCHANGED <<available_tickets, has_ticket, ward, sem_patient, staff, control>>

JoinQueueInFront(p) ==         \* a stack for a queue
  /\ PatientGoes(p, "push", "post")
  /\ patient_queue' = <<p>> \o patient_queue
  /\ mutex_patient' = None
  /\ UNCHANGED <<tickets, PState, patient_doctor, sem_patient, staff, control>>

InformNobody(p) ==             \* no sem_post
  /\ PatientGoes(p, "post", "check")
  /\ UNCHANGED <<tickets, ward, sem_patient, staff, control>>

SeeUntreatedUnlocked(p) ==     \* the predicate is tested without the lock
  /\ PState[p].state # "BeingTreated"
  /\ PatientGoes(p, "check", "wait")
  /\ mutex_patient' = p
  /\ UNCHANGED <<tickets, PState, patient_queue, patient_doctor,
                 sem_patient, staff, control>>

WakeupReposts(p) ==            \* the loop goes back to sem_post
  /\ PatientGoes(p, "blocked", "post")
  /\ UNCHANGED <<tickets, ward, sem_patient, staff, control>>

SeeFrontUnlocked(d) ==         \* front() without the lock
  /\ DoctorGoes(d, "front", "assign")
  /\ \E p \in Fronts(patient_queue) : patient_id' = [patient_id EXCEPT ![d] = p]
  /\ mutex_patient' = DoctorThread(d)
  /\ UNCHANGED <<tickets, PState, patient_queue, patient_doctor, sem_patient,
                 DState, pc_patient, control>>

AssignWithoutPop(d) ==         \* no pop()
  /\ DoctorGoes(d, "assign", "work")
  /\ PState' = [PState EXCEPT ![patient_id[d]] = PatientInfo("BeingTreated", d)]
  /\ patient_doctor' = [patient_doctor EXCEPT ![patient_id[d]] = d]
  /\ mutex_patient' = None
  /\ UNCHANGED <<tickets, patient_queue, sem_patient, DState, patient_id,
                 pc_patient, control>>

SignalNobody(d) ==             \* no pthread_cond_signal
  /\ DoctorGoes(d, "signal", "rest")
  /\ UNCHANGED <<tickets, ward, sem_patient, DState, patient_id, pc_patient, control>>

JoinPatientAtOnce ==           \* pthread_join does not wait
  /\ main_pc = "join_patients"
  /\ cond_patient' = [cond_patient EXCEPT ![main_i] = "destroyed"]
  /\ LoopTurn(patient_count, "cancel_doctor")
  /\ UNCHANGED <<tickets, ward, sem_patient, staff, pc_patient, cancelled>>

JoinDoctorAtOnce ==            \* pthread_join does not wait
  /\ main_pc = "join_doctor"
  /\ IF main_i + 1 < doctor_count
       THEN main_i' = main_i + 1 /\ main_pc' = "cancel_doctor"
       ELSE main_i' = 0 /\ main_pc' = "report"
  /\ UNCHANGED <<tickets, ward, sem_patient, staff, pc_patient, cond_patient, cancelled>>

-----------------------------------------------------------------------------
(* patient(), one action per step of the thread *)

\* Lock mutex_ticket and find a ticket: the decrement is still to come.
SeeTicket(p) ==
  /\ mutex_ticket = None
  /\ available_tickets > 0
  /\ PatientGoes(p, "ticket", "take")
  /\ mutex_ticket' = p
  /\ UNCHANGED <<available_tickets, has_ticket, ward, sem_patient, staff, control>>

TakeTicket(p) ==
  /\ PatientGoes(p, "take", "enqueue")
  /\ available_tickets' = available_tickets - 1
  /\ has_ticket' = [has_ticket EXCEPT ![p] = TRUE]
  /\ mutex_ticket' = None
  /\ UNCHANGED <<ward, sem_patient, staff, control>>

SeeNoTicket(p) ==
  /\ mutex_ticket = None
  /\ available_tickets = 0
  /\ PatientGoes(p, "ticket", "turned_away")
  /\ UNCHANGED <<tickets, ward, sem_patient, staff, control>>

LeaveUntreated(p) ==
  /\ mutex_patient = None
  /\ PatientGoes(p, "turned_away", "done")
  /\ PState' = [PState EXCEPT ![p] = PatientInfo("Left", None)]
  /\ UNCHANGED <<tickets, patient_queue, patient_doctor, mutex_patient,
                 sem_patient, staff, control>>

\* Lock mutex_patient and become Waiting ...
BecomeWaiting(p) ==
  /\ mutex_patient = None
  /\ PatientGoes(p, "enqueue", "push")
  /\ PState' = [PState EXCEPT ![p] = PatientInfo("Waiting", None)]
  /\ mutex_patient' = p
  /\ UNCHANGED <<tickets, patient_queue, patient_doctor, sem_patient, staff, control>>

\* ... then join the queue and unlock.
JoinQueue(p) ==
  /\ PatientGoes(p, "push", "post")
  /\ patient_queue' = Append(patient_queue, p)
  /\ mutex_patient' = None
  /\ UNCHANGED <<tickets, PState, patient_doctor, sem_patient, staff, control>>

InformDoctor(p) ==
  /\ PatientGoes(p, "post", "check")
  /\ sem_patient' = sem_patient + 1
  /\ UNCHANGED <<tickets, ward, staff, control>>

\* The loop's test fails under the lock; pthread_cond_wait is still to come.
SeeUntreated(p) ==
  /\ mutex_patient = None
  /\ PState[p].state # "BeingTreated"
  /\ PatientGoes(p, "check", "wait")
  /\ mutex_patient' = p
  /\ UNCHANGED <<tickets, PState, patient_queue, patient_doctor,
                 sem_patient, staff, control>>

\* pthread_cond_wait: unlock and block in one step.
CondWait(p) ==
  /\ PatientGoes(p, "wait", "blocked")
  /\ mutex_patient' = None
  /\ UNCHANGED <<tickets, PState, patient_queue, patient_doctor,
                 sem_patient, staff, control>>

SeeTreated(p) ==
  /\ mutex_patient = None
  /\ PState[p].state = "BeingTreated"
  /\ PatientGoes(p, "check", "treatment")
  /\ UNCHANGED <<tickets, ward, sem_patient, staff, control>>

Leave(p) ==
  /\ mutex_patient = None
  /\ PatientGoes(p, "treatment", "done")
  /\ PState' = [PState EXCEPT ![p] = PatientInfo("Left", None)]
  /\ UNCHANGED <<tickets, patient_queue, patient_doctor, mutex_patient,
                 sem_patient, staff, control>>

\* POSIX lets pthread_cond_wait return with no signal: hence the while loop.
SpuriousWakeup(p) ==
  /\ PatientGoes(p, "blocked", "check")
  /\ UNCHANGED <<tickets, ward, sem_patient, staff, control>>

PatientStep(p) ==
  \/ SeeTicket(p) \/ TakeTicket(p) \/ SeeNoTicket(p) \/ LeaveUntreated(p)
  \/ BecomeWaiting(p) \/ JoinQueue(p) \/ InformDoctor(p)
  \/ SeeUntreated(p) \/ CondWait(p) \/ SeeTreated(p) \/ Leave(p)

-----------------------------------------------------------------------------
(* doctor() and its cancellation *)

\* The top of the loop; the previous treatment's sleep() has ended.
Rest(d) ==
  /\ DoctorGoes(d, "rest", "sem_wait")
  /\ DState' = [DState EXCEPT ![d] = DoctorInfo("Resting", None)]
  /\ UNCHANGED <<tickets, ward, sem_patient, patient_id, pc_patient, control>>

SemWait(d) ==
  /\ sem_patient > 0
  /\ DoctorGoes(d, "sem_wait", "front")
  /\ sem_patient' = sem_patient - 1
  /\ UNCHANGED <<tickets, ward, DState, patient_id, pc_patient, control>>

\* Lock mutex_patient and read the front of the queue ...
SeeFront(d) ==
  /\ mutex_patient = None
  /\ DoctorGoes(d, "front", "assign")
  /\ \E p \in Fronts(patient_queue) : patient_id' = [patient_id EXCEPT ![d] = p]
  /\ mutex_patient' = DoctorThread(d)
  /\ UNCHANGED <<tickets, PState, patient_queue, patient_doctor, sem_patient,
                 DState, pc_patient, control>>

\* ... then pop it, record who treats whom, and unlock.
Assign(d) ==
  /\ DoctorGoes(d, "assign", "work")
  /\ patient_queue' = Popped(patient_queue)
  /\ PState' = [PState EXCEPT ![patient_id[d]] = PatientInfo("BeingTreated", d)]
  /\ patient_doctor' = [patient_doctor EXCEPT ![patient_id[d]] = d]
  /\ mutex_patient' = None
  /\ UNCHANGED <<tickets, sem_patient, DState, patient_id, pc_patient, control>>

Work(d) ==
  /\ DoctorGoes(d, "work", "signal")
  /\ DState' = [DState EXCEPT ![d] = DoctorInfo("Working", patient_id[d])]
  /\ UNCHANGED <<tickets, ward, sem_patient, patient_id, pc_patient, control>>

\* pthread_cond_signal wakes the patient if it is blocked and is forgotten if
\* it is not.  It is called after the unlock.
Signal(d) ==
  /\ DoctorGoes(d, "signal", "rest")
  /\ pc_patient' = [pc_patient EXCEPT ![patient_id[d]] =
                      IF @ = "blocked" THEN "check" ELSE @]
  /\ UNCHANGED <<tickets, ward, sem_patient, DState, patient_id, control>>

\* Cancellation is enabled around sem_wait only; doctor_cleanup runs on it.
Cancelled(d) ==
  /\ d \in cancelled
  /\ DoctorGoes(d, "sem_wait", "done")
  /\ DState' = [DState EXCEPT ![d] = DoctorInfo("Unknown", None)]
  /\ UNCHANGED <<tickets, ward, sem_patient, patient_id, pc_patient, control>>

DoctorStep(d) == \/ Rest(d) \/ SemWait(d) \/ SeeFront(d) \/ Assign(d)
                 \/ Work(d) \/ Signal(d) \/ Cancelled(d)

-----------------------------------------------------------------------------
(* main() *)

CreatePatient ==
  /\ main_pc = "create_patients"
  /\ cond_patient' = [cond_patient EXCEPT ![main_i] = "live"]
  /\ PatientGoes(main_i, "new", "ticket")
  /\ LoopTurn(patient_count, "create_doctors")
  /\ UNCHANGED <<tickets, ward, sem_patient, staff, cancelled>>

CreateDoctor ==
  /\ main_pc = "create_doctors"
  /\ DoctorGoes(main_i, "new", "rest")
  /\ LoopTurn(doctor_count, "join_patients")
  /\ UNCHANGED <<tickets, ward, sem_patient, DState, patient_id, pc_patient,
                 cond_patient, cancelled>>

JoinPatient ==
  /\ main_pc = "join_patients"
  /\ pc_patient[main_i] = "done"
  /\ cond_patient' = [cond_patient EXCEPT ![main_i] = "destroyed"]
  /\ LoopTurn(patient_count, "cancel_doctor")
  /\ UNCHANGED <<tickets, ward, sem_patient, staff, pc_patient, cancelled>>

CancelDoctor ==
  /\ main_pc = "cancel_doctor"
  /\ cancelled' = cancelled \union {main_i}
  /\ main_pc' = "join_doctor"
  /\ UNCHANGED <<tickets, ward, sem_patient, staff, pc_patient, cond_patient, main_i>>

JoinDoctor ==
  /\ main_pc = "join_doctor"
  /\ pc_doctor[main_i] = "done"
  /\ IF main_i + 1 < doctor_count
       THEN main_i' = main_i + 1 /\ main_pc' = "cancel_doctor"
       ELSE main_i' = 0 /\ main_pc' = "report"
  /\ UNCHANGED <<tickets, ward, sem_patient, staff, pc_patient, cond_patient, cancelled>>

MainStep == CreatePatient \/ CreateDoctor \/ JoinPatient \/ CancelDoctor \/ JoinDoctor

\* main is at its report, which prints what the state now holds, and returns.
Reported == main_pc = "report" /\ UNCHANGED vars

Next == \/ \E p \in Patient : PatientStep(p) \/ SpuriousWakeup(p)
        \/ \E d \in Doctor : DoctorStep(d)
        \/ MainStep
        \/ Reported

SafeSpec == Init /\ [][Next]_vars

\* Every runnable thread is scheduled.  Weak fairness is enough for the locks:
\* each thread takes them finitely often, spurious wakeups being finitely many.
Fairness == /\ \A p \in Patient : /\ WF_vars(PatientStep(p))
                                  /\ <>[][~SpuriousWakeup(p)]_vars
            /\ \A d \in Doctor : WF_vars(DoctorStep(d))
            /\ WF_vars(MainStep)

Spec == SafeSpec /\ Fairness
=============================================================================
