--------------------------- MODULE HospitalProofs ---------------------------
(***************************************************************************)
(* Proofs of the safety of the hospital for every number of patients,      *)
(* doctors and tickets: IInv is inductive, one lemma per group of its      *)
(* conjuncts, and the properties of HospitalProperties follow from it; so  *)
(* does the refinement of Clinic.  Liveness is left to TLC.                *)
(***************************************************************************)
EXTENDS HospitalProperties, FiniteSetTheorems, TLAPS

-----------------------------------------------------------------------------
(* Queues *)

(* What front and pop do to a queue that is not empty. *)
LEMMA QueueOps ==
  ASSUME NEW S, NEW q \in Seq(S), q # <<>>
  PROVE  /\ Head(q) \in S
         /\ Tail(q) \in Seq(S)
         /\ Len(q) \in Nat \ {0}
         /\ Len(Tail(q)) = Len(q) - 1
         /\ \A i \in 1 .. Len(q) - 1 : Tail(q)[i] = q[i + 1]
         /\ Head(q) = q[1]
OBVIOUS

(* push of a new element keeps the queue free of duplicates and adds it. *)
LEMMA AppendOps ==
  ASSUME NEW S, NEW q \in Seq(S), NEW x \in S, IsInjective(q), x \notin Range(q)
  PROVE  /\ IsInjective(Append(q, x))
         /\ Range(Append(q, x)) = Range(q) \union {x}
<1> DEFINE r == Append(q, x)
<1>1. Len(r) = Len(q) + 1 /\ Len(q) \in Nat /\ r[Len(q) + 1] = x
  OBVIOUS
<1>2. \A i \in 1 .. Len(q) : r[i] = q[i]
  OBVIOUS
<1>3. DOMAIN r = 1 .. Len(r) /\ DOMAIN q = 1 .. Len(q)
  OBVIOUS
<1>4. \A i \in DOMAIN r : i \in DOMAIN q \/ i = Len(q) + 1
  BY <1>1, <1>3
<1>5. DOMAIN q \subseteq DOMAIN r /\ Len(q) + 1 \in DOMAIN r
  BY <1>1, <1>3
<1> HIDE DEF r
<1>6. IsInjective(r)
  BY <1>1, <1>2, <1>3, <1>4, <1>5 DEF IsInjective, Range
<1>7. Range(r) = Range(q) \union {x}
  BY <1>1, <1>2, <1>3, <1>4, <1>5 DEF Range
<1>. QED
  BY <1>6, <1>7 DEF r

(* pop keeps the queue free of duplicates and removes the front. *)
LEMMA TailOps ==
  ASSUME NEW S, NEW q \in Seq(S), q # <<>>, IsInjective(q)
  PROVE  /\ IsInjective(Tail(q))
         /\ Range(Tail(q)) = Range(q) \ {Head(q)}
         /\ Head(q) \in Range(q)
<1> DEFINE r == Tail(q)
<1>1. /\ Len(q) \in Nat \ {0} /\ Len(r) = Len(q) - 1 /\ Head(q) = q[1]
      /\ DOMAIN r = 1 .. Len(r) /\ DOMAIN q = 1 .. Len(q)
      /\ \A i \in 1 .. Len(r) : r[i] = q[i + 1]
  BY QueueOps
<1> HIDE DEF r
<1>2. \A i \in DOMAIN r : i + 1 \in DOMAIN q /\ i + 1 # 1 /\ i \in Int
  BY <1>1
<1>3. \A i \in DOMAIN q : i = 1 \/ (i - 1 \in DOMAIN r /\ (i - 1) + 1 = i)
  BY <1>1
<1>4. IsInjective(r)
  <2>1. ASSUME NEW i \in DOMAIN r, NEW j \in DOMAIN r, r[i] = r[j]
        PROVE  i = j
    <3>1. q[i + 1] = q[j + 1]
      BY <1>1, <2>1
    <3>2. i + 1 = j + 1
      BY <3>1, <1>2 DEF IsInjective
    <3>. QED
      BY <3>2, <1>2
  <2>. QED
    BY <2>1 DEF IsInjective
<1>5. ASSUME NEW i \in DOMAIN r
      PROVE  r[i] \in Range(q) /\ r[i] # Head(q)
  BY <1>1, <1>2 DEF Range, IsInjective
<1>6. ASSUME NEW i \in DOMAIN q, q[i] # Head(q)
      PROVE  q[i] \in Range(r)
  <2>1. i - 1 \in DOMAIN r /\ (i - 1) + 1 = i
    BY <1>1, <1>3, <1>6
  <2>2. r[i - 1] = q[i]
    BY <1>1, <2>1
  <2>. QED
    BY <2>1, <2>2 DEF Range
<1>7. Head(q) \in Range(q)
  BY <1>1 DEF Range
<1>. QED
  BY <1>4, <1>5, <1>6, <1>7 DEF Range, r

-----------------------------------------------------------------------------
(* What a step preserves *)

(* A step keeps every variable in its type; the ticket counter needs that a *)
(* patient about to decrement it has seen it positive.                      *)
LEMMA TypeStep ==
  ASSUME TypeOK, MainLife, [Next]_vars,
         \A p \in Patient : pc_patient[p] = "take" => available_tickets > 0
  PROVE  TypeOK'
<1> USE CountsAssumption
   DEF TypeOK, MainLife, tickets, ward, staff, control, vars, None, Patient,
       Doctor
<1>1. ASSUME NEW p \in Patient, SeeTicket(p) PROVE TypeOK'
  BY <1>1 DEF SeeTicket, PatientGoes
<1>2. ASSUME NEW p \in Patient, TakeTicket(p) PROVE TypeOK'
  BY <1>2 DEF TakeTicket, PatientGoes
<1>3. ASSUME NEW p \in Patient, SeeNoTicket(p) PROVE TypeOK'
  BY <1>3 DEF SeeNoTicket, PatientGoes
<1>4. ASSUME NEW p \in Patient, LeaveUntreated(p) PROVE TypeOK'
  BY <1>4 DEF LeaveUntreated, PatientGoes, PatientInfo, PatientState
<1>5. ASSUME NEW p \in Patient, BecomeWaiting(p) PROVE TypeOK'
  BY <1>5 DEF BecomeWaiting, PatientGoes, PatientInfo, PatientState
<1>6. ASSUME NEW p \in Patient, JoinQueue(p) PROVE TypeOK'
  <2>1. patient_queue' \in Seq(Patient)
    BY <1>6 DEF JoinQueue
  <2>. QED
    BY <2>1, <1>6 DEF JoinQueue, PatientGoes
<1>7. ASSUME NEW p \in Patient, InformDoctor(p) PROVE TypeOK'
  BY <1>7 DEF InformDoctor, PatientGoes
<1>8. ASSUME NEW p \in Patient, SeeUntreated(p) PROVE TypeOK'
  BY <1>8 DEF SeeUntreated, PatientGoes
<1>9. ASSUME NEW p \in Patient, CondWait(p) PROVE TypeOK'
  BY <1>9 DEF CondWait, PatientGoes
<1>10. ASSUME NEW p \in Patient, SeeTreated(p) PROVE TypeOK'
  BY <1>10 DEF SeeTreated, PatientGoes
<1>11. ASSUME NEW p \in Patient, Leave(p) PROVE TypeOK'
  BY <1>11 DEF Leave, PatientGoes, PatientInfo, PatientState
<1>12. ASSUME NEW p \in Patient, SpuriousWakeup(p) PROVE TypeOK'
  BY <1>12 DEF SpuriousWakeup, PatientGoes
<1>13. ASSUME NEW d \in Doctor, Rest(d) PROVE TypeOK'
  BY <1>13 DEF Rest, DoctorGoes, DoctorInfo, DoctorState
<1>14. ASSUME NEW d \in Doctor, SemWait(d) PROVE TypeOK'
  BY <1>14 DEF SemWait, DoctorGoes
<1>15. ASSUME NEW d \in Doctor, SeeFront(d) PROVE TypeOK'
  <2>1. Fronts(patient_queue) \subseteq Patient
    BY QueueOps DEF Fronts
  <2>2. patient_id' \in [Doctor -> Patient \union {None}]
    BY <1>15, <2>1 DEF SeeFront
  <2>. QED
    BY <2>2, <1>15 DEF SeeFront, DoctorGoes, DoctorThread
<1>16. ASSUME NEW d \in Doctor, Assign(d) PROVE TypeOK'
  <2>1. patient_queue' \in Seq(Patient)
    BY <1>16, QueueOps DEF Assign, Popped
  <2>2. /\ PState' \in [Patient -> [state : PatientState, doctor_id : Doctor \union {None}]]
        /\ patient_doctor' \in [Patient -> Doctor \union {None}]
    BY <1>16 DEF Assign, PatientInfo, PatientState
  <2>. QED
    BY <2>1, <2>2, <1>16 DEF Assign, DoctorGoes
<1>17. ASSUME NEW d \in Doctor, Work(d) PROVE TypeOK'
  BY <1>17 DEF Work, DoctorGoes, DoctorInfo, DoctorState
<1>18. ASSUME NEW d \in Doctor, Signal(d) PROVE TypeOK'
  BY <1>18 DEF Signal, DoctorGoes
<1>19. ASSUME NEW d \in Doctor, Cancelled(d) PROVE TypeOK'
  BY <1>19 DEF Cancelled, DoctorGoes, DoctorInfo, DoctorState
<1>20. CASE CreatePatient
  BY <1>20 DEF CreatePatient, PatientGoes, LoopTurn
<1>21. CASE CreateDoctor
  BY <1>21 DEF CreateDoctor, DoctorGoes, LoopTurn
<1>22. CASE JoinPatient
  BY <1>22 DEF JoinPatient, LoopTurn
<1>23. CASE CancelDoctor
  BY <1>23 DEF CancelDoctor
<1>24. CASE JoinDoctor
  BY <1>24 DEF JoinDoctor
<1>25. CASE UNCHANGED vars
  BY <1>25
<1>. QED
  BY <1>1, <1>2, <1>3, <1>4, <1>5, <1>6, <1>7, <1>8, <1>9, <1>10, <1>11,
     <1>12, <1>13, <1>14, <1>15, <1>16, <1>17, <1>18, <1>19, <1>20, <1>21,
     <1>22, <1>23, <1>24, <1>25
     DEF Next, PatientStep, DoctorStep, MainStep, Reported

(* A step keeps both mutexes exclusive. *)
LEMMA MutexStep ==
  ASSUME TypeOK, MainLife, MutualExclusion, [Next]_vars
  PROVE  MutualExclusion'
<1> USE CountsAssumption DEF TypeOK, MainLife, MutualExclusion, DoctorThread,
        tickets, ward, staff, control, vars, None, Patient, Doctor
<1>1. ASSUME NEW p \in Patient, SeeTicket(p) PROVE MutualExclusion'
  BY <1>1 DEF SeeTicket, PatientGoes
<1>2. ASSUME NEW p \in Patient, TakeTicket(p) PROVE MutualExclusion'
  BY <1>2 DEF TakeTicket, PatientGoes
<1>3. ASSUME NEW p \in Patient, SeeNoTicket(p) PROVE MutualExclusion'
  BY <1>3 DEF SeeNoTicket, PatientGoes
<1>4. ASSUME NEW p \in Patient, LeaveUntreated(p) PROVE MutualExclusion'
  BY <1>4 DEF LeaveUntreated, PatientGoes
<1>5. ASSUME NEW p \in Patient, BecomeWaiting(p) PROVE MutualExclusion'
  BY <1>5 DEF BecomeWaiting, PatientGoes
<1>6. ASSUME NEW p \in Patient, JoinQueue(p) PROVE MutualExclusion'
  BY <1>6 DEF JoinQueue, PatientGoes
<1>7. ASSUME NEW p \in Patient, InformDoctor(p) PROVE MutualExclusion'
  BY <1>7 DEF InformDoctor, PatientGoes
<1>8. ASSUME NEW p \in Patient, SeeUntreated(p) PROVE MutualExclusion'
  BY <1>8 DEF SeeUntreated, PatientGoes
<1>9. ASSUME NEW p \in Patient, CondWait(p) PROVE MutualExclusion'
  BY <1>9 DEF CondWait, PatientGoes
<1>10. ASSUME NEW p \in Patient, SeeTreated(p) PROVE MutualExclusion'
  BY <1>10 DEF SeeTreated, PatientGoes
<1>11. ASSUME NEW p \in Patient, Leave(p) PROVE MutualExclusion'
  BY <1>11 DEF Leave, PatientGoes
<1>12. ASSUME NEW p \in Patient, SpuriousWakeup(p) PROVE MutualExclusion'
  BY <1>12 DEF SpuriousWakeup, PatientGoes
<1>13. ASSUME NEW d \in Doctor, Rest(d) PROVE MutualExclusion'
  BY <1>13 DEF Rest, DoctorGoes
<1>14. ASSUME NEW d \in Doctor, SemWait(d) PROVE MutualExclusion'
  BY <1>14 DEF SemWait, DoctorGoes
<1>15. ASSUME NEW d \in Doctor, SeeFront(d) PROVE MutualExclusion'
  BY <1>15 DEF SeeFront, DoctorGoes
<1>16. ASSUME NEW d \in Doctor, Assign(d) PROVE MutualExclusion'
  BY <1>16 DEF Assign, DoctorGoes
<1>17. ASSUME NEW d \in Doctor, Work(d) PROVE MutualExclusion'
  BY <1>17 DEF Work, DoctorGoes
<1>18. ASSUME NEW d \in Doctor, Signal(d) PROVE MutualExclusion'
  BY <1>18 DEF Signal, DoctorGoes
<1>19. ASSUME NEW d \in Doctor, Cancelled(d) PROVE MutualExclusion'
  BY <1>19 DEF Cancelled, DoctorGoes
<1>20. CASE CreatePatient
  BY <1>20 DEF CreatePatient, PatientGoes, LoopTurn
<1>21. CASE CreateDoctor
  BY <1>21 DEF CreateDoctor, DoctorGoes, LoopTurn
<1>22. CASE JoinPatient
  BY <1>22 DEF JoinPatient, LoopTurn
<1>23. CASE CancelDoctor
  BY <1>23 DEF CancelDoctor
<1>24. CASE JoinDoctor
  BY <1>24 DEF JoinDoctor
<1>25. CASE UNCHANGED vars
  BY <1>25
<1>. QED
  BY <1>1, <1>2, <1>3, <1>4, <1>5, <1>6, <1>7, <1>8, <1>9, <1>10, <1>11,
     <1>12, <1>13, <1>14, <1>15, <1>16, <1>17, <1>18, <1>19, <1>20, <1>21,
     <1>22, <1>23, <1>24, <1>25
     DEF Next, PatientStep, DoctorStep, MainStep, Reported

(* What a patient saw when it tested the counter still holds when it decrements *)
(* it, mutex_ticket being held in between.                                      *)
LEMMA TakeStep ==
  ASSUME TypeOK, MutualExclusion, [Next]_vars, MainLife,
         \A p \in Patient : pc_patient[p] = "take" => available_tickets > 0
  PROVE  (\A p \in Patient : pc_patient[p] = "take" => available_tickets > 0)'
<1> USE CountsAssumption
   DEF TypeOK, MutualExclusion, MainLife, tickets, ward, staff, control, vars,
       None, Patient
<1> DEFINE Good == \A p \in Patient : pc_patient[p] = "take" => available_tickets > 0
<1> SUFFICES Good'  OBVIOUS
<1>1. ASSUME NEW p \in Patient, SeeTicket(p) PROVE Good'
  BY <1>1 DEF SeeTicket, PatientGoes
<1>2. ASSUME NEW p \in Patient, TakeTicket(p) PROVE Good'
  BY <1>2 DEF TakeTicket, PatientGoes
<1>3. ASSUME NEW p \in Patient, SeeNoTicket(p) PROVE Good'
  BY <1>3 DEF SeeNoTicket, PatientGoes
<1>4. ASSUME NEW p \in Patient, LeaveUntreated(p) PROVE Good'
  BY <1>4 DEF LeaveUntreated, PatientGoes
<1>5. ASSUME NEW p \in Patient, BecomeWaiting(p) PROVE Good'
  BY <1>5 DEF BecomeWaiting, PatientGoes
<1>6. ASSUME NEW p \in Patient, JoinQueue(p) PROVE Good'
  BY <1>6 DEF JoinQueue, PatientGoes
<1>7. ASSUME NEW p \in Patient, InformDoctor(p) PROVE Good'
  BY <1>7 DEF InformDoctor, PatientGoes
<1>8. ASSUME NEW p \in Patient, SeeUntreated(p) PROVE Good'
  BY <1>8 DEF SeeUntreated, PatientGoes
<1>9. ASSUME NEW p \in Patient, CondWait(p) PROVE Good'
  BY <1>9 DEF CondWait, PatientGoes
<1>10. ASSUME NEW p \in Patient, SeeTreated(p) PROVE Good'
  BY <1>10 DEF SeeTreated, PatientGoes
<1>11. ASSUME NEW p \in Patient, Leave(p) PROVE Good'
  BY <1>11 DEF Leave, PatientGoes
<1>12. ASSUME NEW p \in Patient, SpuriousWakeup(p) PROVE Good'
  BY <1>12 DEF SpuriousWakeup, PatientGoes
<1>13. ASSUME NEW d \in Doctor, Rest(d) PROVE Good'
  BY <1>13 DEF Rest, DoctorGoes
<1>14. ASSUME NEW d \in Doctor, SemWait(d) PROVE Good'
  BY <1>14 DEF SemWait, DoctorGoes
<1>15. ASSUME NEW d \in Doctor, SeeFront(d) PROVE Good'
  BY <1>15 DEF SeeFront, DoctorGoes
<1>16. ASSUME NEW d \in Doctor, Assign(d) PROVE Good'
  BY <1>16 DEF Assign, DoctorGoes
<1>17. ASSUME NEW d \in Doctor, Work(d) PROVE Good'
  BY <1>17 DEF Work, DoctorGoes
<1>18. ASSUME NEW d \in Doctor, Signal(d) PROVE Good'
  BY <1>18 DEF Signal, DoctorGoes
<1>19. ASSUME NEW d \in Doctor, Cancelled(d) PROVE Good'
  BY <1>19 DEF Cancelled, DoctorGoes
<1>20. CASE CreatePatient
  BY <1>20 DEF CreatePatient, PatientGoes, LoopTurn
<1>21. CASE CreateDoctor
  BY <1>21 DEF CreateDoctor, DoctorGoes, LoopTurn
<1>22. CASE JoinPatient
  BY <1>22 DEF JoinPatient, LoopTurn
<1>23. CASE CancelDoctor
  BY <1>23 DEF CancelDoctor
<1>24. CASE JoinDoctor
  BY <1>24 DEF JoinDoctor
<1>25. CASE UNCHANGED vars
  BY <1>25
<1>. QED
  BY <1>1, <1>2, <1>3, <1>4, <1>5, <1>6, <1>7, <1>8, <1>9, <1>10, <1>11,
     <1>12, <1>13, <1>14, <1>15, <1>16, <1>17, <1>18, <1>19, <1>20, <1>21,
     <1>22, <1>23, <1>24, <1>25
     DEF Next, PatientStep, DoctorStep, MainStep, Reported

(* The sets that are counted are finite, so their cardinalities are naturals. *)
LEMMA Counts ==
  ASSUME TypeOK
  PROVE  /\ IsFiniteSet(Holders) /\ IsFiniteSet(Posting) /\ IsFiniteSet(Taking)
         /\ Cardinality(Holders) \in Nat
         /\ Cardinality(Posting) \in Nat
         /\ Cardinality(Taking) \in Nat
<1>1. IsFiniteSet(Patient) /\ IsFiniteSet(Doctor)
  BY FS_Interval, CountsAssumption DEF Patient, Doctor
<1>2. Holders \subseteq Patient /\ Posting \subseteq Patient /\ Taking \subseteq Doctor
  BY DEF Holders, Posting, Taking
<1>. QED
  BY <1>1, <1>2, FS_Subset, FS_CardinalityType

(* A doctor with a token finds a patient in the queue. *)
LEMMA FrontLemma ==
  ASSUME TypeOK, TokensMatchQueue
  PROVE  FrontIsDefined
<1> SUFFICES ASSUME NEW d \in Doctor, pc_doctor[d] \in {"front", "assign"}
             PROVE  patient_queue # <<>>
  BY DEF FrontIsDefined
<1>1. d \in Taking
  BY DEF Taking
<1>2. Cardinality(Taking) # 0
  BY <1>1, Counts, FS_EmptySet
<1>3. Len(patient_queue) > 0
  BY <1>2, Counts DEF TokensMatchQueue, TypeOK
<1>. QED
  BY <1>3

(* While a doctor is between front and pop, no patient and no other doctor is *)
(* inside a critical section of mutex_patient.                                *)
LEMMA Owners ==
  ASSUME MutualExclusion, NEW d \in Doctor, pc_doctor[d] = "assign"
  PROVE  /\ \A p \in Patient : pc_patient[p] \notin {"push", "wait"}
         /\ \A e \in Doctor : pc_doctor[e] = "assign" => e = d
BY CountsAssumption DEF MutualExclusion, DoctorThread, Patient, Doctor

(* The patient a doctor read with front is still at the front when it pops, and *)
(* it is Waiting.                                                               *)
LEMMA TakenWaits ==
  ASSUME IInv, NEW d \in Doctor, pc_doctor[d] = "assign"
  PROVE  /\ patient_queue # <<>>
         /\ patient_id[d] = Head(patient_queue)
         /\ patient_id[d] \in Patient
         /\ PState[patient_id[d]].state = "Waiting"
         /\ pc_patient[patient_id[d]] # "push"
<1>1. patient_queue # <<>>
  BY FrontLemma DEF IInv, FrontIsDefined
<1>2. patient_queue \in Seq(Patient)
  BY DEF IInv, TypeOK
<1>3. patient_id[d] = Head(patient_queue)
  BY DEF IInv, QueueHoldsTheWaiting
<1>4. Head(patient_queue) \in Patient /\ InQueue(Head(patient_queue))
  BY <1>1, <1>2, TailOps DEF InQueue, IInv, QueueHoldsTheWaiting
<1>. QED
  BY <1>1, <1>3, <1>4 DEF IInv, QueueHoldsTheWaiting

(* A step keeps what a patient's place says of its ticket and its records. *)
LEMMA LifeStep ==
  ASSUME IInv, [Next]_vars
  PROVE  (\A p \in Patient : PatientLife(p))'
<1> USE
   DEF IInv, TypeOK, MutualExclusion, QueueHoldsTheWaiting, PatientLife,
       MainLife, tickets, ward, staff, control, vars
<1> DEFINE Good == \A p \in Patient : PatientLife(p)
<1> SUFFICES Good'  OBVIOUS
<1>1. ASSUME NEW p \in Patient, SeeTicket(p) PROVE Good'
  BY <1>1 DEF SeeTicket, PatientGoes
<1>2. ASSUME NEW p \in Patient, TakeTicket(p) PROVE Good'
  BY <1>2 DEF TakeTicket, PatientGoes
<1>3. ASSUME NEW p \in Patient, SeeNoTicket(p) PROVE Good'
  BY <1>3 DEF SeeNoTicket, PatientGoes
<1>4. ASSUME NEW p \in Patient, LeaveUntreated(p) PROVE Good'
  BY <1>4 DEF LeaveUntreated, PatientGoes, PatientInfo
<1>5. ASSUME NEW p \in Patient, BecomeWaiting(p) PROVE Good'
  BY <1>5 DEF BecomeWaiting, PatientGoes, PatientInfo
<1>6. ASSUME NEW p \in Patient, JoinQueue(p) PROVE Good'
  BY <1>6 DEF JoinQueue, PatientGoes
<1>7. ASSUME NEW p \in Patient, InformDoctor(p) PROVE Good'
  BY <1>7 DEF InformDoctor, PatientGoes
<1>8. ASSUME NEW p \in Patient, SeeUntreated(p) PROVE Good'
  BY <1>8 DEF SeeUntreated, PatientGoes
<1>9. ASSUME NEW p \in Patient, CondWait(p) PROVE Good'
  BY <1>9 DEF CondWait, PatientGoes
<1>10. ASSUME NEW p \in Patient, SeeTreated(p) PROVE Good'
  BY <1>10 DEF SeeTreated, PatientGoes
<1>11. ASSUME NEW p \in Patient, Leave(p) PROVE Good'
  BY <1>11 DEF Leave, PatientGoes, PatientInfo
<1>12. ASSUME NEW p \in Patient, SpuriousWakeup(p) PROVE Good'
  BY <1>12 DEF SpuriousWakeup, PatientGoes
<1>13. ASSUME NEW d \in Doctor, Rest(d) PROVE Good'
  BY <1>13 DEF Rest, DoctorGoes
<1>14. ASSUME NEW d \in Doctor, SemWait(d) PROVE Good'
  BY <1>14 DEF SemWait, DoctorGoes
<1>15. ASSUME NEW d \in Doctor, SeeFront(d) PROVE Good'
  BY <1>15 DEF SeeFront, DoctorGoes
<1>16. ASSUME NEW d \in Doctor, Assign(d) PROVE Good'
  <2>1. /\ patient_id[d] \in Patient
        /\ PState[patient_id[d]].state = "Waiting"
        /\ pc_patient[patient_id[d]] # "push"
    BY <1>16, TakenWaits DEF Assign, DoctorGoes
  <2>2. pc_patient[patient_id[d]] # "wait"
    BY <1>16, <2>1, Owners DEF Assign, DoctorGoes
  <2>3. ASSUME NEW p \in Patient PROVE PatientLife(p)'
    <3>1. CASE p = patient_id[d]
      <4>1. PState'[p] = [state |-> "BeingTreated", doctor_id |-> d] /\ patient_doctor'[p] = d
        BY <2>1, <3>1, <1>16 DEF Assign, PatientInfo
      <4>2. UNCHANGED <<has_ticket, pc_patient>>
        BY <1>16 DEF Assign
      <4>3. has_ticket[p] /\ pc_patient[p] \in {"post", "check", "blocked"}
        BY <2>1, <2>2, <3>1
      <4>4. d # None
        BY CountsAssumption DEF Doctor, None
      <4>. QED
        BY <4>1, <4>2, <4>3, <4>4
    <3>2. CASE p # patient_id[d]
      BY <3>2, <1>16 DEF Assign, DoctorGoes, PatientInfo
    <3>. QED
      BY <3>1, <3>2
  <2>. QED
    BY <2>3
<1>17. ASSUME NEW d \in Doctor, Work(d) PROVE Good'
  BY <1>17 DEF Work, DoctorGoes
<1>18. ASSUME NEW d \in Doctor, Signal(d) PROVE Good'
  BY <1>18 DEF Signal, DoctorGoes
<1>19. ASSUME NEW d \in Doctor, Cancelled(d) PROVE Good'
  BY <1>19 DEF Cancelled, DoctorGoes
<1>20. CASE CreatePatient
  BY <1>20 DEF CreatePatient, PatientGoes, LoopTurn
<1>21. CASE CreateDoctor
  BY <1>21 DEF CreateDoctor, DoctorGoes, LoopTurn
<1>22. CASE JoinPatient
  BY <1>22 DEF JoinPatient, LoopTurn
<1>23. CASE CancelDoctor
  BY <1>23 DEF CancelDoctor
<1>24. CASE JoinDoctor
  BY <1>24 DEF JoinDoctor
<1>25. CASE UNCHANGED vars
  BY <1>25
<1>. QED
  BY <1>1, <1>2, <1>3, <1>4, <1>5, <1>6, <1>7, <1>8, <1>9, <1>10, <1>11,
     <1>12, <1>13, <1>14, <1>15, <1>16, <1>17, <1>18, <1>19, <1>20, <1>21,
     <1>22, <1>23, <1>24, <1>25
     DEF Next, PatientStep, DoctorStep, MainStep, Reported

(* A step keeps what a doctor's place says of its patient and its record. *)
LEMMA DoctorStepLife ==
  ASSUME IInv, [Next]_vars
  PROVE  (\A d \in Doctor : DoctorLife(d))'
<1> USE DEF IInv, TypeOK, DoctorLife, tickets, ward, staff, control, vars
<1> DEFINE Good == \A d \in Doctor : DoctorLife(d)
<1> SUFFICES Good'  OBVIOUS
<1>1. ASSUME NEW p \in Patient, SeeTicket(p) PROVE Good'
  BY <1>1 DEF SeeTicket, PatientGoes
<1>2. ASSUME NEW p \in Patient, TakeTicket(p) PROVE Good'
  BY <1>2 DEF TakeTicket, PatientGoes
<1>3. ASSUME NEW p \in Patient, SeeNoTicket(p) PROVE Good'
  BY <1>3 DEF SeeNoTicket, PatientGoes
<1>4. ASSUME NEW p \in Patient, LeaveUntreated(p) PROVE Good'
  BY <1>4 DEF LeaveUntreated, PatientGoes
<1>5. ASSUME NEW p \in Patient, BecomeWaiting(p) PROVE Good'
  BY <1>5 DEF BecomeWaiting, PatientGoes
<1>6. ASSUME NEW p \in Patient, JoinQueue(p) PROVE Good'
  BY <1>6 DEF JoinQueue, PatientGoes
<1>7. ASSUME NEW p \in Patient, InformDoctor(p) PROVE Good'
  BY <1>7 DEF InformDoctor, PatientGoes
<1>8. ASSUME NEW p \in Patient, SeeUntreated(p) PROVE Good'
  BY <1>8 DEF SeeUntreated, PatientGoes
<1>9. ASSUME NEW p \in Patient, CondWait(p) PROVE Good'
  BY <1>9 DEF CondWait, PatientGoes
<1>10. ASSUME NEW p \in Patient, SeeTreated(p) PROVE Good'
  BY <1>10 DEF SeeTreated, PatientGoes
<1>11. ASSUME NEW p \in Patient, Leave(p) PROVE Good'
  BY <1>11 DEF Leave, PatientGoes
<1>12. ASSUME NEW p \in Patient, SpuriousWakeup(p) PROVE Good'
  BY <1>12 DEF SpuriousWakeup, PatientGoes
<1>13. ASSUME NEW d \in Doctor, Rest(d) PROVE Good'
  BY <1>13 DEF Rest, DoctorGoes, DoctorInfo
<1>14. ASSUME NEW d \in Doctor, SemWait(d) PROVE Good'
  BY <1>14 DEF SemWait, DoctorGoes
<1>15. ASSUME NEW d \in Doctor, SeeFront(d) PROVE Good'
  <2>1. Fronts(patient_queue) \subseteq Patient
    BY QueueOps DEF Fronts
  <2>. QED
    BY <2>1, <1>15 DEF SeeFront, DoctorGoes
<1>16. ASSUME NEW d \in Doctor, Assign(d) PROVE Good'
  BY <1>16 DEF Assign, DoctorGoes
<1>17. ASSUME NEW d \in Doctor, Work(d) PROVE Good'
  BY <1>17 DEF Work, DoctorGoes, DoctorInfo
<1>18. ASSUME NEW d \in Doctor, Signal(d) PROVE Good'
  BY <1>18 DEF Signal, DoctorGoes
<1>19. ASSUME NEW d \in Doctor, Cancelled(d) PROVE Good'
  BY <1>19 DEF Cancelled, DoctorGoes, DoctorInfo
<1>20. CASE CreatePatient
  BY <1>20 DEF CreatePatient, PatientGoes, LoopTurn
<1>21. CASE CreateDoctor
  BY <1>21 DEF CreateDoctor, DoctorGoes, LoopTurn
<1>22. CASE JoinPatient
  BY <1>22 DEF JoinPatient, LoopTurn
<1>23. CASE CancelDoctor
  BY <1>23 DEF CancelDoctor
<1>24. CASE JoinDoctor
  BY <1>24 DEF JoinDoctor
<1>25. CASE UNCHANGED vars
  BY <1>25
<1>. QED
  BY <1>1, <1>2, <1>3, <1>4, <1>5, <1>6, <1>7, <1>8, <1>9, <1>10, <1>11,
     <1>12, <1>13, <1>14, <1>15, <1>16, <1>17, <1>18, <1>19, <1>20, <1>21,
     <1>22, <1>23, <1>24, <1>25
     DEF Next, PatientStep, DoctorStep, MainStep, Reported

(* A step loses no wakeup: Assign leaves a signal pending, Signal delivers it, *)
(* and a patient cannot block between the two without having seen Waiting.     *)
LEMMA WakeupStep ==
  ASSUME IInv, [Next]_vars
  PROVE  NoLostWakeup'
<1> USE
   DEF IInv, TypeOK, NoLostWakeup, SignalPending, PatientLife, MainLife,
       DoctorLife, tickets, ward, staff, control, vars
<1>1. ASSUME NEW p \in Patient, SeeTicket(p) PROVE NoLostWakeup'
  BY <1>1 DEF SeeTicket, PatientGoes
<1>2. ASSUME NEW p \in Patient, TakeTicket(p) PROVE NoLostWakeup'
  BY <1>2 DEF TakeTicket, PatientGoes
<1>3. ASSUME NEW p \in Patient, SeeNoTicket(p) PROVE NoLostWakeup'
  BY <1>3 DEF SeeNoTicket, PatientGoes
<1>4. ASSUME NEW p \in Patient, LeaveUntreated(p) PROVE NoLostWakeup'
  BY <1>4 DEF LeaveUntreated, PatientGoes, PatientInfo
<1>5. ASSUME NEW p \in Patient, BecomeWaiting(p) PROVE NoLostWakeup'
  BY <1>5 DEF BecomeWaiting, PatientGoes, PatientInfo
<1>6. ASSUME NEW p \in Patient, JoinQueue(p) PROVE NoLostWakeup'
  BY <1>6 DEF JoinQueue, PatientGoes
<1>7. ASSUME NEW p \in Patient, InformDoctor(p) PROVE NoLostWakeup'
  BY <1>7 DEF InformDoctor, PatientGoes
<1>8. ASSUME NEW p \in Patient, SeeUntreated(p) PROVE NoLostWakeup'
  BY <1>8 DEF SeeUntreated, PatientGoes
<1>9. ASSUME NEW p \in Patient, CondWait(p) PROVE NoLostWakeup'
  BY <1>9 DEF CondWait, PatientGoes
<1>10. ASSUME NEW p \in Patient, SeeTreated(p) PROVE NoLostWakeup'
  BY <1>10 DEF SeeTreated, PatientGoes
<1>11. ASSUME NEW p \in Patient, Leave(p) PROVE NoLostWakeup'
  BY <1>11 DEF Leave, PatientGoes, PatientInfo
<1>12. ASSUME NEW p \in Patient, SpuriousWakeup(p) PROVE NoLostWakeup'
  BY <1>12 DEF SpuriousWakeup, PatientGoes
<1>13. ASSUME NEW d \in Doctor, Rest(d) PROVE NoLostWakeup'
  BY <1>13 DEF Rest, DoctorGoes
<1>14. ASSUME NEW d \in Doctor, SemWait(d) PROVE NoLostWakeup'
  BY <1>14, SMTT(30) DEF SemWait, DoctorGoes
<1>15. ASSUME NEW d \in Doctor, SeeFront(d) PROVE NoLostWakeup'
  <2> SUFFICES ASSUME NEW p \in Patient, pc_patient[p] = "blocked",
                      PState[p].state = "BeingTreated"
               PROVE  \E e \in Doctor : SignalPending(e, p)'
    BY <1>15 DEF SeeFront
  <2>1. PICK e \in Doctor : SignalPending(e, p)
    OBVIOUS
  <2>2. e # d
    BY <2>1, <1>15 DEF SeeFront, DoctorGoes
  <2>. QED
    BY <2>1, <2>2, <1>15 DEF SeeFront, DoctorGoes
<1>16. ASSUME NEW d \in Doctor, Assign(d) PROVE NoLostWakeup'
  BY <1>16 DEF Assign, DoctorGoes, PatientInfo
<1>17. ASSUME NEW d \in Doctor, Work(d) PROVE NoLostWakeup'
  BY <1>17 DEF Work, DoctorGoes
<1>18. ASSUME NEW d \in Doctor, Signal(d) PROVE NoLostWakeup'
  BY <1>18 DEF Signal, DoctorGoes
<1>19. ASSUME NEW d \in Doctor, Cancelled(d) PROVE NoLostWakeup'
  BY <1>19, SMTT(30) DEF Cancelled, DoctorGoes
<1>20. CASE CreatePatient
  BY <1>20 DEF CreatePatient, PatientGoes, LoopTurn
<1>21. CASE CreateDoctor
  BY <1>21, SMTT(30) DEF CreateDoctor, DoctorGoes, LoopTurn
<1>22. CASE JoinPatient
  BY <1>22 DEF JoinPatient, LoopTurn
<1>23. CASE CancelDoctor
  BY <1>23 DEF CancelDoctor
<1>24. CASE JoinDoctor
  BY <1>24 DEF JoinDoctor
<1>25. CASE UNCHANGED vars
  BY <1>25
<1>. QED
  BY <1>1, <1>2, <1>3, <1>4, <1>5, <1>6, <1>7, <1>8, <1>9, <1>10, <1>11,
     <1>12, <1>13, <1>14, <1>15, <1>16, <1>17, <1>18, <1>19, <1>20, <1>21,
     <1>22, <1>23, <1>24, <1>25
     DEF Next, PatientStep, DoctorStep, MainStep, Reported

(* A step keeps what main's place says of the threads it created and joined. *)
LEMMA MainStepLife ==
  ASSUME IInv, [Next]_vars
  PROVE  MainLife'
<1> USE CountsAssumption
   DEF IInv, TypeOK, MainLife, tickets, ward, staff, control, vars, Patient,
       Doctor
<1>1. ASSUME NEW p \in Patient, SeeTicket(p) PROVE MainLife'
  BY <1>1 DEF SeeTicket, PatientGoes
<1>2. ASSUME NEW p \in Patient, TakeTicket(p) PROVE MainLife'
  BY <1>2 DEF TakeTicket, PatientGoes
<1>3. ASSUME NEW p \in Patient, SeeNoTicket(p) PROVE MainLife'
  BY <1>3 DEF SeeNoTicket, PatientGoes
<1>4. ASSUME NEW p \in Patient, LeaveUntreated(p) PROVE MainLife'
  BY <1>4 DEF LeaveUntreated, PatientGoes
<1>5. ASSUME NEW p \in Patient, BecomeWaiting(p) PROVE MainLife'
  BY <1>5 DEF BecomeWaiting, PatientGoes
<1>6. ASSUME NEW p \in Patient, JoinQueue(p) PROVE MainLife'
  BY <1>6 DEF JoinQueue, PatientGoes
<1>7. ASSUME NEW p \in Patient, InformDoctor(p) PROVE MainLife'
  BY <1>7 DEF InformDoctor, PatientGoes
<1>8. ASSUME NEW p \in Patient, SeeUntreated(p) PROVE MainLife'
  BY <1>8 DEF SeeUntreated, PatientGoes
<1>9. ASSUME NEW p \in Patient, CondWait(p) PROVE MainLife'
  BY <1>9 DEF CondWait, PatientGoes
<1>10. ASSUME NEW p \in Patient, SeeTreated(p) PROVE MainLife'
  BY <1>10 DEF SeeTreated, PatientGoes
<1>11. ASSUME NEW p \in Patient, Leave(p) PROVE MainLife'
  BY <1>11 DEF Leave, PatientGoes
<1>12. ASSUME NEW p \in Patient, SpuriousWakeup(p) PROVE MainLife'
  BY <1>12 DEF SpuriousWakeup, PatientGoes
<1>13. ASSUME NEW d \in Doctor, Rest(d) PROVE MainLife'
  BY <1>13 DEF Rest, DoctorGoes
<1>14. ASSUME NEW d \in Doctor, SemWait(d) PROVE MainLife'
  BY <1>14 DEF SemWait, DoctorGoes
<1>15. ASSUME NEW d \in Doctor, SeeFront(d) PROVE MainLife'
  BY <1>15 DEF SeeFront, DoctorGoes
<1>16. ASSUME NEW d \in Doctor, Assign(d) PROVE MainLife'
  BY <1>16 DEF Assign, DoctorGoes
<1>17. ASSUME NEW d \in Doctor, Work(d) PROVE MainLife'
  BY <1>17 DEF Work, DoctorGoes
<1>18. ASSUME NEW d \in Doctor, Signal(d) PROVE MainLife'
  BY <1>18 DEF Signal, DoctorGoes
<1>19. ASSUME NEW d \in Doctor, Cancelled(d) PROVE MainLife'
  BY <1>19 DEF Cancelled, DoctorGoes
<1>20. CASE CreatePatient
  BY <1>20 DEF CreatePatient, PatientGoes, LoopTurn
<1>21. CASE CreateDoctor
  BY <1>21 DEF CreateDoctor, DoctorGoes, LoopTurn
<1>22. CASE JoinPatient
  <2>1. CASE main_i + 1 < patient_count
    BY <2>1, <1>22 DEF JoinPatient, LoopTurn
  <2>2. CASE ~(main_i + 1 < patient_count)
    <3>1. \A p \in Patient : p < main_i \/ p = main_i
      BY <2>2, <1>22 DEF JoinPatient
    <3>. QED
      BY <3>1, <2>2, <1>22 DEF JoinPatient, LoopTurn
  <2>. QED
    BY <2>1, <2>2
<1>23. CASE CancelDoctor
  BY <1>23 DEF CancelDoctor
<1>24. CASE JoinDoctor
  <2>1. CASE main_i + 1 < doctor_count
    BY <2>1, <1>24 DEF JoinDoctor
  <2>2. CASE ~(main_i + 1 < doctor_count)
    <3>1. \A d \in Doctor : d < main_i \/ d = main_i
      BY <2>2, <1>24 DEF JoinDoctor
    <3>. QED
      BY <3>1, <2>2, <1>24 DEF JoinDoctor
  <2>. QED
    BY <2>1, <2>2
<1>25. CASE UNCHANGED vars
  BY <1>25
<1>. QED
  BY <1>1, <1>2, <1>3, <1>4, <1>5, <1>6, <1>7, <1>8, <1>9, <1>10, <1>11,
     <1>12, <1>13, <1>14, <1>15, <1>16, <1>17, <1>18, <1>19, <1>20, <1>21,
     <1>22, <1>23, <1>24, <1>25
     DEF Next, PatientStep, DoctorStep, MainStep, Reported

(* While mutex_patient is free, no doctor is between front and pop. *)
LEMMA NoOwner ==
  ASSUME MutualExclusion, mutex_patient = None
  PROVE  \A d \in Doctor : pc_doctor[d] # "assign"
BY CountsAssumption DEF MutualExclusion, DoctorThread, None, Doctor

(* A step keeps the queue equal to the set of waiting patients. *)
LEMMA QueueStep ==
  ASSUME IInv, [Next]_vars
  PROVE  QueueHoldsTheWaiting'
<1> USE
   DEF IInv, TypeOK, QueueHoldsTheWaiting, InQueue, PatientLife, tickets,
       ward, staff, control, vars
<1>1. ASSUME NEW p \in Patient, SeeTicket(p) PROVE QueueHoldsTheWaiting'
  BY <1>1 DEF SeeTicket, PatientGoes
<1>2. ASSUME NEW p \in Patient, TakeTicket(p) PROVE QueueHoldsTheWaiting'
  BY <1>2 DEF TakeTicket, PatientGoes
<1>3. ASSUME NEW p \in Patient, SeeNoTicket(p) PROVE QueueHoldsTheWaiting'
  BY <1>3 DEF SeeNoTicket, PatientGoes
<1>4. ASSUME NEW p \in Patient, LeaveUntreated(p) PROVE QueueHoldsTheWaiting'
  BY <1>4 DEF LeaveUntreated, PatientGoes, PatientInfo
<1>5. ASSUME NEW p \in Patient, BecomeWaiting(p) PROVE QueueHoldsTheWaiting'
  BY <1>5 DEF BecomeWaiting, PatientGoes, PatientInfo
<1>6. ASSUME NEW p \in Patient, JoinQueue(p) PROVE QueueHoldsTheWaiting'
  <2>1. p \notin Range(patient_queue) /\ PState[p].state = "Waiting"
    BY <1>6 DEF JoinQueue, PatientGoes
  <2>2. /\ IsInjective(patient_queue')
        /\ Range(patient_queue') = Range(patient_queue) \union {p}
    BY <2>1, <1>6, AppendOps DEF JoinQueue
  <2>3. UNCHANGED PState /\ pc_patient' = [pc_patient EXCEPT ![p] = "post"]
    BY <1>6 DEF JoinQueue, PatientGoes
  <2>4. \A d \in Doctor : pc_doctor'[d] # "assign"
    BY <1>6, Owners DEF JoinQueue, PatientGoes
  <2>. QED
    BY <2>1, <2>2, <2>3, <2>4
<1>7. ASSUME NEW p \in Patient, InformDoctor(p) PROVE QueueHoldsTheWaiting'
  BY <1>7 DEF InformDoctor, PatientGoes
<1>8. ASSUME NEW p \in Patient, SeeUntreated(p) PROVE QueueHoldsTheWaiting'
  BY <1>8 DEF SeeUntreated, PatientGoes
<1>9. ASSUME NEW p \in Patient, CondWait(p) PROVE QueueHoldsTheWaiting'
  BY <1>9 DEF CondWait, PatientGoes
<1>10. ASSUME NEW p \in Patient, SeeTreated(p) PROVE QueueHoldsTheWaiting'
  BY <1>10 DEF SeeTreated, PatientGoes
<1>11. ASSUME NEW p \in Patient, Leave(p) PROVE QueueHoldsTheWaiting'
  BY <1>11 DEF Leave, PatientGoes, PatientInfo
<1>12. ASSUME NEW p \in Patient, SpuriousWakeup(p) PROVE QueueHoldsTheWaiting'
  BY <1>12 DEF SpuriousWakeup, PatientGoes
<1>13. ASSUME NEW d \in Doctor, Rest(d) PROVE QueueHoldsTheWaiting'
  BY <1>13 DEF Rest, DoctorGoes
<1>14. ASSUME NEW d \in Doctor, SemWait(d) PROVE QueueHoldsTheWaiting'
  BY <1>14 DEF SemWait, DoctorGoes
<1>15. ASSUME NEW d \in Doctor, SeeFront(d) PROVE QueueHoldsTheWaiting'
  <2>1. patient_queue # <<>>
    BY <1>15, FrontLemma DEF FrontIsDefined, SeeFront, DoctorGoes
  <2>2. patient_id' = [patient_id EXCEPT ![d] = Head(patient_queue)]
    BY <2>1, <1>15 DEF SeeFront, Fronts
  <2>3. \A e \in Doctor : pc_doctor'[e] = "assign" => e = d
    BY <1>15, NoOwner DEF SeeFront, DoctorGoes
  <2>. QED
    BY <2>2, <2>3, <1>15 DEF SeeFront
<1>16. ASSUME NEW d \in Doctor, Assign(d) PROVE QueueHoldsTheWaiting'
  <2>1. /\ patient_queue # <<>> /\ patient_queue \in Seq(Patient)
        /\ patient_id[d] = Head(patient_queue) /\ patient_id[d] \in Patient
    BY <1>16, TakenWaits DEF Assign, DoctorGoes
  <2>2. patient_queue' = Tail(patient_queue)
    BY <2>1, <1>16 DEF Assign, Popped
  <2>3. /\ IsInjective(patient_queue')
        /\ Range(patient_queue') = Range(patient_queue) \ {patient_id[d]}
    BY <2>1, <2>2, TailOps
  <2>4. /\ UNCHANGED pc_patient
        /\ PState' = [PState EXCEPT ![patient_id[d]] = [state |-> "BeingTreated", doctor_id |-> d]]
    BY <1>16 DEF Assign, PatientInfo
  <2>5. \A e \in Doctor : pc_doctor'[e] # "assign"
    BY <1>16, Owners DEF Assign, DoctorGoes
  <2>. QED
    BY <2>1, <2>3, <2>4, <2>5
<1>17. ASSUME NEW d \in Doctor, Work(d) PROVE QueueHoldsTheWaiting'
  BY <1>17 DEF Work, DoctorGoes
<1>18. ASSUME NEW d \in Doctor, Signal(d) PROVE QueueHoldsTheWaiting'
  BY <1>18 DEF Signal, DoctorGoes
<1>19. ASSUME NEW d \in Doctor, Cancelled(d) PROVE QueueHoldsTheWaiting'
  BY <1>19 DEF Cancelled, DoctorGoes
<1>20. CASE CreatePatient
  BY <1>20 DEF CreatePatient, PatientGoes, LoopTurn
<1>21. CASE CreateDoctor
  BY <1>21 DEF CreateDoctor, DoctorGoes, LoopTurn
<1>22. CASE JoinPatient
  BY <1>22 DEF JoinPatient, LoopTurn
<1>23. CASE CancelDoctor
  BY <1>23 DEF CancelDoctor
<1>24. CASE JoinDoctor
  BY <1>24 DEF JoinDoctor
<1>25. CASE UNCHANGED vars
  BY <1>25
<1>. QED
  BY <1>1, <1>2, <1>3, <1>4, <1>5, <1>6, <1>7, <1>8, <1>9, <1>10, <1>11,
     <1>12, <1>13, <1>14, <1>15, <1>16, <1>17, <1>18, <1>19, <1>20, <1>21,
     <1>22, <1>23, <1>24, <1>25
     DEF Next, PatientStep, DoctorStep, MainStep, Reported

(* A step keeps the tickets accounted for, and turns nobody away early. *)
LEMMA TicketStep ==
  ASSUME IInv, [Next]_vars
  PROVE  (TicketsAccounted /\ TurnedAwayOnlyIfSoldOut)'
<1> DEFINE Right == TicketsAccounted /\ TurnedAwayOnlyIfSoldOut
<1> DEFINE Kept == Holders' = Holders /\ UNCHANGED available_tickets /\ TurnedAwayOnlyIfSoldOut'
<1>0. Kept => Right'
  BY DEF IInv, TicketsAccounted
<1> USE
   DEF IInv, TypeOK, TurnedAwayOnlyIfSoldOut, Holders, PatientLife, MainLife,
       tickets, ward, staff, control, vars
<1> SUFFICES Right'  OBVIOUS
<1> HIDE DEF Right
<1>1. ASSUME NEW p \in Patient, SeeTicket(p) PROVE Right'
  BY <1>0, <1>1 DEF SeeTicket, PatientGoes
<1>2. ASSUME NEW p \in Patient, TakeTicket(p) PROVE Right'
  <2>1. p \notin Holders /\ Holders' = Holders \union {p}
    BY <1>0, <1>2 DEF TakeTicket, PatientGoes
  <2>2. Cardinality(Holders') = Cardinality(Holders) + 1
    <3> HIDE DEF Holders
    <3>. QED
      BY <2>1, Counts, FS_AddElement
  <2>3. available_tickets > 0 /\ available_tickets' = available_tickets - 1
    BY <1>0, <1>2 DEF TakeTicket, PatientGoes
  <2>4. TicketsAccounted'
    BY <2>2, <2>3, Counts, CountsAssumption DEF TicketsAccounted
  <2>5. TurnedAwayOnlyIfSoldOut'
    BY <2>3, <1>2 DEF TakeTicket, PatientGoes
  <2>. QED
    BY <2>4, <2>5 DEF Right
<1>3. ASSUME NEW p \in Patient, SeeNoTicket(p) PROVE Right'
  BY <1>0, <1>3 DEF SeeNoTicket, PatientGoes
<1>4. ASSUME NEW p \in Patient, LeaveUntreated(p) PROVE Right'
  BY <1>0, <1>4 DEF LeaveUntreated, PatientGoes
<1>5. ASSUME NEW p \in Patient, BecomeWaiting(p) PROVE Right'
  BY <1>0, <1>5 DEF BecomeWaiting, PatientGoes
<1>6. ASSUME NEW p \in Patient, JoinQueue(p) PROVE Right'
  BY <1>0, <1>6 DEF JoinQueue, PatientGoes
<1>7. ASSUME NEW p \in Patient, InformDoctor(p) PROVE Right'
  BY <1>0, <1>7 DEF InformDoctor, PatientGoes
<1>8. ASSUME NEW p \in Patient, SeeUntreated(p) PROVE Right'
  BY <1>0, <1>8 DEF SeeUntreated, PatientGoes
<1>9. ASSUME NEW p \in Patient, CondWait(p) PROVE Right'
  BY <1>0, <1>9 DEF CondWait, PatientGoes
<1>10. ASSUME NEW p \in Patient, SeeTreated(p) PROVE Right'
  BY <1>0, <1>10 DEF SeeTreated, PatientGoes
<1>11. ASSUME NEW p \in Patient, Leave(p) PROVE Right'
  BY <1>0, <1>11 DEF Leave, PatientGoes
<1>12. ASSUME NEW p \in Patient, SpuriousWakeup(p) PROVE Right'
  BY <1>0, <1>12 DEF SpuriousWakeup, PatientGoes
<1>13. ASSUME NEW d \in Doctor, Rest(d) PROVE Right'
  BY <1>0, <1>13 DEF Rest, DoctorGoes
<1>14. ASSUME NEW d \in Doctor, SemWait(d) PROVE Right'
  BY <1>0, <1>14 DEF SemWait, DoctorGoes
<1>15. ASSUME NEW d \in Doctor, SeeFront(d) PROVE Right'
  BY <1>0, <1>15 DEF SeeFront, DoctorGoes
<1>16. ASSUME NEW d \in Doctor, Assign(d) PROVE Right'
  BY <1>0, <1>16 DEF Assign, DoctorGoes
<1>17. ASSUME NEW d \in Doctor, Work(d) PROVE Right'
  BY <1>0, <1>17 DEF Work, DoctorGoes
<1>18. ASSUME NEW d \in Doctor, Signal(d) PROVE Right'
  BY <1>0, <1>18 DEF Signal, DoctorGoes
<1>19. ASSUME NEW d \in Doctor, Cancelled(d) PROVE Right'
  BY <1>0, <1>19 DEF Cancelled, DoctorGoes
<1>20. CASE CreatePatient
  BY <1>0, <1>20 DEF CreatePatient, PatientGoes, LoopTurn
<1>21. CASE CreateDoctor
  BY <1>0, <1>21 DEF CreateDoctor, DoctorGoes, LoopTurn
<1>22. CASE JoinPatient
  BY <1>0, <1>22 DEF JoinPatient, LoopTurn
<1>23. CASE CancelDoctor
  BY <1>0, <1>23 DEF CancelDoctor
<1>24. CASE JoinDoctor
  BY <1>0, <1>24 DEF JoinDoctor
<1>25. CASE UNCHANGED vars
  BY <1>0, <1>25
<1>. QED
  BY <1>1, <1>2, <1>3, <1>4, <1>5, <1>6, <1>7, <1>8, <1>9, <1>10, <1>11,
     <1>12, <1>13, <1>14, <1>15, <1>16, <1>17, <1>18, <1>19, <1>20, <1>21,
     <1>22, <1>23, <1>24, <1>25
     DEF Next, PatientStep, DoctorStep, MainStep, Reported

(* A step keeps tokens and queue in balance: of the four steps that move a *)
(* token or a patient, each moves it from one term of the sum to another.  *)
LEMMA TokenStep ==
  ASSUME IInv, [Next]_vars
  PROVE  TokensMatchQueue'
<1> DEFINE Kept == /\ Posting' = Posting /\ Taking' = Taking
                   /\ UNCHANGED <<patient_queue, sem_patient>>
<1>0. Kept => TokensMatchQueue'
  BY DEF IInv, TokensMatchQueue
<1> USE
   DEF IInv, TypeOK, MainLife, Posting, Taking, tickets, ward, staff, control,
       vars
<1>1. ASSUME NEW p \in Patient, SeeTicket(p) PROVE TokensMatchQueue'
  BY <1>0, <1>1 DEF SeeTicket, PatientGoes
<1>2. ASSUME NEW p \in Patient, TakeTicket(p) PROVE TokensMatchQueue'
  BY <1>0, <1>2 DEF TakeTicket, PatientGoes
<1>3. ASSUME NEW p \in Patient, SeeNoTicket(p) PROVE TokensMatchQueue'
  BY <1>0, <1>3 DEF SeeNoTicket, PatientGoes
<1>4. ASSUME NEW p \in Patient, LeaveUntreated(p) PROVE TokensMatchQueue'
  BY <1>0, <1>4 DEF LeaveUntreated, PatientGoes
<1>5. ASSUME NEW p \in Patient, BecomeWaiting(p) PROVE TokensMatchQueue'
  BY <1>0, <1>5 DEF BecomeWaiting, PatientGoes
<1>6. ASSUME NEW p \in Patient, JoinQueue(p) PROVE TokensMatchQueue'
  <2>1. /\ p \notin Posting /\ Posting' = Posting \union {p}
        /\ Taking' = Taking /\ UNCHANGED sem_patient
    BY <1>0, <1>6 DEF JoinQueue, PatientGoes
  <2>2. Len(patient_queue') = Len(patient_queue) + 1
    BY <1>0, <1>6 DEF JoinQueue
  <2> HIDE DEF Posting, Taking
  <2>3. Cardinality(Posting') = Cardinality(Posting) + 1
    BY <2>1, Counts, FS_AddElement
  <2>. QED
    BY <2>1, <2>2, <2>3, Counts DEF TokensMatchQueue
<1>7. ASSUME NEW p \in Patient, InformDoctor(p) PROVE TokensMatchQueue'
  <2>1. /\ p \in Posting /\ Posting' = Posting \ {p}
        /\ Taking' = Taking /\ UNCHANGED patient_queue /\ sem_patient' = sem_patient + 1
    BY <1>0, <1>7 DEF InformDoctor, PatientGoes
  <2> HIDE DEF Posting, Taking
  <2>3. Cardinality(Posting') = Cardinality(Posting) - 1
    BY <2>1, Counts, FS_RemoveElement
  <2>. QED
    BY <2>1, <2>3, Counts DEF TokensMatchQueue
<1>8. ASSUME NEW p \in Patient, SeeUntreated(p) PROVE TokensMatchQueue'
  BY <1>0, <1>8 DEF SeeUntreated, PatientGoes
<1>9. ASSUME NEW p \in Patient, CondWait(p) PROVE TokensMatchQueue'
  BY <1>0, <1>9 DEF CondWait, PatientGoes
<1>10. ASSUME NEW p \in Patient, SeeTreated(p) PROVE TokensMatchQueue'
  BY <1>0, <1>10 DEF SeeTreated, PatientGoes
<1>11. ASSUME NEW p \in Patient, Leave(p) PROVE TokensMatchQueue'
  BY <1>0, <1>11 DEF Leave, PatientGoes
<1>12. ASSUME NEW p \in Patient, SpuriousWakeup(p) PROVE TokensMatchQueue'
  BY <1>0, <1>12 DEF SpuriousWakeup, PatientGoes
<1>13. ASSUME NEW d \in Doctor, Rest(d) PROVE TokensMatchQueue'
  BY <1>0, <1>13 DEF Rest, DoctorGoes
<1>14. ASSUME NEW d \in Doctor, SemWait(d) PROVE TokensMatchQueue'
  <2>1. /\ d \notin Taking /\ Taking' = Taking \union {d}
        /\ Posting' = Posting /\ UNCHANGED patient_queue /\ sem_patient' = sem_patient - 1
    BY <1>0, <1>14 DEF SemWait, DoctorGoes
  <2> HIDE DEF Posting, Taking
  <2>3. Cardinality(Taking') = Cardinality(Taking) + 1
    BY <2>1, Counts, FS_AddElement
  <2>. QED
    BY <2>1, <2>3, Counts DEF TokensMatchQueue
<1>15. ASSUME NEW d \in Doctor, SeeFront(d) PROVE TokensMatchQueue'
  BY <1>0, <1>15 DEF SeeFront, DoctorGoes
<1>16. ASSUME NEW d \in Doctor, Assign(d) PROVE TokensMatchQueue'
  <2>1. /\ d \in Taking /\ Taking' = Taking \ {d}
        /\ Posting' = Posting /\ UNCHANGED sem_patient
    BY <1>0, <1>16 DEF Assign, DoctorGoes
  <2>2. Len(patient_queue') = Len(patient_queue) - 1 /\ Len(patient_queue) \in Nat
    BY <1>0, <1>16, TakenWaits, QueueOps DEF Assign, Popped, DoctorGoes
  <2> HIDE DEF Posting, Taking
  <2>3. Cardinality(Taking') = Cardinality(Taking) - 1
    BY <2>1, Counts, FS_RemoveElement
  <2>. QED
    BY <2>1, <2>2, <2>3, Counts DEF TokensMatchQueue
<1>17. ASSUME NEW d \in Doctor, Work(d) PROVE TokensMatchQueue'
  BY <1>0, <1>17 DEF Work, DoctorGoes
<1>18. ASSUME NEW d \in Doctor, Signal(d) PROVE TokensMatchQueue'
  BY <1>0, <1>18 DEF Signal, DoctorGoes
<1>19. ASSUME NEW d \in Doctor, Cancelled(d) PROVE TokensMatchQueue'
  BY <1>0, <1>19 DEF Cancelled, DoctorGoes
<1>20. CASE CreatePatient
  BY <1>0, <1>20 DEF CreatePatient, PatientGoes, LoopTurn
<1>21. CASE CreateDoctor
  BY <1>0, <1>21 DEF CreateDoctor, DoctorGoes, LoopTurn
<1>22. CASE JoinPatient
  BY <1>0, <1>22 DEF JoinPatient, LoopTurn
<1>23. CASE CancelDoctor
  BY <1>0, <1>23 DEF CancelDoctor
<1>24. CASE JoinDoctor
  BY <1>0, <1>24 DEF JoinDoctor
<1>25. CASE UNCHANGED vars
  BY <1>0, <1>25
<1>. QED
  BY <1>1, <1>2, <1>3, <1>4, <1>5, <1>6, <1>7, <1>8, <1>9, <1>10, <1>11,
     <1>12, <1>13, <1>14, <1>15, <1>16, <1>17, <1>18, <1>19, <1>20, <1>21,
     <1>22, <1>23, <1>24, <1>25
     DEF Next, PatientStep, DoctorStep, MainStep, Reported

-----------------------------------------------------------------------------
(* The invariant *)

(* IInv is inductive. *)
LEMMA Inductive ==
  ASSUME IInv, [Next]_vars
  PROVE  IInv'
<1>1. /\ TypeOK /\ MainLife /\ MutualExclusion
      /\ \A p \in Patient : pc_patient[p] = "take" => available_tickets > 0
  BY DEF IInv
<1>2. TypeOK' /\ MutualExclusion'
  BY <1>1, TypeStep, MutexStep
<1>3. (\A p \in Patient : pc_patient[p] = "take" => available_tickets > 0)'
  BY <1>1, TakeStep
<1>4. (\A p \in Patient : PatientLife(p))' /\ (\A d \in Doctor : DoctorLife(d))'
  BY LifeStep, DoctorStepLife
<1>5. QueueHoldsTheWaiting' /\ NoLostWakeup' /\ MainLife'
  BY QueueStep, WakeupStep, MainStepLife
<1>6. TicketsAccounted' /\ TurnedAwayOnlyIfSoldOut' /\ TokensMatchQueue'
  BY TicketStep, TokenStep
<1>. QED
  BY <1>2, <1>3, <1>4, <1>5, <1>6 DEF IInv

(* IInv holds when the program starts. *)
LEMMA Initial == Init => IInv
<1> SUFFICES ASSUME Init PROVE IInv
  OBVIOUS
<1> USE CountsAssumption
   DEF Init, Patient, Doctor, None, PatientInfo, DoctorInfo
<1>1. TypeOK
  BY DEF TypeOK, PatientState, DoctorState
<1>2. MutualExclusion
  BY DEF MutualExclusion, DoctorThread
<1>3. \A p \in Patient : PatientLife(p)
  BY DEF PatientLife
<1>4. \A d \in Doctor : DoctorLife(d)
  BY DEF DoctorLife
<1>5. QueueHoldsTheWaiting
  BY DEF QueueHoldsTheWaiting, InQueue, IsInjective, Range
<1>6. NoLostWakeup /\ TurnedAwayOnlyIfSoldOut /\ MainLife
  BY DEF NoLostWakeup, TurnedAwayOnlyIfSoldOut, MainLife
<1>7. Holders = {} /\ Posting = {} /\ Taking = {}
  BY DEF Holders, Posting, Taking
<1>8. TicketsAccounted /\ TokensMatchQueue
  BY <1>7, FS_EmptySet DEF TicketsAccounted, TokensMatchQueue
<1>. QED
  BY <1>1, <1>2, <1>3, <1>4, <1>5, <1>6, <1>8 DEF IInv

(* IInv holds in every state of every execution. *)
LEMMA Invariance == SafeSpec => []IInv
BY Initial, Inductive, PTL DEF SafeSpec

-----------------------------------------------------------------------------
(* The theorems *)

(* For any counts, the inductive invariant holds: types, mutual exclusion by   *)
(* mutex_patient and mutex_doctor, tickets and tokens in step with the queue,  *)
(* and what each place in a thread says of the state the threads share.        *)
THEOREM InvariantHolds == Spec => []IInv
BY Invariance, PTL DEF Spec

(* Every variable always holds a value of its type; in particular the unsigned *)
(* available_tickets is never decremented below zero.                          *)
THEOREM TypeCorrect == Spec => []TypeOK
<1>1. IInv => TypeOK
  BY DEF IInv
<1>. QED
  BY <1>1, Invariance, PTL DEF Spec

(* For any number of patients and doctors, each mutex is owned exactly by the *)
(* thread that is inside one of its critical sections.                        *)
THEOREM MutexesExclude == Spec => []MutualExclusion
<1>1. IInv => MutualExclusion
  BY DEF IInv
<1>. QED
  BY <1>1, Invariance, PTL DEF Spec

(* For any counts, tickets sold and tickets left always add up to the number on *)
(* sale, and a patient is turned away only when they are sold out.              *)
THEOREM TicketsNeverOversold == Spec => [](TicketsAccounted /\ TurnedAwayOnlyIfSoldOut)
<1>1. IInv => TicketsAccounted /\ TurnedAwayOnlyIfSoldOut
  BY DEF IInv
<1>. QED
  BY <1>1, Invariance, PTL DEF Spec

(* For any counts, the semaphore's value, the posts to come and the doctors that *)
(* hold a token always add up to the length of the queue, so front() and pop()   *)
(* are never called on an empty queue.                                           *)
THEOREM SemaphoreCountsQueue == Spec => [](TokensMatchQueue /\ FrontIsDefined)
<1>1. IInv => TokensMatchQueue /\ FrontIsDefined
  BY FrontLemma DEF IInv
<1>. QED
  BY <1>1, Invariance, PTL DEF Spec

(* For any counts, the queue always holds each patient that waits, once, and no *)
(* one else.                                                                    *)
THEOREM QueueIsTheWaiting == Spec => []QueueHoldsTheWaiting
<1>1. IInv => QueueHoldsTheWaiting
  BY DEF IInv
<1>. QED
  BY <1>1, Invariance, PTL DEF Spec

(* For any counts, a patient that sleeps in pthread_cond_wait although a doctor *)
(* took it always has that doctor's signal still to come.                       *)
THEOREM NoWakeupIsLost == Spec => []NoLostWakeup
<1>1. IInv => NoLostWakeup
  BY DEF IInv
<1>. QED
  BY <1>1, Invariance, PTL DEF Spec

(* For any counts, a patient's entry of PState and its entry of patient_doctor *)
(* always name the same doctor.                                                *)
THEOREM RecordsAlwaysAgree == Spec => []RecordsAgree
<1>1. IInv => RecordsAgree
  BY DEF IInv, PatientLife, RecordsAgree
<1>. QED
  BY <1>1, Invariance, PTL DEF Spec

(* Once main has joined the patients, nothing is left of the doctors' work. *)
LEMMA NobodyLeft ==
  ASSUME IInv, main_pc \in {"cancel_doctor", "join_doctor", "report"}
  PROVE  /\ \A p \in Patient : pc_patient[p] = "done"
         /\ patient_queue = <<>> /\ sem_patient = 0
         /\ \A d \in Doctor : pc_doctor[d] \notin {"front", "assign"}
<1>1. \A p \in Patient : pc_patient[p] = "done"
  BY DEF IInv, MainLife
<1>2. \A p \in Patient : ~InQueue(p)
  BY <1>1 DEF IInv, QueueHoldsTheWaiting, PatientLife
<1>3. patient_queue \in Seq(Patient)
  BY DEF IInv, TypeOK
<1>4. patient_queue = <<>>
  BY <1>2, <1>3, QueueOps, TailOps DEF InQueue, IInv, QueueHoldsTheWaiting
<1>5. sem_patient + Cardinality(Posting) + Cardinality(Taking) = 0
  BY <1>4 DEF IInv, TokensMatchQueue
<1>6. sem_patient = 0 /\ Cardinality(Taking) = 0
  BY <1>5, Counts DEF IInv, TypeOK
<1>7. Taking = {}
  BY <1>6, Counts, FS_EmptySet DEF IInv
<1>. QED
  BY <1>1, <1>4, <1>6, <1>7 DEF Taking

(* For any counts, no doctor is cancelled while a patient, a token or a queue *)
(* entry is left.                                                             *)
THEOREM CancellingIsSafe == Spec => []CancelStrandsNobody
<1>1. IInv => CancelStrandsNobody
  BY NobodyLeft DEF CancelStrandsNobody
<1>. QED
  BY <1>1, Invariance, PTL DEF Spec

(* For any counts, no step changes the doctor a patient has been given. *)
THEOREM DoctorsKeepTheirPatients == Spec => TreatedOnce
<1> DEFINE Keeps == \A p \in Patient : patient_doctor[p] # None
                                        => patient_doctor'[p] = patient_doctor[p]
<1>1. ASSUME IInv, [Next]_vars PROVE [Keeps]_vars
  <2>1. ASSUME NEW d \in Doctor, Assign(d) PROVE Keeps
    <3>1. patient_id[d] \in Patient /\ PState[patient_id[d]].state = "Waiting"
      BY <1>1, <2>1, TakenWaits DEF Assign, DoctorGoes
    <3>2. patient_doctor[patient_id[d]] = None
      BY <1>1, <3>1 DEF IInv, PatientLife
    <3>. QED
      BY <1>1, <2>1, <3>2 DEF Assign, IInv, TypeOK
  <2>2. ASSUME UNCHANGED patient_doctor PROVE Keeps
    BY <2>2
  <2>3. UNCHANGED vars \/ UNCHANGED patient_doctor \/ \E d \in Doctor : Assign(d)
    BY <1>1 DEF Next, PatientStep, DoctorStep, MainStep, Reported, ward,
       SeeTicket, TakeTicket, SeeNoTicket, LeaveUntreated, BecomeWaiting, JoinQueue,
       InformDoctor, SeeUntreated, CondWait, SeeTreated, Leave, SpuriousWakeup,
       Rest, SemWait, SeeFront, Work, Signal, Cancelled,
       CreatePatient, CreateDoctor, JoinPatient, CancelDoctor, JoinDoctor
  <2>. QED
    BY <2>1, <2>2, <2>3
<1>. QED
  BY <1>1, Invariance, PTL DEF Spec, SafeSpec, TreatedOnce

(* For any counts, when main prints its report, every ticket holder and nobody *)
(* else has a doctor, everybody has left, and the tickets left are the ones no *)
(* patient wanted.                                                             *)
THEOREM ReportIsCorrect == Spec => []ReportIsRight
<1>1. IInv => ReportIsRight
  <2> SUFFICES ASSUME IInv, main_pc = "report"
               PROVE  ReportIsRight
    BY DEF ReportIsRight
  <2> USE DEF IInv, MainLife
  <2>1. \A p \in Patient : /\ patient_doctor[p] # None <=> has_ticket[p]
                           /\ PState[p].state = "Left"
    BY DEF PatientLife
  <2>2. \A d \in Doctor : pc_doctor[d] = "done" /\ DState[d].state = "Unknown"
    BY DEF DoctorLife
  <2>3. IsFiniteSet(Patient) /\ Cardinality(Patient) = patient_count
    BY FS_Interval, CountsAssumption DEF Patient
  <2>4. Holders \subseteq Patient /\ Cardinality(Holders) \in Nat
    BY Counts DEF Holders
  <2>5. Cardinality(Holders) <= patient_count
    BY <2>3, <2>4, FS_Subset
  <2>6. available_tickets # 0 => Holders = Patient
    BY DEF TurnedAwayOnlyIfSoldOut, Holders
  <2>7. available_tickets = IF available_count > patient_count
                              THEN available_count - patient_count ELSE 0
    <3>1. available_tickets \in Nat /\ available_tickets + Cardinality(Holders) = available_count
      BY DEF TypeOK, TicketsAccounted
    <3>. QED
      BY <3>1, <2>3, <2>4, <2>5, <2>6, CountsAssumption
  <2>. QED
    BY <2>1, <2>2, <2>7 DEF ReportIsRight
<1>. QED
  BY <1>1, Invariance, PTL DEF Spec

-----------------------------------------------------------------------------
(* The refinement *)

(* Every step of the threads is a step of the clinic or leaves it unchanged:    *)
(* TakeTicket admits, SeeNoTicket turns away, JoinQueue lines up, Assign calls, *)
(* Leave leaves, and all the others are invisible.                              *)
LEMMA StepRefines ==
  ASSUME IInv, [Next]_vars
  PROVE  [PromisedClinic!Next]_(PromisedClinic!cvars)
<1> DEFINE Goal == [PromisedClinic!Next]_(PromisedClinic!cvars)
<1> DEFINE Stays == /\ \A q \in Patient : Place(q)' = Place(q)
                    /\ UNCHANGED <<available_tickets, patient_queue, patient_doctor>>
<1> DEFINE MovesTo(p, from, to) == /\ Place(p) = from /\ Place(p)' = to
                                   /\ \A q \in Patient \ {p} : Place(q)' = Place(q)
<1>0. Stays => Goal
  BY DEF PromisedClinic!cvars
<1>a. ASSUME NEW p \in Patient, NEW from, NEW to, MovesTo(p, from, to)
      PROVE  PromisedClinic!Move(p, from, to)
  BY <1>a DEF PromisedClinic!Move
<1> SUFFICES Goal
  OBVIOUS
<1> HIDE DEF Goal
<1> USE
   DEF IInv, TypeOK, PatientLife, MainLife, Place, tickets, ward, staff,
       control, vars
<1>1. ASSUME NEW p \in Patient, SeeTicket(p) PROVE Goal
  BY <1>0, <1>1 DEF SeeTicket, PatientGoes
<1>2. ASSUME NEW p \in Patient, TakeTicket(p) PROVE Goal
  <2>1. MovesTo(p, "outside", "ticketed")
    BY <1>2 DEF TakeTicket, PatientGoes, PatientInfo
  <2>2. /\ available_tickets > 0 /\ available_tickets' = available_tickets - 1
        /\ UNCHANGED <<patient_queue, patient_doctor>>
    BY <1>2 DEF TakeTicket, PatientGoes
  <2>. QED
    BY <2>1, <2>2, <1>a DEF Goal, PromisedClinic!Next, PromisedClinic!Admit
<1>3. ASSUME NEW p \in Patient, SeeNoTicket(p) PROVE Goal
  <2>1. MovesTo(p, "outside", "turned_away")
    BY <1>3 DEF SeeNoTicket, PatientGoes, PatientInfo
  <2>2. /\ available_tickets = 0
        /\ UNCHANGED <<available_tickets, patient_queue, patient_doctor>>
    BY <1>3 DEF SeeNoTicket
  <2>. QED
    BY <2>1, <2>2, <1>a DEF Goal, PromisedClinic!Next, PromisedClinic!TurnAway
<1>4. ASSUME NEW p \in Patient, LeaveUntreated(p) PROVE Goal
  BY <1>0, <1>4 DEF LeaveUntreated, PatientGoes, PatientInfo
<1>5. ASSUME NEW p \in Patient, BecomeWaiting(p) PROVE Goal
  BY <1>0, <1>5 DEF BecomeWaiting, PatientGoes, PatientInfo
<1>6. ASSUME NEW p \in Patient, JoinQueue(p) PROVE Goal
  <2>1. MovesTo(p, "ticketed", "line")
    BY <1>6 DEF JoinQueue, PatientGoes, PatientInfo
  <2>2. /\ patient_queue' = Append(patient_queue, p)
        /\ UNCHANGED <<available_tickets, patient_doctor>>
    BY <1>6 DEF JoinQueue
  <2>. QED
    BY <2>1, <2>2, <1>a DEF Goal, PromisedClinic!Next, PromisedClinic!LineUp
<1>7. ASSUME NEW p \in Patient, InformDoctor(p) PROVE Goal
  BY <1>0, <1>7 DEF InformDoctor, PatientGoes
<1>8. ASSUME NEW p \in Patient, SeeUntreated(p) PROVE Goal
  BY <1>0, <1>8 DEF SeeUntreated, PatientGoes
<1>9. ASSUME NEW p \in Patient, CondWait(p) PROVE Goal
  BY <1>0, <1>9 DEF CondWait, PatientGoes
<1>10. ASSUME NEW p \in Patient, SeeTreated(p) PROVE Goal
  BY <1>0, <1>10 DEF SeeTreated, PatientGoes
<1>11. ASSUME NEW p \in Patient, Leave(p) PROVE Goal
  <2>1. MovesTo(p, "room", "gone")
    BY <1>11 DEF Leave, PatientGoes, PatientInfo
  <2>2. UNCHANGED <<available_tickets, patient_queue, patient_doctor>>
    BY <1>11 DEF Leave
  <2>. QED
    BY <2>1, <2>2, <1>a DEF Goal, PromisedClinic!Next, PromisedClinic!Leave
<1>12. ASSUME NEW p \in Patient, SpuriousWakeup(p) PROVE Goal
  BY <1>0, <1>12 DEF SpuriousWakeup, PatientGoes
<1>13. ASSUME NEW d \in Doctor, Rest(d) PROVE Goal
  BY <1>0, <1>13 DEF Rest, DoctorGoes
<1>14. ASSUME NEW d \in Doctor, SemWait(d) PROVE Goal
  BY <1>0, <1>14 DEF SemWait, DoctorGoes
<1>15. ASSUME NEW d \in Doctor, SeeFront(d) PROVE Goal
  BY <1>0, <1>15 DEF SeeFront, DoctorGoes
<1>16. ASSUME NEW d \in Doctor, Assign(d) PROVE Goal
  <2> DEFINE p == patient_id[d]
  <2>1. /\ patient_queue # <<>> /\ p = Head(patient_queue) /\ p \in Patient
        /\ PState[p].state = "Waiting" /\ pc_patient[p] # "push"
    BY <1>16, TakenWaits DEF Assign, DoctorGoes
  <2>2. MovesTo(p, "line", "room")
    BY <2>1, <1>16, SMTT(30) DEF Assign, PatientInfo
  <2>3. patient_doctor[p] = None
    BY <2>1
  <2>4. /\ patient_queue' = Tail(patient_queue)
        /\ patient_doctor' = [patient_doctor EXCEPT ![p] = d]
        /\ UNCHANGED available_tickets
    BY <2>1, <1>16 DEF Assign, Popped
  <2>. HIDE DEF p
  <2>. HIDE DEF MovesTo, Place
  <2>5. PromisedClinic!Move(p, "line", "room")
    BY <2>1, <2>2, <1>a
  <2>6. PromisedClinic!Call(p, d)
    BY <2>1, <2>3, <2>4, <2>5 DEF PromisedClinic!Call
  <2>. QED
    BY <2>1, <2>6, <1>16 DEF Goal, PromisedClinic!Next
<1>17. ASSUME NEW d \in Doctor, Work(d) PROVE Goal
  BY <1>0, <1>17 DEF Work, DoctorGoes
<1>18. ASSUME NEW d \in Doctor, Signal(d) PROVE Goal
  BY <1>0, <1>18 DEF Signal, DoctorGoes
<1>19. ASSUME NEW d \in Doctor, Cancelled(d) PROVE Goal
  BY <1>0, <1>19 DEF Cancelled, DoctorGoes
<1>20. CASE CreatePatient
  BY <1>0, <1>20 DEF CreatePatient, PatientGoes, LoopTurn
<1>21. CASE CreateDoctor
  BY <1>0, <1>21 DEF CreateDoctor, DoctorGoes, LoopTurn
<1>22. CASE JoinPatient
  BY <1>0, <1>22 DEF JoinPatient, LoopTurn
<1>23. CASE CancelDoctor
  BY <1>0, <1>23 DEF CancelDoctor
<1>24. CASE JoinDoctor
  BY <1>0, <1>24 DEF JoinDoctor
<1>25. CASE UNCHANGED vars
  BY <1>0, <1>25
<1>. QED
  BY <1>1, <1>2, <1>3, <1>4, <1>5, <1>6, <1>7, <1>8, <1>9, <1>10, <1>11,
     <1>12, <1>13, <1>14, <1>15, <1>16, <1>17, <1>18, <1>19, <1>20, <1>21,
     <1>22, <1>23, <1>24, <1>25
     DEF Next, PatientStep, DoctorStep, MainStep, Reported

(* The program starts as a clinic with nobody in it. *)
LEMMA InitRefines ==
  ASSUME Init
  PROVE  PromisedClinic!Init
<1>1. \A p \in Patient : Place(p) = "outside"
  BY DEF Init, Place
<1>. QED
  BY <1>1 DEF Init, PromisedClinic!Init

(* For any counts, every execution of the threads is an execution of the clinic: *)
(* tickets while they last, first come first served, one doctor per patient.     *)
THEOREM HospitalIsAClinic == Spec => ImplementsSafeClinic
<1>. QED
  BY InitRefines, StepRefines, Invariance, PTL
     DEF Spec, SafeSpec, ImplementsSafeClinic, PromisedClinic!SafeSpec

-----------------------------------------------------------------------------
(* Progress: what TLC checks as liveness rests on two facts, which need no  *)
(* fairness and are proved here.  While main has not come to its report     *)
(* somebody can take a step; and every step but a spurious wakeup lowers a  *)
(* number that is never raised again.                                       *)

\* Whom main has created and cancelled, by the loop it is in, and that a doctor
\* is recorded for a patient before the patient is signalled.
Staffing ==
  /\ \A p \in Patient : pc_patient[p] = "new" <=> main_pc = "create_patients" /\ p >= main_i
  /\ \A d \in Doctor : pc_doctor[d] = "new" <=> \/ main_pc = "create_patients"
                                                \/ main_pc = "create_doctors" /\ d >= main_i
  /\ main_pc \in {"create_patients", "create_doctors", "join_patients"} => cancelled = {}
  /\ main_pc = "join_doctor" => main_i \in cancelled
  /\ \A d \in Doctor : pc_doctor[d] = "done" => d \in cancelled
  /\ \A d \in Doctor : pc_doctor[d] \in {"work", "signal"} => patient_doctor[patient_id[d]] # None

\* When a thread can take its next step, by itself: the guards of its actions.
PatientCanStep(p) ==
  \/ pc_patient[p] \in {"take", "push", "post", "wait"}
  \/ pc_patient[p] = "ticket" /\ mutex_ticket = None
  \/ pc_patient[p] \in {"turned_away", "enqueue", "check", "treatment"} /\ mutex_patient = None

DoctorCanStep(d) ==
  \/ pc_doctor[d] \in {"rest", "assign", "work", "signal"}
  \/ pc_doctor[d] = "sem_wait" /\ (sem_patient > 0 \/ d \in cancelled)
  \/ pc_doctor[d] = "front" /\ mutex_patient = None

MainCanStep ==
  \/ main_pc \in {"create_patients", "create_doctors", "cancel_doctor"}
  \/ main_pc = "join_patients" /\ pc_patient[main_i] = "done"
  \/ main_pc = "join_doctor" /\ pc_doctor[main_i] = "done"

SomebodyCanStep == \/ \E p \in Patient : PatientCanStep(p)
                   \/ \E d \in Doctor : DoctorCanStep(d)
                   \/ MainCanStep

\* How many more steps a thread can take: a patient but for spurious wakeups ...
StepsFrom(at, state) ==
  CASE at = "new" -> 11
    [] at = "ticket" -> 10
    [] at = "take" -> 9
    [] at = "enqueue" -> 8
    [] at = "push" -> 7
    [] at = "post" -> 6
    [] at = "check" -> IF state = "Waiting" THEN 5 ELSE 2
    [] at = "wait" -> 4
    [] at = "blocked" -> 3
    [] at \in {"treatment", "turned_away"} -> 1
    [] at = "done" -> 0

PatientSteps(p) == StepsFrom(pc_patient[p], PState[p].state)

\* ... a doctor, whose loop goes round once for each patient without a doctor ...
Unassigned == {p \in Patient : patient_doctor[p] = None}

DoctorSteps(d) ==
  LET at == pc_doctor[d]
      loop == 6 * Cardinality(Unassigned)
  IN  CASE at = "new" -> loop + 7
        [] at = "work" -> loop + 6
        [] at = "signal" -> loop + 5
        [] at = "rest" -> loop + 4
        [] at = "sem_wait" -> loop + 3
        [] at = "front" -> loop + 2
        [] at = "assign" -> loop + 1
        [] at = "done" -> 0

\* ... and main.
MainSteps ==
  CASE main_pc = "create_patients" -> 2 * patient_count - main_i + 3 * doctor_count
    [] main_pc = "create_doctors" -> patient_count + 3 * doctor_count - main_i
    [] main_pc = "join_patients" -> patient_count - main_i + 2 * doctor_count
    [] main_pc = "cancel_doctor" -> 2 * (doctor_count - main_i)
    [] main_pc = "join_doctor" -> 2 * (doctor_count - main_i) - 1
    [] main_pc = "report" -> 0

StepCounts ==
  /\ \A p \in Patient : PatientSteps(p) \in Nat
  /\ \A d \in Doctor : DoctorSteps(d) \in Nat
  /\ MainSteps \in Nat

\* A step after which somebody has fewer steps to take and nobody has more.
StepSpent ==
  /\ \A p \in Patient : PatientSteps(p)' <= PatientSteps(p)
  /\ \A d \in Doctor : DoctorSteps(d)' <= DoctorSteps(d)
  /\ MainSteps' <= MainSteps
  /\ \/ \E p \in Patient : PatientSteps(p)' < PatientSteps(p)
     \/ \E d \in Doctor : DoctorSteps(d)' < DoctorSteps(d)
     \/ MainSteps' < MainSteps

(* A step keeps what main's place says of the threads it has created.       *)
LEMMA StaffingAtFirst == Init => Staffing
BY CountsAssumption DEF Init, Staffing, Patient, Doctor

LEMMA StaffingPreserved ==
  ASSUME IInv, Staffing, [Next]_vars
  PROVE  Staffing'
<1>0. TypeOK /\ MainLife /\ \A d \in Doctor : DoctorLife(d)
  BY DEF IInv
<1> USE CountsAssumption DEF Staffing, TypeOK, MainLife, DoctorLife, Patient, Doctor, None
<1>1. ASSUME NEW p \in Patient, PatientStep(p) \/ SpuriousWakeup(p) PROVE Staffing'
  <2>1. /\ UNCHANGED <<patient_doctor, patient_id, pc_doctor, control>>
        /\ pc_patient[p] # "new" /\ \E to : to # "new" /\ pc_patient' = [pc_patient EXCEPT ![p] = to]
    BY <1>0, <1>1
       DEF PatientStep, PatientGoes, staff, ward, SeeTicket, TakeTicket, SeeNoTicket,
           LeaveUntreated, BecomeWaiting, JoinQueue, InformDoctor, SeeUntreated, CondWait,
           SeeTreated, Leave, SpuriousWakeup
  <2> QED
    BY <1>0, <2>1 DEF control
<1>2. ASSUME NEW d \in Doctor, DoctorStep(d) PROVE Staffing'
  <2>1. CASE Signal(d)
    <3>1. /\ UNCHANGED <<patient_doctor, patient_id, control>>
          /\ pc_doctor[d] = "signal" /\ pc_doctor' = [pc_doctor EXCEPT ![d] = "rest"]
          /\ pc_patient' = [pc_patient EXCEPT ![patient_id[d]] = IF @ = "blocked" THEN "check" ELSE @]
      BY <2>1 DEF Signal, DoctorGoes, ward
    <3> QED
      BY <1>0, <3>1 DEF control
  <2>2. CASE Assign(d)
    <3>1. patient_id[d] \in Patient
      BY <2>2, TakenWaits DEF Assign, DoctorGoes
    <3>2. /\ UNCHANGED <<patient_id, pc_patient, control>>
          /\ pc_doctor[d] = "assign" /\ pc_doctor' = [pc_doctor EXCEPT ![d] = "work"]
          /\ patient_doctor' = [patient_doctor EXCEPT ![patient_id[d]] = d]
      BY <2>2 DEF Assign, DoctorGoes
    <3> QED
      BY <1>0, <3>1, <3>2 DEF control
  <2>3. CASE SeeFront(d)
    <3>1. /\ UNCHANGED <<patient_doctor, pc_patient, control>>
          /\ pc_doctor[d] = "front" /\ pc_doctor' = [pc_doctor EXCEPT ![d] = "assign"]
          /\ \A e \in Doctor : e # d => patient_id'[e] = patient_id[e]
      BY <1>0, <2>3 DEF SeeFront, DoctorGoes, ward
    <3> QED
      BY <1>0, <3>1 DEF control
  <2>4. CASE Rest(d)
    BY <1>0, <2>4 DEF Rest, DoctorGoes, ward, control
  <2>5. CASE SemWait(d)
    BY <1>0, <2>5 DEF SemWait, DoctorGoes, ward, control
  <2>6. CASE Work(d)
    BY <1>0, <2>6 DEF Work, DoctorGoes, ward, control
  <2>7. CASE Cancelled(d)
    BY <1>0, <2>7 DEF Cancelled, DoctorGoes, ward, control
  <2> QED
    BY <1>2, <2>1, <2>2, <2>3, <2>4, <2>5, <2>6, <2>7 DEF DoctorStep
<1>3. CASE CreatePatient
  BY <1>0, <1>3 DEF CreatePatient, PatientGoes, LoopTurn, staff, ward
<1>4. CASE CreateDoctor
  BY <1>0, <1>4 DEF CreateDoctor, DoctorGoes, LoopTurn, ward
<1>5. CASE JoinPatient
  BY <1>0, <1>5 DEF JoinPatient, LoopTurn, staff, ward
<1>6. CASE CancelDoctor
  BY <1>0, <1>6 DEF CancelDoctor, staff, ward
<1>7. CASE JoinDoctor
  BY <1>0, <1>7 DEF JoinDoctor, staff, ward
<1>8. CASE UNCHANGED vars
  BY <1>0, <1>8 DEF vars, staff, ward, control
<1> QED
  BY <1>1, <1>2, <1>3, <1>4, <1>5, <1>6, <1>7, <1>8 DEF Next, MainStep, Reported

LEMMA Staffed == SafeSpec => [](IInv /\ Staffing)
<1>1. IInv /\ Staffing /\ [Next]_vars => Staffing'
  BY StaffingPreserved
<1> QED
  BY <1>1, StaffingAtFirst, Invariance, PTL DEF SafeSpec

(* A mutex that is taken is owned by a thread that can go on.               *)
LEMMA OwnersCanStep ==
  ASSUME IInv, mutex_ticket # None \/ mutex_patient # None
  PROVE  SomebodyCanStep
<1>1. CASE mutex_ticket # None
  <2>1. mutex_ticket \in Patient /\ pc_patient[mutex_ticket] = "take"
    BY <1>1 DEF IInv, TypeOK, MutualExclusion
  <2> QED
    BY <2>1 DEF SomebodyCanStep, PatientCanStep
<1>2. CASE mutex_patient # None
  <2>1. mutex_patient \in 0 .. patient_count + doctor_count - 1
    BY <1>2 DEF IInv, TypeOK
  <2>2. CASE mutex_patient < patient_count
    <3>1. mutex_patient \in Patient
      BY <2>1, <2>2, CountsAssumption DEF Patient
    <3>2. pc_patient[mutex_patient] \in {"push", "wait"}
      BY <3>1 DEF IInv, MutualExclusion
    <3> QED
      BY <3>1, <3>2 DEF SomebodyCanStep, PatientCanStep
  <2>3. CASE mutex_patient >= patient_count
    <3>1. mutex_patient - patient_count \in Doctor
      BY <2>1, <2>3, CountsAssumption DEF Doctor
    <3>2. DoctorThread(mutex_patient - patient_count) = mutex_patient
      BY <2>1, CountsAssumption DEF DoctorThread
    <3>3. pc_doctor[mutex_patient - patient_count] = "assign"
      BY <3>1, <3>2 DEF IInv, MutualExclusion
    <3> QED
      BY <3>1, <3>3 DEF SomebodyCanStep, DoctorCanStep
  <2> QED
    BY <2>1, <2>2, <2>3, CountsAssumption
<1> QED
  BY <1>1, <1>2

(* A patient that is still there can go on, or somebody else can.           *)
LEMMA PatientsAreServed ==
  ASSUME IInv, Staffing, main_pc = "join_patients", NEW p \in Patient, pc_patient[p] # "done"
  PROVE  SomebodyCanStep
<1> SUFFICES ASSUME mutex_ticket = None, mutex_patient = None PROVE SomebodyCanStep
  BY OwnersCanStep
<1>1. CASE pc_patient[p] # "blocked"
  <2>1. PatientCanStep(p)
    BY <1>1 DEF PatientCanStep, IInv, TypeOK, Staffing
  <2> QED
    BY <2>1 DEF SomebodyCanStep
<1>2. CASE pc_patient[p] = "blocked" /\ PState[p].state = "BeingTreated"
  <2>1. PICK d \in Doctor : SignalPending(d, p)
    BY <1>2 DEF IInv, NoLostWakeup
  <2> QED
    BY <2>1 DEF SignalPending, SomebodyCanStep, DoctorCanStep
<1>3. CASE pc_patient[p] = "blocked" /\ PState[p].state = "Waiting"
  <2>1. patient_queue \in Seq(Patient) /\ InQueue(p)
    BY <1>3 DEF IInv, TypeOK, QueueHoldsTheWaiting
  <2>2. Len(patient_queue) \in Nat /\ Len(patient_queue) # 0
    BY <2>1 DEF InQueue, Range
  <2>3. CASE Posting # {}
    BY <2>3 DEF Posting, SomebodyCanStep, PatientCanStep
  <2>4. CASE Taking # {}
    <3>1. PICK d \in Doctor : pc_doctor[d] \in {"front", "assign"}
      BY <2>4 DEF Taking
    <3>2. DoctorCanStep(d)
      BY <3>1 DEF DoctorCanStep
    <3> QED
      BY <3>2 DEF SomebodyCanStep
  <2>5. CASE Posting = {} /\ Taking = {}
    <3>1. Cardinality(Posting) = 0 /\ Cardinality(Taking) = 0
      BY <2>5, FS_EmptySet
    <3>2. sem_patient > 0
      BY <2>2, <3>1 DEF IInv, TypeOK, TokensMatchQueue
    <3>3. 0 \in Doctor
      BY CountsAssumption DEF Doctor
    <3>4. pc_doctor[0] \notin {"new", "done"}
      BY <3>3 DEF Staffing
    <3>5. DoctorCanStep(0)
      BY <3>2, <3>3, <3>4 DEF DoctorCanStep, IInv, TypeOK
    <3> QED
      BY <3>3, <3>5 DEF SomebodyCanStep
  <2> QED
    BY <2>3, <2>4, <2>5
<1>4. pc_patient[p] = "blocked" => PState[p].state \in {"Waiting", "BeingTreated"}
  BY DEF IInv, PatientLife
<1> QED
  BY <1>1, <1>2, <1>3, <1>4

(* Before main's report somebody can always take a step, and need not wait  *)
(* for a spurious wakeup: no cycle of threads waits for two mutexes, the    *)
(* semaphore, a condition variable, and the ends of one another.            *)
THEOREM NeverDeadlocked == Spec => [](main_pc # "report" => SomebodyCanStep)
<1>1. ASSUME IInv, Staffing, main_pc # "report" PROVE SomebodyCanStep
  <2>1. CASE main_pc \in {"create_patients", "create_doctors", "cancel_doctor"}
    BY <2>1 DEF SomebodyCanStep, MainCanStep
  <2>2. CASE main_pc = "join_patients"
    <3>1. main_i \in Patient
      BY <1>1, <2>2, CountsAssumption DEF IInv, TypeOK, MainLife, Patient
    <3> QED
      BY <1>1, <2>2, <3>1, PatientsAreServed DEF SomebodyCanStep, MainCanStep
  <2>3. CASE main_pc = "join_doctor"
    <3>1. main_i \in Doctor /\ main_i \in cancelled
      BY <1>1, <2>3, CountsAssumption DEF IInv, TypeOK, MainLife, Doctor, Staffing
    <3>2. pc_doctor[main_i] \notin {"front", "assign", "new"}
      BY <1>1, <2>3, <3>1, NobodyLeft DEF Staffing
    <3>3. DoctorCanStep(main_i) \/ MainCanStep
      BY <1>1, <2>3, <3>1, <3>2 DEF DoctorCanStep, MainCanStep, IInv, TypeOK
    <3> QED
      BY <3>1, <3>3 DEF SomebodyCanStep
  <2> QED
    BY <1>1, <2>1, <2>2, <2>3 DEF IInv, TypeOK
<1>2. IInv /\ Staffing => (main_pc # "report" => SomebodyCanStep)
  BY <1>1
<1> QED
  BY <1>2, Staffed, PTL DEF Spec

(* The numbers of steps are naturals.                                       *)
LEMMA UnassignedCounts ==
  ASSUME TypeOK
  PROVE  IsFiniteSet(Unassigned) /\ Cardinality(Unassigned) \in Nat
<1>1. IsFiniteSet(Patient)
  BY FS_Interval, CountsAssumption DEF Patient
<1>2. Unassigned \subseteq Patient
  BY DEF Unassigned
<1> QED
  BY <1>1, <1>2, FS_Subset, FS_CardinalityType

LEMMA StepTable ==
  ASSUME NEW state
  PROVE  /\ StepsFrom("new", state) = 11 /\ StepsFrom("ticket", state) = 10
         /\ StepsFrom("take", state) = 9 /\ StepsFrom("enqueue", state) = 8
         /\ StepsFrom("push", state) = 7 /\ StepsFrom("post", state) = 6
         /\ state = "Waiting" => StepsFrom("check", state) = 5
         /\ state # "Waiting" => StepsFrom("check", state) = 2
         /\ StepsFrom("wait", state) = 4 /\ StepsFrom("blocked", state) = 3
         /\ StepsFrom("treatment", state) = 1 /\ StepsFrom("turned_away", state) = 1
         /\ StepsFrom("done", state) = 0
         /\ \A at, other : at # "check" => StepsFrom(at, other) = StepsFrom(at, state)
BY DEF StepsFrom

LEMMA StepsAreCounted ==
  ASSUME IInv
  PROVE  StepCounts
<1>1. ASSUME NEW p \in Patient PROVE PatientSteps(p) \in Nat
  <2>1. pc_patient[p] \in {"new", "ticket", "take", "turned_away", "enqueue",
       "push", "post", "check", "wait", "blocked", "treatment", "done"}
    BY DEF IInv, TypeOK
  <2> QED
    BY <2>1, StepTable DEF PatientSteps
<1>2. \A d \in Doctor : DoctorSteps(d) \in Nat
  BY UnassignedCounts, SMTT(30) DEF IInv, TypeOK, DoctorSteps
<1>3. MainSteps \in Nat
  <2> USE CountsAssumption DEF IInv, TypeOK, MainLife, MainSteps
  <2>1. CASE main_pc = "create_patients"
    BY <2>1
  <2>2. CASE main_pc = "create_doctors"
    BY <2>2
  <2>3. CASE main_pc \in {"join_patients", "report"}
    BY <2>3
  <2>4. CASE main_pc \in {"cancel_doctor", "join_doctor"}
    BY <2>4
  <2> QED
    BY <2>1, <2>2, <2>3, <2>4
<1> QED
  BY <1>1, <1>2, <1>3 DEF StepCounts

(* Who has done nothing has as many steps to take as before, but for a      *)
(* doctor when a patient has been assigned.                                 *)
LEMMA PatientAsBefore ==
  ASSUME IInv, NEW p \in Patient, pc_patient'[p] = pc_patient[p], PState'[p] = PState[p]
  PROVE  PatientSteps(p)' <= PatientSteps(p)
<1>1. PatientSteps(p)' = PatientSteps(p)
  BY DEF PatientSteps
<1> QED
  BY <1>1, StepsAreCounted DEF StepCounts

LEMMA DoctorAsBefore ==
  ASSUME IInv, NEW d \in Doctor, pc_doctor'[d] = pc_doctor[d],
         Unassigned' = Unassigned
  PROVE  DoctorSteps(d)' <= DoctorSteps(d)
<1>1. DoctorSteps(d)' = DoctorSteps(d)
  BY DEF DoctorSteps
<1> QED
  BY <1>1, StepsAreCounted DEF StepCounts

LEMMA MainAsBefore ==
  ASSUME IInv, UNCHANGED <<main_pc, main_i>>
  PROVE  MainSteps' <= MainSteps
<1>1. MainSteps' = MainSteps
  BY DEF MainSteps
<1> QED
  BY <1>1, StepsAreCounted DEF StepCounts

(* Every step of a patient but a spurious wakeup is one of its steps.       *)
LEMMA PatientSpends ==
  ASSUME IInv, NEW p \in Patient, PatientStep(p)
  PROVE  StepSpent
<1>1. /\ UNCHANGED <<patient_doctor, pc_doctor, main_pc, main_i>>
      /\ \A q \in Patient : q # p => pc_patient'[q] = pc_patient[q] /\ PState'[q] = PState[q]
  BY DEF PatientStep, PatientGoes, staff, ward, control, IInv, TypeOK,
         SeeTicket, TakeTicket, SeeNoTicket, LeaveUntreated, BecomeWaiting, JoinQueue,
         InformDoctor, SeeUntreated, CondWait, SeeTreated, Leave
<1>2. PatientSteps(p)' < PatientSteps(p) /\ PatientSteps(p)' <= PatientSteps(p)
  <2> USE StepTable DEF PatientGoes, PatientSteps, IInv, TypeOK, ward
  <2>1. CASE SeeTicket(p)
    BY <2>1 DEF SeeTicket
  <2>2. CASE TakeTicket(p)
    BY <2>2 DEF TakeTicket
  <2>3. CASE SeeNoTicket(p)
    BY <2>3 DEF SeeNoTicket
  <2>4. CASE LeaveUntreated(p)
    BY <2>4 DEF LeaveUntreated
  <2>5. CASE BecomeWaiting(p)
    BY <2>5 DEF BecomeWaiting
  <2>6. CASE JoinQueue(p)
    <3>1. pc_patient[p] = "push" /\ pc_patient'[p] = "post"
      BY <2>6 DEF JoinQueue
    <3> QED
      BY <3>1
  <2>7. CASE InformDoctor(p)
    <3>1. pc_patient[p] = "post" /\ pc_patient'[p] = "check" /\ PState' = PState
      BY <2>7 DEF InformDoctor
    <3>2. StepsFrom("post", PState[p].state) = 6 /\ StepsFrom("check", PState[p].state) \in {2, 5}
      BY StepTable
    <3> QED
      BY <3>1, <3>2
  <2>8. CASE SeeUntreated(p)
    <3>1. PState[p].state = "Waiting" /\ pc_patient[p] = "check" /\ pc_patient'[p] = "wait"
      BY <2>8 DEF SeeUntreated, PatientLife
    <3> QED
      BY <3>1
  <2>9. CASE CondWait(p)
    BY <2>9 DEF CondWait
  <2>10. CASE SeeTreated(p)
    BY <2>10 DEF SeeTreated
  <2>11. CASE Leave(p)
    BY <2>11 DEF Leave
  <2> QED
    BY <2>1, <2>2, <2>3, <2>4, <2>5, <2>6, <2>7, <2>8, <2>9, <2>10, <2>11 DEF PatientStep
<1>3. Unassigned' = Unassigned
  BY <1>1 DEF Unassigned
<1>4. /\ \A q \in Patient : PatientSteps(q)' <= PatientSteps(q)
      /\ \A d \in Doctor : DoctorSteps(d)' <= DoctorSteps(d)
      /\ MainSteps' <= MainSteps
  BY <1>1, <1>2, <1>3, PatientAsBefore, DoctorAsBefore, MainAsBefore
<1> QED
  BY <1>2, <1>4 DEF StepSpent

(* A doctor's loop costs a patient without a doctor, or ends.               *)
LEMMA DoctorSpends ==
  ASSUME IInv, Staffing, NEW d \in Doctor, DoctorStep(d)
  PROVE  StepSpent
<1>0. TypeOK /\ Cardinality(Unassigned) \in Nat
  BY UnassignedCounts DEF IInv
<1>1. /\ UNCHANGED <<main_pc, main_i>>
      /\ \A e \in Doctor : e # d => pc_doctor'[e] = pc_doctor[e]
  BY <1>0 DEF DoctorStep, DoctorGoes, control, TypeOK,
              Rest, SemWait, SeeFront, Assign, Work, Signal, Cancelled
<1>2. CASE Assign(d)
  <2>0. PICK chosen \in Patient : chosen = patient_id[d]
    BY <1>2, TakenWaits DEF Assign, DoctorGoes
  <2>1. PState[chosen].state = "Waiting" /\ patient_doctor[chosen] = None
    BY <1>2, <2>0, TakenWaits DEF Assign, DoctorGoes, IInv, PatientLife
  <2>2. /\ pc_doctor[d] = "assign" /\ pc_doctor' = [pc_doctor EXCEPT ![d] = "work"]
        /\ PState' = [PState EXCEPT ![chosen] = PatientInfo("BeingTreated", d)]
        /\ patient_doctor' = [patient_doctor EXCEPT ![chosen] = d]
        /\ UNCHANGED pc_patient
    BY <1>2, <2>0 DEF Assign, DoctorGoes
  <2>3. Unassigned' = Unassigned \ {chosen} /\ chosen \in Unassigned
    BY <1>0, <2>1, <2>2 DEF Unassigned, TypeOK, Doctor, None
  <2>4. Cardinality(Unassigned') = Cardinality(Unassigned) - 1
    BY <1>0, <2>3, UnassignedCounts, FS_RemoveElement
  <2>5. \A e \in Doctor : e # d => DoctorSteps(e)' <= DoctorSteps(e)
    BY <1>0, <1>1, <2>4, SMTT(30) DEF DoctorSteps, TypeOK
  <2>6. DoctorSteps(d)' < DoctorSteps(d) /\ DoctorSteps(d)' <= DoctorSteps(d)
    BY <1>0, <2>2, <2>4 DEF DoctorSteps, TypeOK
  <2>7. \A p \in Patient : p # chosen => PatientSteps(p)' <= PatientSteps(p)
    BY <1>0, <2>2, PatientAsBefore DEF TypeOK
  <2>8. PatientSteps(chosen)' <= PatientSteps(chosen)
    <3>1. PState'[chosen].state = "BeingTreated" /\ pc_patient'[chosen] = pc_patient[chosen]
      BY <1>0, <2>1, <2>2 DEF PatientInfo, TypeOK
    <3>2. CASE pc_patient[chosen] = "check"
      BY <2>1, <3>1, <3>2, StepTable DEF PatientSteps
    <3>3. CASE pc_patient[chosen] # "check"
      <4>1. PatientSteps(chosen)' = PatientSteps(chosen) /\ PatientSteps(chosen) \in Nat
        BY <2>1, <3>1, <3>3, StepTable, StepsAreCounted DEF PatientSteps, StepCounts
      <4> QED
        BY <4>1
    <3> QED
      BY <3>2, <3>3
  <2> QED
    BY <1>1, <2>5, <2>6, <2>7, <2>8, MainAsBefore DEF StepSpent
<1>3. CASE Signal(d)
  <2>0. PICK called \in Patient : called = patient_id[d]
    BY <1>3 DEF IInv, DoctorLife, Signal, DoctorGoes
  <2>1. /\ pc_doctor[d] = "signal" /\ pc_doctor' = [pc_doctor EXCEPT ![d] = "rest"]
        /\ pc_patient' = [pc_patient EXCEPT ![called] = IF @ = "blocked" THEN "check" ELSE @]
        /\ UNCHANGED <<PState, patient_doctor>>
    BY <1>3, <2>0 DEF Signal, DoctorGoes, ward
  <2>2. patient_doctor[called] # None
    BY <2>0, <2>1 DEF Staffing
  <2>3. PState[called].state # "Waiting"
    BY <2>2 DEF IInv, PatientLife
  <2>4. \A p \in Patient : p # called => PatientSteps(p)' <= PatientSteps(p)
    BY <1>0, <2>1, PatientAsBefore DEF TypeOK
  <2>5. PatientSteps(called)' <= PatientSteps(called)
    <3>1. CASE pc_patient[called] = "blocked"
      <4>1. pc_patient'[called] = "check" /\ PState'[called].state # "Waiting"
        BY <1>0, <2>1, <2>2, <2>3, <3>1 DEF TypeOK
      <4> QED
        BY <3>1, <4>1, StepTable DEF PatientSteps
    <3>2. CASE pc_patient[called] # "blocked"
      BY <1>0, <2>1, <2>2, <3>2, PatientAsBefore DEF TypeOK
    <3> QED
      BY <3>1, <3>2
  <2>6. Unassigned' = Unassigned
    BY <2>1 DEF Unassigned
  <2>7. DoctorSteps(d)' < DoctorSteps(d) /\ DoctorSteps(d)' <= DoctorSteps(d)
    BY <1>0, <2>1, <2>6 DEF DoctorSteps, TypeOK
  <2> QED
    BY <1>1, <2>4, <2>5, <2>6, <2>7, DoctorAsBefore, MainAsBefore DEF StepSpent
<1>4. CASE Rest(d) \/ SemWait(d) \/ SeeFront(d) \/ Work(d) \/ Cancelled(d)
  <2>1. UNCHANGED <<pc_patient, PState, patient_doctor>>
    BY <1>4 DEF Rest, SemWait, SeeFront, Work, Cancelled, ward
  <2>2. Unassigned' = Unassigned
    BY <2>1 DEF Unassigned
  <2>3. DoctorSteps(d)' < DoctorSteps(d) /\ DoctorSteps(d)' <= DoctorSteps(d)
    BY <1>0, <1>4, <2>2, SMTT(30)
       DEF DoctorSteps, TypeOK, DoctorGoes, Rest, SemWait, SeeFront, Work, Cancelled
  <2> QED
    BY <1>1, <2>1, <2>2, <2>3, PatientAsBefore, DoctorAsBefore, MainAsBefore DEF StepSpent
<1> QED
  BY <1>2, <1>3, <1>4 DEF DoctorStep

(* So is every step of main, which turns each of its loops a fixed number of *)
(* times.                                                                    *)
LEMMA MainSpends ==
  ASSUME IInv, MainStep
  PROVE  StepSpent
<1>0. TypeOK /\ MainLife
  BY DEF IInv
<1>1. UNCHANGED <<PState, patient_doctor>> /\ Unassigned' = Unassigned
  BY DEF MainStep, CreatePatient, CreateDoctor, JoinPatient, CancelDoctor, JoinDoctor, ward,
         Unassigned
<1>2. MainSteps' < MainSteps /\ MainSteps' <= MainSteps
  <2> USE <1>0, CountsAssumption DEF LoopTurn, MainSteps, TypeOK, MainLife
  <2>1. CASE CreatePatient
    <3>1. CASE main_i + 1 < patient_count
      BY <2>1, <3>1, SMTT(30) DEF CreatePatient
    <3>2. CASE main_i + 1 = patient_count
      <4>1. MainSteps = patient_count + 1 + 3 * doctor_count
        BY <2>1, <3>2, SMTT(30) DEF CreatePatient
      <4>2. MainSteps' = patient_count + 3 * doctor_count
        BY <2>1, <3>2 DEF CreatePatient
      <4> HIDE DEF MainSteps
      <4> QED
        BY <4>1, <4>2
    <3>3. main_i \in Nat /\ main_i < patient_count /\ patient_count \in Nat
      BY <2>1 DEF CreatePatient
    <3>4. main_i + 1 < patient_count \/ main_i + 1 = patient_count
      BY <3>3
    <3> QED
      BY <3>1, <3>2, <3>4
  <2>2. CASE CreateDoctor
    BY <2>2, SMTT(30) DEF CreateDoctor
  <2>3. CASE JoinPatient
    BY <2>3, SMTT(30) DEF JoinPatient
  <2>4. CASE CancelDoctor
    BY <2>4 DEF CancelDoctor
  <2>5. CASE JoinDoctor
    BY <2>5, SMTT(30) DEF JoinDoctor
  <2> QED
    BY <2>1, <2>2, <2>3, <2>4, <2>5 DEF MainStep
<1>3. \A p \in Patient : PatientSteps(p)' <= PatientSteps(p)
  <2>1. CASE CreatePatient
    <3>1. pc_patient[main_i] = "new" /\ pc_patient' = [pc_patient EXCEPT ![main_i] = "ticket"]
      BY <2>1 DEF CreatePatient, PatientGoes
    <3>2. \A p \in Patient : \/ pc_patient'[p] = pc_patient[p]
                             \/ pc_patient[p] = "new" /\ pc_patient'[p] = "ticket"
      BY <1>0, <3>1 DEF TypeOK
    <3>3. ASSUME NEW p \in Patient, pc_patient[p] = "new", pc_patient'[p] = "ticket"
          PROVE  PatientSteps(p)' <= PatientSteps(p)
      BY <3>3, StepTable DEF PatientSteps
    <3> QED
      BY <1>1, <3>2, <3>3, PatientAsBefore
  <2>2. CASE UNCHANGED pc_patient
    BY <1>1, <2>2, PatientAsBefore
  <2> QED
    BY <2>1, <2>2 DEF MainStep, CreateDoctor, JoinPatient, CancelDoctor, JoinDoctor
<1>4. \A d \in Doctor : DoctorSteps(d)' <= DoctorSteps(d)
  <2>1. CASE CreateDoctor
    <3>1. pc_doctor[main_i] = "new" /\ pc_doctor' = [pc_doctor EXCEPT ![main_i] = "rest"]
      BY <2>1 DEF CreateDoctor, DoctorGoes
    <3>2. \A d \in Doctor : \/ pc_doctor'[d] = pc_doctor[d]
                            \/ pc_doctor[d] = "new" /\ pc_doctor'[d] = "rest"
      BY <1>0, <3>1 DEF TypeOK
    <3>3. Cardinality(Unassigned) \in Nat
      BY <1>0, UnassignedCounts
    <3>4. ASSUME NEW d \in Doctor, pc_doctor[d] = "new", pc_doctor'[d] = "rest"
          PROVE  DoctorSteps(d)' <= DoctorSteps(d)
      BY <1>1, <3>3, <3>4 DEF DoctorSteps
    <3> QED
      BY <1>1, <3>2, <3>4, DoctorAsBefore
  <2>2. CASE UNCHANGED pc_doctor
    BY <1>1, <2>2, DoctorAsBefore
  <2> QED
    BY <2>1, <2>2 DEF MainStep, CreatePatient, JoinPatient, CancelDoctor, JoinDoctor, staff
<1> QED
  BY <1>2, <1>3, <1>4 DEF StepSpent

(* Every step but a spurious wakeup is one of a number of steps that only   *)
(* falls: the doctors, which loop for ever, cannot keep the program going,  *)
(* nor can patients and doctors keep waking one another up.  As it is never *)
(* deadlocked, the program comes to its report if wakeups without cause     *)
(* cease: all of ProgramEnds but the notion of fairness.                    *)
THEOREM StepsRunOut ==
  Spec => /\ []StepCounts
          /\ [][(\E p \in Patient : SpuriousWakeup(p)) \/ StepSpent]_vars
<1>1. IInv => StepCounts
  BY StepsAreCounted
<1>2. IInv /\ Staffing /\ [Next]_vars
        => [(\E p \in Patient : SpuriousWakeup(p)) \/ StepSpent]_vars
  BY PatientSpends, DoctorSpends, MainSpends DEF Next, Reported
<1> QED
  BY <1>1, <1>2, Staffed, PTL DEF Spec, SafeSpec
=============================================================================
