-------------------------------- MODULE Dorm --------------------------------
(***************************************************************************)
(* lab2-thread/task2: students in a dorm room.  Half of them study first;  *)
(* then each looks around until nobody studies, and goes to sleep.  One    *)
(* that had to look too often complains and leaves by pthread_exit.  The   *)
(* other half may be tempted to study when somebody else does.             *)
(*                                                                         *)
(* Every use of active_count is the only access in its critical section,   *)
(* so a section is one step and mutex_state needs no variable.  The random *)
(* numbers are choices.                                                    *)
(***************************************************************************)
EXTENDS Integers, FiniteSets

CONSTANTS person_number, wait_limit

ASSUME DormAssumption == person_number \in Nat \ {0} /\ wait_limit \in Nat

Student == 0 .. person_number - 1
is_studier(id) == id < person_number \div 2

VARIABLES
  pc,              \* of student_routine, of each student
  waiting_count,
  active_count,    \* a size_t, by how many study; below 0 it would wrap
  created, joined, \* how many students main has created, joined
  light            \* whether main has closed the light

vars == <<pc, waiting_count, active_count, created, joined, light>>
main_vars == <<created, joined, light>>

Init ==
  /\ pc = [id \in Student |-> "unborn"]
  /\ waiting_count = [id \in Student |-> 0]
  /\ active_count = 0
  /\ created = 0 /\ joined = 0 /\ light = "on"

StudentGoes(id, from, to) == pc[id] = from /\ pc' = [pc EXCEPT ![id] = to]

-----------------------------------------------------------------------------
(* Slips of the pen: wrong variants of actions below, part of no            *)
(* specification.  Each makes a property of DormProperties fail.            *)

StopUncounted(id) ==           \* no active_count--
  /\ StudentGoes(id, "studying", "look")
  /\ UNCHANGED <<waiting_count, active_count, main_vars>>

KeepWaitingUncounted(id) ==    \* no ++waiting_count
  /\ active_count # 0
  /\ StudentGoes(id, "look", IF is_studier(id) THEN "look" ELSE "decide")
  /\ UNCHANGED <<waiting_count, active_count, main_vars>>

-----------------------------------------------------------------------------
(* study() *)

StartStudying(id) ==
  /\ StudentGoes(id, "start", "studying")
  /\ active_count' = active_count + 1
  /\ UNCHANGED <<waiting_count, main_vars>>

StopStudying(id) ==
  /\ StudentGoes(id, "studying", "look")
  /\ active_count' = active_count - 1
  /\ UNCHANGED <<waiting_count, main_vars>>

-----------------------------------------------------------------------------
(* The loop of student_routine() *)

\* is_everyone_sleeping(): the student leaves the loop.
FallAsleep(id) ==
  /\ active_count = 0
  /\ StudentGoes(id, "look", "asleep")
  /\ UNCHANGED <<waiting_count, active_count, main_vars>>

\* Somebody studies; the student has waited long enough, or goes on waiting.
KeepWaiting(id) ==
  /\ active_count # 0
  /\ waiting_count' = [waiting_count EXCEPT ![id] = @ + 1]
  /\ StudentGoes(id, "look", IF waiting_count'[id] > wait_limit THEN "complained"
                             ELSE IF is_studier(id) THEN "look" ELSE "decide")
  /\ UNCHANGED <<active_count, main_vars>>

\* check_and_decide(): only company can persuade a student, and need not.
Decide(id) ==
  /\ \/ active_count > 0 /\ StudentGoes(id, "decide", "start")
     \/ StudentGoes(id, "decide", "look")
  /\ UNCHANGED <<waiting_count, active_count, main_vars>>

-----------------------------------------------------------------------------
(* main() *)

CreateStudent ==
  /\ created < person_number
  /\ StudentGoes(created, "unborn", IF is_studier(created) THEN "start" ELSE "look")
  /\ created' = created + 1
  /\ UNCHANGED <<waiting_count, active_count, joined, light>>

JoinStudent ==
  /\ created = person_number /\ joined < person_number
  /\ pc[joined] \in {"asleep", "complained"}
  /\ joined' = joined + 1
  /\ UNCHANGED <<pc, waiting_count, active_count, created, light>>

CloseLight ==
  /\ joined = person_number /\ light = "on"
  /\ light' = "closed"
  /\ UNCHANGED <<pc, waiting_count, active_count, created, joined>>

-----------------------------------------------------------------------------

StudentStep(id) == \/ StartStudying(id) \/ StopStudying(id)
                   \/ FallAsleep(id) \/ KeepWaiting(id) \/ Decide(id)
MainStep == CreateStudent \/ JoinStudent \/ CloseLight

Next == MainStep \/ \E id \in Student : StudentStep(id)

SafeSpec == Init /\ [][Next]_vars

\* Every thread is scheduled.
Fairness == WF_vars(MainStep) /\ \A id \in Student : WF_vars(StudentStep(id))

Spec == SafeSpec /\ Fairness
=============================================================================
