-------------------------------- MODULE Exam --------------------------------
(***************************************************************************)
(* lab1-process/task2: the organizer lets a professor set the task and     *)
(* three tutors check its answer, in processes that share its memory       *)
(* (CLONE_VM); it then forks the students, ends those that have not ended  *)
(* when the time is over, and reaps them all.                              *)
(*                                                                         *)
(* The calculation of a student may take longer than anybody waits.        *)
(* SIGTERM ends a student whether it has installed its handler or not; the *)
(* two differ in what they print only.                                     *)
(***************************************************************************)
EXTENDS Integers

CONSTANTS student_number,
          min_limit, max_limit,     \* the numbers the professor chooses from
          Width                     \* bits of a number; an answer has twice as many

ASSUME ExamAssumption ==
  /\ student_number \in Nat
  /\ min_limit \in Nat /\ max_limit \in Nat /\ Width \in Nat
  /\ min_limit <= max_limit /\ max_limit < 2 ^ Width

Professor == 0
Tutor == 1 .. 3
Student == 4 .. 3 + student_number
Process == {Professor} \union Tutor \union Student

Number == min_limit .. max_limit
uint64(n) == n % (2 ^ Width * 2 ^ Width)
None == -1

VARIABLES
  main_pc,    \* the organizer
  i,          \* the child its present loop is at
  pc,         \* of its children
  task,       \* the numbers of the global task
  answer,     \* the memory that every copy of the task points to
  own_task,   \* the numbers a tutor has copied or a student was called with
  result,     \* what a student has calculated, in its own memory
  sigterm,    \* the students sent a SIGTERM they have not taken
  students    \* the pids in the organizer's vector, which keeps them in order

vars == <<main_pc, i, pc, task, answer, own_task, result, sigterm, students>>
memory == <<task, answer>>
exam == <<own_task, result, sigterm, students>>

NoTask == [number1 |-> 0, number2 |-> 0]

Init ==
  /\ main_pc = "professor" /\ i = Professor
  /\ pc = [p \in Process |-> "unborn"]
  /\ task = NoTask /\ answer = 0
  /\ own_task = [p \in Tutor \union Student |-> NoTask]
  /\ result = [s \in Student |-> None]
  /\ sigterm = {} /\ students = {}

-----------------------------------------------------------------------------
(* solution.cpp: three ways to multiply *)

solution_a(t) == uint64(t.number1 * t.number2)

solution_b(t) ==
  LET sum[n \in 0 .. t.number1] == IF n = 0 THEN 0 ELSE uint64(sum[n - 1] + t.number2)
  IN  sum[t.number1]

\* The inner loop adds one "times" times to what it starts from.
Counted(from, times) ==
  LET count[n \in 0 .. times] == IF n = 0 THEN from ELSE uint64(count[n - 1] + 1)
  IN  count[times]

solution_c(t) ==
  LET rows[n \in 0 .. t.number1] == IF n = 0 THEN 0 ELSE Counted(rows[n - 1], t.number2)
  IN  rows[t.number1]

Solution(method, t) == CASE method = 1 -> solution_a(t)
                         [] method = 2 -> solution_b(t)
                         [] method = 3 -> solution_c(t)

-----------------------------------------------------------------------------

MainGoes(from, to, child) == main_pc = from /\ main_pc' = to /\ i' = child
Goes(p, from, to) == pc[p] = from /\ pc' = [pc EXCEPT ![p] = to]

\* What the organizer does when it is done with child c of a loop that ends with "last".
AfterChild(from, c, last, next, first) ==
  IF c < last THEN MainGoes(from, from, c + 1) ELSE MainGoes(from, next, first)

\* kill(pid, 0) succeeds for every child that is not reaped, ended or not.
Exists(p) == pc[p] \notin {"unborn", "reaped"}

-----------------------------------------------------------------------------
(* Slips of the pen: wrong variants of actions below, part of no            *)
(* specification.  Each makes a property of ExamProperties fail.            *)

WaitForNobody(p) ==            \* no waitpid(prof_pid)
  /\ p = i
  /\ IF p = Professor THEN MainGoes("wait_professor", "tutors", 1)
     ELSE AfterChild("wait_tutors", p, 3, "students", 4)
  /\ UNCHANGED <<pc, memory, exam>>

TerminateTheDead ==            \* if (kill(pid, 0)) kill(pid, SIGTERM)
  /\ AfterChild("terminate", i, 3 + student_number, "reap", i)
  /\ sigterm' = IF Exists(i) THEN sigterm ELSE sigterm \union {i}
  /\ UNCHANGED <<pc, memory, own_task, result, students>>

-----------------------------------------------------------------------------
(* main() of the organizer: the professor and the tutors *)

CloneProfessor ==
  /\ MainGoes("professor", "wait_professor", Professor)
  /\ Goes(Professor, "unborn", "number1")
  /\ UNCHANGED <<memory, exam>>

\* A clone() that fails is noticed when all three tutors were tried.
CloneTutor ==
  /\ main_pc = "tutors" /\ pc' \in {pc, [pc EXCEPT ![i] = "copy"]}
  /\ IF i < 3 THEN MainGoes("tutors", "tutors", i + 1)
     ELSE MainGoes("tutors", IF \A t \in Tutor : pc'[t] # "unborn"
                                THEN "wait_tutors" ELSE "aborted", 1)
  /\ UNCHANGED <<memory, exam>>

\* waitpid(prof_pid), waitpid(ta1_pid) and so on.
WaitFor(p) ==
  /\ p = i /\ Goes(p, "exited", "reaped")
  /\ IF p = Professor THEN MainGoes("wait_professor", "tutors", 1)
     ELSE AfterChild("wait_tutors", p, 3, IF student_number = 0 THEN "sleep" ELSE "students", 4)
  /\ UNCHANGED <<memory, exam>>

\* clone or fork fails: abort().
Abort ==
  /\ main_pc \in {"professor", "students"} /\ MainGoes(main_pc, "aborted", i)
  /\ UNCHANGED <<pc, memory, exam>>

-----------------------------------------------------------------------------
(* professor_func() and ta_func() *)

SetNumber(field, to) ==
  /\ Goes(Professor, field, to)
  /\ \E n \in Number : task' = [task EXCEPT ![field] = n]
  /\ UNCHANGED <<main_pc, i, answer, exam>>

ProfessorAnswers ==
  /\ Goes(Professor, "answer", "exited")
  /\ answer' = solution_a(task)
  /\ UNCHANGED <<main_pc, i, task, exam>>

CopyTask(t) ==
  /\ Goes(t, "copy", "answer")
  /\ own_task' = [own_task EXCEPT ![t] = task]
  /\ UNCHANGED <<main_pc, i, memory, result, sigterm, students>>

\* The copy points to the same answer as the task it was copied from.
TutorAnswers(t) ==
  /\ Goes(t, "answer", "exited")
  /\ answer' = Solution(t, own_task[t])
  /\ UNCHANGED <<main_pc, i, task, exam>>

-----------------------------------------------------------------------------
(* main() of the organizer: the students *)

\* The arguments are taken from the student's own copy of the organizer's memory.
ForkStudent ==
  /\ AfterChild("students", i, 3 + student_number, "sleep", i)
  /\ Goes(i, "unborn", "exec")
  /\ own_task' = [own_task EXCEPT ![i] = task]
  /\ students' = students \union {i}
  /\ UNCHANGED <<memory, result, sigterm>>

Sleep ==
  /\ MainGoes("sleep", IF student_number = 0 THEN "reap" ELSE "terminate", 4)
  /\ UNCHANGED <<pc, memory, exam>>

\* SIGTERM does nothing to a student that has ended.
Terminate ==
  /\ AfterChild("terminate", i, 3 + student_number, "reap", i)
  /\ sigterm' = IF Exists(i) THEN sigterm \union {i} ELSE sigterm
  /\ UNCHANGED <<pc, memory, own_task, result, students>>

\* waitpid(-1): any child that has ended; with no child left it fails.
Reap ==
  /\ students # {}
  /\ \/ \E p \in Process :
          /\ Goes(p, "exited", "reaped") /\ MainGoes("reap", "reap", i)
          /\ students' = students \ {p}
     \/ /\ \A p \in Process : ~Exists(p)
        /\ MainGoes("reap", "ended", i)
        /\ UNCHANGED <<pc, students>>
  /\ UNCHANGED <<memory, own_task, result, sigterm>>

Finish ==
  /\ students = {} /\ MainGoes("reap", "ended", i)
  /\ UNCHANGED <<pc, memory, exam>>

-----------------------------------------------------------------------------
(* main() of a student *)

\* execl may fail: then the child aborts.
Exec(s) ==
  /\ Goes(s, "exec", "setup") \/ Goes(s, "exec", "exited")
  /\ UNCHANGED <<main_pc, i, memory, exam>>

InstallHandler(s) ==
  /\ Goes(s, "setup", "calculating")
  /\ UNCHANGED <<main_pc, i, memory, exam>>

\* solution_id is random.
Calculate(s) ==
  /\ Goes(s, "calculating", "print")
  /\ \E solution_id \in 1 .. 3 :
       result' = [result EXCEPT ![s] = Solution(solution_id, own_task[s])]
  /\ UNCHANGED <<main_pc, i, memory, own_task, sigterm, students>>

PrintResult(s) ==
  /\ Goes(s, "print", "exited")
  /\ UNCHANGED <<main_pc, i, memory, exam>>

\* sigterm_handler() or the default action.
TakeSigterm(s) ==
  /\ s \in sigterm /\ pc[s] \notin {"unborn", "exited", "reaped"}
  /\ pc' = [pc EXCEPT ![s] = "exited"] /\ sigterm' = sigterm \ {s}
  /\ UNCHANGED <<main_pc, i, memory, own_task, result, students>>

-----------------------------------------------------------------------------

MainStep == \/ CloneProfessor \/ WaitFor(i) \/ CloneTutor
            \/ ForkStudent \/ Sleep \/ Terminate \/ Reap \/ Finish
ProfessorStep == \/ SetNumber("number1", "number2") \/ SetNumber("number2", "answer")
                 \/ ProfessorAnswers
TutorStep(t) == CopyTask(t) \/ TutorAnswers(t)
StudentStep(s) == Exec(s) \/ InstallHandler(s) \/ PrintResult(s)

Next == \/ MainStep \/ Abort \/ ProfessorStep
        \/ \E t \in Tutor : TutorStep(t)
        \/ \E s \in Student : StudentStep(s) \/ Calculate(s) \/ TakeSigterm(s)

SafeSpec == Init /\ [][Next]_vars

\* All processes are scheduled; no calculation of a student need end.
Fairness == /\ WF_vars(MainStep) /\ WF_vars(ProfessorStep)
            /\ \A t \in Tutor : WF_vars(TutorStep(t))
            /\ \A s \in Student : WF_vars(StudentStep(s)) /\ WF_vars(TakeSigterm(s))

Spec == SafeSpec /\ Fairness
=============================================================================
