--------------------------- MODULE ExamProperties ---------------------------
(***************************************************************************)
(* What is checked and proved of the exam.                                 *)
(***************************************************************************)
EXTENDS Exam

(* When the organizer has waited for the professor the numbers and the      *)
(* answer stay as they are, though three tutors write the answer, in the    *)
(* same memory, by three methods; it is the product in full, and so is the  *)
(* result of every student, whichever method it chose.                      *)
AnswerStands ==
  main_pc \notin {"professor", "wait_professor", "aborted"} =>
    /\ task.number1 \in Number /\ task.number2 \in Number
    /\ answer = task.number1 * task.number2
    /\ \A s \in Student : result[s] \in {None, answer}

(* Unless a process could not be made, the organizer ends although students *)
(* may calculate for ever, and then every child has been reaped: SIGTERM    *)
(* and a student's own end may come in any order.                           *)
ExamEnds ==
  <>(\/ main_pc = "aborted"
     \/ main_pc = "ended" /\ \A p \in Process : pc[p] = "reaped")
=============================================================================
