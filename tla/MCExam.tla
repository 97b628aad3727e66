------------------------------- MODULE MCExam -------------------------------
(* The exam for TLC; the .cfg gives the number of students and the numbers. *)
EXTENDS ExamProperties
=============================================================================
