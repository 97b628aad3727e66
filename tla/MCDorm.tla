------------------------------- MODULE MCDorm -------------------------------
(* The dorm for TLC; the .cfg gives the numbers. *)
EXTENDS DormProperties
=============================================================================
