----------------------------- MODULE MCHospital -----------------------------
(* The hospital for TLC; each .cfg gives the three counts. *)
EXTENDS HospitalProperties
=============================================================================
