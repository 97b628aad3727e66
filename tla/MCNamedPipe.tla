---------------------------- MODULE MCNamedPipe ----------------------------
(* The FIFO for TLC; each .cfg gives the runs and the sizes. *)
EXTENDS NamedPipeProperties
=============================================================================
