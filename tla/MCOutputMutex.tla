--------------------------- MODULE MCOutputMutex ---------------------------
(* The threads that print under a mutex for TLC; the .cfg says how many. *)
EXTENDS OutputMutexProperties
=============================================================================
