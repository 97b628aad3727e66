----------------------- MODULE OutputMutexProperties -----------------------
(***************************************************************************)
(* What is checked of the threads that print under a mutex, besides        *)
(* CancelledTakesTheMutex of PrinterState.                                 *)
(***************************************************************************)
EXTENDS OutputMutex

(* main.c:25, 78: unless a thread is cancelled in its write main ends: it   *)
(* joins every thread, those cancelled when they no longer noticed too.     *)
EndsUnlessCancelled == <>(at[Main] = "ended" \/ cancelled # {})
=============================================================================
