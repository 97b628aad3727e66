---------------------------- MODULE PrinterState ----------------------------
(***************************************************************************)
(* What one can see of the threads of lab6-memory/src/main.c, and what     *)
(* they promise about it, however they come to do it: OutputMutex.         *)
(***************************************************************************)
EXTENDS Integers, FiniteSets

CONSTANT THREAD_COUNT

ASSUME ThreadAssumption == THREAD_COUNT \in Nat \ {0}

Thread == 0 .. THREAD_COUNT - 1
Main == THREAD_COUNT

VARIABLES
  at,             \* where main and each thread are
  array_on_heap,  \* who has allocated its array and not freed it
  cancelled       \* the threads that ended by their cancellation

(* main.c:46, 48, 81: a thread that is cancelled dies in the write, with    *)
(* the mutex and before its cleanup handler is pushed.  So one at most      *)
(* dies, with it main never says "Bye", and when main does end nothing is   *)
(* leaked.                                                                  *)
CancelledTakesTheMutex ==
  /\ Cardinality(cancelled) <= 1
  /\ at[Main] = "ended" => cancelled = {} /\ array_on_heap = {}
=============================================================================
