---------------------------- MODULE OutputMutex ----------------------------
(***************************************************************************)
(* lab6-memory/src/main.c: threads that allocate an array, print its       *)
(* address and free it, while main cancels and joins one after the other.  *)
(* All print through output(), under mutex_output.                         *)
(*                                                                         *)
(* A cancellation is deferred to the next cancellation point.  The write   *)
(* in output() is the only one a thread comes to, and it comes to it with  *)
(* the mutex locked; locking is not one.                                   *)
(***************************************************************************)
EXTENDS PrinterState

Caller == Thread \union {Main}
None == -1

VARIABLES
  i,              \* main's loop index
  mutex_output,   \* who has locked it
  cancels         \* the threads main has cancelled

vars == <<at, i, mutex_output, array_on_heap, cancels, cancelled>>

\* main has printed four lines by then, when nobody else can.
Init ==
  /\ at = [c \in Caller |-> IF c = Main THEN "create" ELSE "unborn"]
  /\ i = 0 /\ mutex_output = None
  /\ array_on_heap = {Main}
  /\ cancels = {} /\ cancelled = {}

Goes(c, from, to) == at[c] = from /\ at' = [at EXCEPT ![c] = to]

-----------------------------------------------------------------------------
(* Slips of the pen: wrong variants of actions below, part of no            *)
(* specification.  Each makes a property of OutputMutexProperties fail.     *)

CancelledUnlocks(t) ==         \* as if a cleanup handler unlocked the mutex
  /\ Goes(t, "write", "ended") /\ t \in cancels
  /\ cancelled' = cancelled \union {t} /\ mutex_output' = None
  /\ UNCHANGED <<i, array_on_heap, cancels>>

UnlockForgotten(c, next) ==    \* no pthread_mutex_unlock
  /\ Goes(c, "unlock", next)
  /\ UNCHANGED <<i, mutex_output, array_on_heap, cancels, cancelled>>

-----------------------------------------------------------------------------
(* output() *)

Lock(c) ==
  /\ Goes(c, "lock", "write") /\ mutex_output = None /\ mutex_output' = c
  /\ UNCHANGED <<i, array_on_heap, cancels, cancelled>>

Write(c) ==
  /\ Goes(c, "write", "unlock") /\ c \notin cancels
  /\ UNCHANGED <<i, mutex_output, array_on_heap, cancels, cancelled>>

Cancelled(t) ==
  /\ Goes(t, "write", "ended") /\ t \in cancels
  /\ cancelled' = cancelled \union {t}
  /\ UNCHANGED <<i, mutex_output, array_on_heap, cancels>>

Unlock(c, next) ==
  /\ Goes(c, "unlock", next) /\ mutex_output' = None
  /\ UNCHANGED <<i, array_on_heap, cancels, cancelled>>

-----------------------------------------------------------------------------
(* task() *)

Malloc(t) ==
  /\ Goes(t, "malloc", "lock") /\ array_on_heap' = array_on_heap \union {t}
  /\ UNCHANGED <<i, mutex_output, cancels, cancelled>>

\* pthread_cleanup_push and pthread_cleanup_pop(1), with nothing that can be
\* cancelled between them; main frees its array in the same way.
Free(c) ==
  /\ Goes(c, "free", "ended") /\ array_on_heap' = array_on_heap \ {c}
  /\ UNCHANGED <<i, mutex_output, cancels, cancelled>>

-----------------------------------------------------------------------------
(* main() *)

Create ==
  /\ at[Main] = "create"
  /\ IF i < THREAD_COUNT
     THEN at' = [at EXCEPT ![i] = "malloc"] /\ i' = i + 1
     ELSE at' = [at EXCEPT ![Main] = "lock"] /\ i' = 0
  /\ UNCHANGED <<mutex_output, array_on_heap, cancels, cancelled>>

Cancel ==
  /\ i < THREAD_COUNT /\ Goes(Main, "cancel", "join") /\ cancels' = cancels \union {i}
  /\ UNCHANGED <<i, mutex_output, array_on_heap, cancelled>>

\* After the last join main prints once more.
Join ==
  /\ at[i] = "ended" /\ Goes(Main, "join", IF i + 1 < THREAD_COUNT THEN "cancel" ELSE "lock")
  /\ i' = i + 1
  /\ UNCHANGED <<mutex_output, array_on_heap, cancels, cancelled>>

-----------------------------------------------------------------------------

Output(c, next) == Lock(c) \/ Write(c) \/ Unlock(c, next)

ThreadStep(t) == Malloc(t) \/ Output(t, "free") \/ Cancelled(t) \/ Free(t)

MainStep ==
  \/ Create \/ Cancel \/ Join \/ Free(Main)
  \/ Output(Main, IF i = 0 THEN "cancel" ELSE "free")

Next == MainStep \/ \E t \in Thread : ThreadStep(t)

SafeSpec == Init /\ [][Next]_vars

\* The threads are scheduled, and nobody who waits for the mutex is passed over
\* for ever: each caller prints a bounded number of lines.
Fairness == WF_vars(MainStep) /\ \A t \in Thread : WF_vars(ThreadStep(t))

Spec == SafeSpec /\ Fairness
=============================================================================
