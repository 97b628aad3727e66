---------------------------- MODULE SharedFrame ----------------------------
(***************************************************************************)
(* lab3-ipc/task2-shared_memory: the parent writes each frame into shared  *)
(* memory and the child copies it out, in turns granted by two semaphores. *)
(*                                                                         *)
(* Run is the set of executions of the program on the machine.             *)
(* The key is IPC_PRIVATE, which is 0.  The shared memory and the "write"  *)
(* semaphore are therefore a run's own; but the "read" semaphore is got    *)
(* with key + 1, which is the ordinary key 1, the same for all runs.  A    *)
(* semaphore is named here by the run that created it.                     *)
(*                                                                         *)
(* The frame is written and copied one byte at a time, in any order.  A P  *)
(* that has to wait may be interrupted (semop is never restarted once the  *)
(* process was stopped and continued); the process then exits.  A run that *)
(* fails leaves its semaphores behind, for a later run to find with key 1. *)
(*                                                                         *)
(* "crossed" is history: the runs that used a semaphore at the same time.  *)
(***************************************************************************)
EXTENDS Frames, FiniteSets

CONSTANT Run

Removed == -1        \* the value of a semaphore after IPC_RMID
None == "none"

ASSUME RunAssumption == None \notin Run

VARIABLES
  pc_writer, i_writer,    \* main and writer(), the parent, and its loop index
  pc_reader, i_reader,    \* reader(), the child, and its loop index
  todo_writer,            \* positions of the frame still to write
  todo_reader,            \* positions of the frame still to copy
  shared_frame, local_frame,
  received,               \* every local_frame the reader has finished copying
  write_sem,              \* the value of each run's own semaphore
  read_sem,               \* the value of each semaphore created with key 1
  read_semid,             \* whose semaphore a run uses for reading
  keyed,                  \* whose semaphore has key 1 now
  crossed                 \* the runs that had a read semaphore with another

writing == <<pc_writer, i_writer, todo_writer, shared_frame>>
reading == <<pc_reader, i_reader, todo_reader, local_frame, received>>
keys == <<read_semid, keyed, crossed>>
vars == <<writing, reading, write_sem, read_sem, keys>>

Init ==
  /\ pc_writer = [r \in Run |-> "semget"]
  /\ i_writer = [r \in Run |-> 0]
  /\ pc_reader = [r \in Run |-> "unborn"]
  /\ i_reader = [r \in Run |-> 0]
  /\ todo_writer = [r \in Run |-> {}]
  /\ todo_reader = [r \in Run |-> {}]
  /\ shared_frame = [r \in Run |-> Zeroed]
  /\ local_frame = [r \in Run |-> Zeroed]
  /\ received = [r \in Run |-> <<>>]
  /\ write_sem = [r \in Run |-> 0]
  /\ read_sem = [r \in Run |-> 0]
  /\ read_semid = [r \in Run |-> None]
  /\ keyed = None
  /\ crossed = {}

WriterGoes(r, from, to) == /\ pc_writer[r] = from
                           /\ pc_writer' = [pc_writer EXCEPT ![r] = to]

ReaderGoes(r, from, to) == /\ pc_reader[r] = from
                           /\ pc_reader' = [pc_reader EXCEPT ![r] = to]

\* No process of r is left.
Over(r) == pc_writer[r] \in {"done", "failed"} /\ pc_reader[r] \in {"unborn", "done", "failed"}

\* The value of the semaphore r uses for reading.
ReadSem(r) == read_sem[read_semid[r]]

\* sem_p and sem_v on a semaphore that is one of a family; the same for the value.
P(sem, s) == sem[s] > 0 /\ sem' = [sem EXCEPT ![s] = @ - 1]
V(sem, s) == sem[s] # Removed /\ sem' = [sem EXCEPT ![s] = @ + 1]

-----------------------------------------------------------------------------
(* Slips of the pen: wrong variants of actions below, part of no            *)
(* specification.  Each makes a property of SharedFrameProperties fail.     *)

StartAsFound(r) ==             \* no init_semaphore(read_semid, 0)
  /\ WriterGoes(r, "setval", "p")
  /\ ReadSem(r) # Removed
  /\ ReaderGoes(r, "unborn", "p")
  /\ write_sem' = [write_sem EXCEPT ![r] = 1]
  /\ UNCHANGED <<i_writer, todo_writer, shared_frame,
                 i_reader, todo_reader, local_frame, received, read_sem, keys>>

FillSeed(r) == \E k \in todo_writer[r] :     \* generate(generating_seed)
  /\ WriterGoes(r, "fill", IF todo_writer[r] = {k} THEN "v" ELSE "fill")
  /\ shared_frame' = [shared_frame EXCEPT ![r][k] = Byte(generating_seed)]
  /\ todo_writer' = [todo_writer EXCEPT ![r] = @ \ {k}]
  /\ UNCHANGED <<i_writer, reading, write_sem, read_sem, keys>>

ReaderVRead(r) ==              \* sem_v(read_semid)
  /\ ReaderGoes(r, "v", IF i_reader[r] + 1 = round THEN "done" ELSE "p")
  /\ V(read_sem, read_semid[r])
  /\ received' = [received EXCEPT ![r] = Append(@, local_frame[r])]
  /\ i_reader' = [i_reader EXCEPT ![r] = @ + 1]
  /\ UNCHANGED <<todo_reader, local_frame, writing, write_sem, keys>>

WaitForNobody(r) ==            \* no wait(nullptr)
  /\ WriterGoes(r, "wait", "rmid")
  /\ UNCHANGED <<i_writer, todo_writer, shared_frame, reading, write_sem, read_sem, keys>>

-----------------------------------------------------------------------------
(* main() up to fork, in the parent *)

\* semget: find the semaphore with key 1, which others may use or have left, or
\* create it.
OpenSemaphores(r) ==
  /\ WriterGoes(r, "semget", "setval")
  /\ LET owner == IF keyed = None THEN r ELSE keyed
         users == {q \in Run : read_semid[q] = owner /\ ~Over(q)}
     IN  /\ keyed' = owner /\ read_semid' = [read_semid EXCEPT ![r] = owner]
         /\ crossed' = IF users = {} THEN crossed ELSE crossed \union users \union {r}
  /\ UNCHANGED <<i_writer, todo_writer, shared_frame, reading, write_sem, read_sem>>

\* Both init_semaphore calls, then fork.
Start(r) ==
  /\ WriterGoes(r, "setval", "p")
  /\ ReadSem(r) # Removed
  /\ ReaderGoes(r, "unborn", "p")
  /\ write_sem' = [write_sem EXCEPT ![r] = 1]
  /\ read_sem' = [read_sem EXCEPT ![read_semid[r]] = 0]
  /\ UNCHANGED <<i_writer, todo_writer, shared_frame,
                 i_reader, todo_reader, local_frame, received, keys>>

-----------------------------------------------------------------------------
(* writer() *)

WriterP(r) ==
  /\ WriterGoes(r, "p", "fill")
  /\ P(write_sem, r)
  /\ todo_writer' = [todo_writer EXCEPT ![r] = Position]
  /\ UNCHANGED <<i_writer, shared_frame, reading, read_sem, keys>>

\* One byte of shared_frame->generate(generating_seed + i).
Fill(r) == \E k \in todo_writer[r] :
  /\ WriterGoes(r, "fill", IF todo_writer[r] = {k} THEN "v" ELSE "fill")
  /\ shared_frame' = [shared_frame EXCEPT ![r][k] = Byte(generating_seed + i_writer[r])]
  /\ todo_writer' = [todo_writer EXCEPT ![r] = @ \ {k}]
  /\ UNCHANGED <<i_writer, reading, write_sem, read_sem, keys>>

WriterV(r) ==
  /\ WriterGoes(r, "v", IF i_writer[r] + 1 = round THEN "wait" ELSE "p")
  /\ V(read_sem, read_semid[r])
  /\ i_writer' = [i_writer EXCEPT ![r] = @ + 1]
  /\ UNCHANGED <<todo_writer, shared_frame, reading, write_sem, keys>>

-----------------------------------------------------------------------------
(* reader(), in the child *)

ReaderP(r) ==
  /\ ReaderGoes(r, "p", "copy")
  /\ P(read_sem, read_semid[r])
  /\ todo_reader' = [todo_reader EXCEPT ![r] = Position]
  /\ UNCHANGED <<i_reader, local_frame, received, writing, write_sem, keys>>

\* One byte of *local_frame = *shared_frame.
Copy(r) == \E k \in todo_reader[r] :
  /\ ReaderGoes(r, "copy", IF todo_reader[r] = {k} THEN "v" ELSE "copy")
  /\ local_frame' = [local_frame EXCEPT ![r][k] = shared_frame[r][k]]
  /\ todo_reader' = [todo_reader EXCEPT ![r] = @ \ {k}]
  /\ UNCHANGED <<i_reader, received, writing, write_sem, read_sem, keys>>

ReaderV(r) ==
  /\ ReaderGoes(r, "v", IF i_reader[r] + 1 = round THEN "done" ELSE "p")
  /\ V(write_sem, r)
  /\ received' = [received EXCEPT ![r] = Append(@, local_frame[r])]
  /\ i_reader' = [i_reader EXCEPT ![r] = @ + 1]
  /\ UNCHANGED <<todo_reader, local_frame, writing, read_sem, keys>>

-----------------------------------------------------------------------------
(* main() after the loops: only the parent removes the semaphores *)

Wait(r) ==
  /\ pc_reader[r] \in {"done", "failed"}
  /\ WriterGoes(r, "wait", "rmid")
  /\ UNCHANGED <<i_writer, todo_writer, shared_frame, reading, write_sem, read_sem, keys>>

Remove(r) ==
  /\ WriterGoes(r, "rmid", "done")
  /\ write_sem' = [write_sem EXCEPT ![r] = Removed]
  /\ read_sem' = [read_sem EXCEPT ![read_semid[r]] = Removed]
  /\ keyed' = IF keyed = read_semid[r] THEN None ELSE keyed
  /\ UNCHANGED <<i_writer, todo_writer, shared_frame, reading, read_semid, crossed>>

-----------------------------------------------------------------------------
(* A semaphore call fails and the process exits *)

\* The read semaphore is gone.
WriterFails(r) ==
  /\ WriterGoes(r, "setval", "failed") \/ WriterGoes(r, "v", "failed")
  /\ ReadSem(r) = Removed
  /\ UNCHANGED <<i_writer, todo_writer, shared_frame, reading, write_sem, read_sem, keys>>

ReaderFails(r) ==
  /\ ReaderGoes(r, "p", "failed")
  /\ ReadSem(r) = Removed
  /\ UNCHANGED <<i_reader, todo_reader, local_frame, received, writing,
                 write_sem, read_sem, keys>>

\* A wait is interrupted.
WriterInterrupted(r) ==
  /\ write_sem[r] = 0
  /\ WriterGoes(r, "p", "failed")
  /\ UNCHANGED <<i_writer, todo_writer, shared_frame, reading, write_sem, read_sem, keys>>

ReaderInterrupted(r) ==
  /\ ReaderGoes(r, "p", "failed")
  /\ ReadSem(r) = 0
  /\ UNCHANGED <<i_reader, todo_reader, local_frame, received, writing,
                 write_sem, read_sem, keys>>

-----------------------------------------------------------------------------

WriterStep(r) == \/ OpenSemaphores(r) \/ Start(r) \/ WriterP(r) \/ Fill(r) \/ WriterV(r)
                 \/ Wait(r) \/ Remove(r) \/ WriterFails(r)
ReaderStep(r) == ReaderP(r) \/ Copy(r) \/ ReaderV(r) \/ ReaderFails(r)
Interrupted(r) == WriterInterrupted(r) \/ ReaderInterrupted(r)

Next == \E r \in Run : WriterStep(r) \/ ReaderStep(r) \/ Interrupted(r)

SafeSpec == Init /\ [][Next]_vars

\* Both processes of a run are scheduled; nobody has to start a run or to
\* interrupt its processes.
Fairness ==
  \A r \in Run : /\ WF_vars(pc_writer[r] # "semget" /\ WriterStep(r))
                 /\ WF_vars(ReaderStep(r))

Spec == SafeSpec /\ Fairness
=============================================================================
