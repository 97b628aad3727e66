------------------------ MODULE NamedPipeProperties ------------------------
(***************************************************************************)
(* What is checked and proved of the FIFO.                                 *)
(***************************************************************************)
EXTENDS NamedPipe

-----------------------------------------------------------------------------
(* Vocabulary *)

Killed(r) == "killed" \in {pc_parent[r], pc_child[r]}
Over(r) == /\ pc_parent[r] \in {"done", "failed", "broken", "killed"}
           /\ pc_child[r] \in {"done", "failed", "killed"}

\* None of r's writes was short, no other run had a FIFO of r's open with it,
\* and the two ends of r are not open on two FIFOs.
Undisturbed(r) == /\ r \notin cut \union crossed
                  /\ None \in {write_fd[r], read_fd[r]} \/ write_fd[r] = read_fd[r]

-----------------------------------------------------------------------------
(* Safety *)

(* An undisturbed run reads what it wrote: a FIFO that another run created, *)
(* used, or left behind when it was killed holds no old byte.               *)
UndisturbedFrameCheckPasses == \A r \in Run : Undisturbed(r) => AllMatch(received[r])

(* One short write, taken for a whole one, and the reader never leaves its  *)
(* loop: it is out of step and some of its bytes never come, unless it      *)
(* shares the FIFO with another run.                                        *)
ShortWriteStarvesReader ==
  \A r \in cut \ crossed : pc_child[r] \notin {"close", "done"}

(* The path goes neither too late nor too early: when all runs are over it  *)
(* is left only if somebody was killed, by a user or by SIGPIPE, and while  *)
(* a process of a run has yet to open it, or has failed to, it is gone only *)
(* because another run has ended in the meantime and unlinked it.           *)
PathLastsAndGoes ==
  /\ (\A r \in Run : Over(r) /\ ~Killed(r) /\ pc_parent[r] # "broken") => fifo_path = None
  /\ \A r \in Run :
       \/ "failed" \in {pc_parent[r], pc_child[r]}
       \/ "open" \in {pc_parent[r], pc_child[r]} /\ fifo_path = None
       => \E q \in Run \ {r} : pc_parent[q] = "done"

-----------------------------------------------------------------------------
(* Liveness *)

(* An undisturbed run of which nobody is killed ends, and then every frame  *)
(* has arrived; unless its path was unlinked before both its processes had  *)
(* opened it.  Then a process that has not opened it exits, and one that is *)
(* waiting in its open waits until it is killed.                            *)
UndisturbedRunEnds ==
  \A r \in Run :
    /\ pc_parent[r] # "mkfifo"
         ~> (\/ ~Undisturbed(r) \/ Killed(r) \/ "failed" \in {pc_parent[r], pc_child[r]}
             \/ pc_parent[r] = "done" /\ Len(received[r]) = round)
    /\ [](pc_parent[r] = "opening" /\ pc_child[r] = "failed"
            => [](pc_parent[r] \in {"opening", "killed"}))
    /\ [](pc_child[r] = "opening" /\ pc_parent[r] = "failed"
            => [](pc_child[r] \in {"opening", "killed"}))
=============================================================================
