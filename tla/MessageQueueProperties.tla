----------------------- MODULE MessageQueueProperties -----------------------
(***************************************************************************)
(* What is checked and proved of the message queue.                        *)
(***************************************************************************)
EXTENDS MessageQueue

Killed == "killed" \in {pc_parent, pc_child}

(* Unless the parent was killed, the reader never finds its queue gone     *)
(* under it, and no queue outlives the program (a queue is in no file       *)
(* system and stays until somebody removes it).                             *)
QueueOutlivesItsUsers ==
  pc_parent # "killed" =>
    /\ pc_child # "failed"
    /\ removed <=> pc_parent = "done"
    /\ removed => pc_child \in {"done", "killed"}

(* Unless somebody is killed, every frame arrives and both processes end.   *)
RunEnds == <>(Killed \/ (pc_parent = "done" /\ pc_child = "done" /\ Len(received) = round))

(* A writer whose reader was killed ends by itself exactly if all it still  *)
(* has to send fits into the queue; otherwise it waits until it is killed.  *)
(* A reader whose writer was killed ends by itself exactly if all has been  *)
(* sent or the user removes the queue; otherwise nobody ever removes it and *)
(* the reader waits until it is killed.                                     *)
SurvivorEndsIffItCan ==
  /\ [](pc_child = "killed" =>
          IF round - Len(received) <= MaxMessages
          THEN <>(pc_parent \in {"done", "killed"})
          ELSE [](pc_parent # "done"))
  /\ [](pc_parent = "killed" /\ pc_child = "receive" =>
          IF i_writer = round \/ removed
          THEN <>(pc_child # "receive")
          ELSE [](pc_child \in {"receive", "killed"} \/ (pc_child = "failed" /\ removed)))

Stream == INSTANCE FrameStream WITH
  Round <- round, Frame <- [i \in 0 .. round - 1 |-> Generated(i)],
  Capacity <- MaxMessages, sent <- i_writer, received <- received

(* The program implements the frame stream: whole frames in order, at most  *)
(* as many under way as the queue holds; and killing never breaks that.     *)
ImplementsStream == Stream!SafeSpec
=============================================================================
