---------------------------- MODULE MessageQueue ----------------------------
(***************************************************************************)
(* lab3-ipc/task1-message: the parent sends each frame as one message of a *)
(* private System V queue, the child receives it.                          *)
(*                                                                         *)
(* msgsnd and msgrcv move a whole message and wait while the queue is full *)
(* or empty.  A message queue, unlike a pipe, has no ends: a process that  *)
(* waits is not told that the other one is gone.  Either process may be    *)
(* killed by the user, who takes this for the end of the program.          *)
(***************************************************************************)
EXTENDS Frames

CONSTANT MaxMessages   \* how many messages the queue holds (msg_qbytes / message_size)

ASSUME QueueAssumption == MaxMessages \in Nat \ {0}

VARIABLES
  pc_parent,    \* main and writer()
  pc_child,     \* main and reader()
  i_writer,     \* the writer's loop index
  received,     \* the frames read; their number is the reader's loop index
  msgid,        \* the messages in the queue
  removed       \* whether the queue is gone (IPC_RMID)

vars == <<pc_parent, pc_child, i_writer, received, msgid, removed>>

Init == /\ pc_parent = "fork" /\ pc_child = "unborn"
        /\ i_writer = 0 /\ received = <<>>
        /\ msgid = <<>> /\ removed = FALSE

-----------------------------------------------------------------------------
(* Slips of the pen: wrong variants of actions below, part of no            *)
(* specification.  Each makes a property of MessageQueueProperties fail.    *)

WaitForNobody ==               \* no wait(nullptr)
  /\ pc_parent = "wait" /\ pc_parent' = "rmid"
  /\ UNCHANGED <<pc_child, i_writer, received, msgid, removed>>

SendSeed ==                    \* generate(generating_seed)
  /\ pc_parent = "send"
  /\ Len(msgid) < MaxMessages
  /\ msgid' = Append(msgid, Generated(0))
  /\ i_writer' = i_writer + 1
  /\ pc_parent' = IF i_writer' = round THEN "wait" ELSE "send"
  /\ UNCHANGED <<pc_child, received, removed>>

SendOnceMore ==                \* i <= round in writer()
  /\ pc_parent = "send"
  /\ Len(msgid) < MaxMessages
  /\ msgid' = Append(msgid, Generated(i_writer))
  /\ i_writer' = i_writer + 1
  /\ pc_parent' = IF i_writer = round THEN "wait" ELSE "send"
  /\ UNCHANGED <<pc_child, received, removed>>

ReceiveOnceMore ==             \* i <= round in reader()
  /\ pc_child = "receive"
  /\ ~removed /\ msgid # <<>>
  /\ received' = Append(received, Head(msgid)) /\ msgid' = Tail(msgid)
  /\ pc_child' = IF Len(received) = round THEN "done" ELSE "receive"
  /\ UNCHANGED <<pc_parent, i_writer, removed>>

-----------------------------------------------------------------------------

Fork == /\ pc_parent = "fork" /\ pc_parent' = "send" /\ pc_child' = "receive"
        /\ UNCHANGED <<i_writer, received, msgid, removed>>

\* One round of writer(): generate and msgsnd.
Send == /\ pc_parent = "send"
        /\ Len(msgid) < MaxMessages
        /\ msgid' = Append(msgid, Generated(i_writer))
        /\ i_writer' = i_writer + 1
        /\ pc_parent' = IF i_writer' = round THEN "wait" ELSE "send"
        /\ UNCHANGED <<pc_child, received, removed>>

\* One round of reader(): msgrcv.
Receive == /\ pc_child = "receive"
           /\ ~removed /\ msgid # <<>>
           /\ received' = Append(received, Head(msgid)) /\ msgid' = Tail(msgid)
           /\ pc_child' = IF Len(received') = round THEN "done" ELSE "receive"
           /\ UNCHANGED <<pc_parent, i_writer, removed>>

\* msgrcv fails because the queue is gone; reader() exits.
ReceiveFails == /\ pc_child = "receive" /\ removed
                /\ pc_child' = "failed"
                /\ UNCHANGED <<pc_parent, i_writer, received, msgid, removed>>

Wait == /\ pc_parent = "wait" /\ pc_child \in {"done", "failed", "killed"}
        /\ pc_parent' = "rmid"
        /\ UNCHANGED <<pc_child, i_writer, received, msgid, removed>>

\* Only the parent removes the queue, and only here.
Remove == /\ pc_parent = "rmid" /\ pc_parent' = "done"
          /\ msgid' = <<>> /\ removed' = TRUE
          /\ UNCHANGED <<pc_child, i_writer, received>>

KillParent == /\ pc_parent # "done" /\ pc_parent' = "killed"
              /\ UNCHANGED <<pc_child, i_writer, received, msgid, removed>>

KillChild == /\ pc_child = "receive" /\ pc_child' = "killed"
             /\ UNCHANGED <<pc_parent, i_writer, received, msgid, removed>>

\* The user removes the queue of a killed parent (ipcrm).
CleanUp == /\ pc_parent = "killed" /\ ~removed
           /\ msgid' = <<>> /\ removed' = TRUE
           /\ UNCHANGED <<pc_parent, pc_child, i_writer, received>>

-----------------------------------------------------------------------------

Parent == Fork \/ Send \/ Wait \/ Remove
Child == Receive \/ ReceiveFails

Next == Parent \/ Child \/ KillParent \/ KillChild \/ CleanUp

SafeSpec == Init /\ [][Next]_vars

\* Both processes are scheduled; nobody has to kill them.
Fairness == WF_vars(Parent) /\ WF_vars(Child)

Spec == SafeSpec /\ Fairness
=============================================================================
