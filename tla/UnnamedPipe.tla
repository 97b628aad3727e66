---------------------------- MODULE UnnamedPipe ----------------------------
(***************************************************************************)
(* lab3-ipc/task3-pipe/subtask1-unnamed: the child writes frames that are  *)
(* larger than the pipe, the parent reads them; both continue a transfer   *)
(* that was short.                                                         *)
(*                                                                         *)
(* A write moves bytes into the pipe whenever there is room, and returns   *)
(* when all are moved or, earlier, when the process was stopped and        *)
(* continued.  A read returns what is there.  A pipe that no process can   *)
(* write to any more is at its end of file: read returns 0, reader() tries *)
(* again, for ever, and nothing changes.  A write to a pipe that no        *)
(* process can read from ends the writer (SIGPIPE).  Either process may be *)
(* killed by the user.                                                     *)
(***************************************************************************)
EXTENDS Frames, FiniteSets

CONSTANT PipeSize      \* bytes that the pipe holds

ASSUME PipeAssumption == PipeSize \in Nat \ {0}

VARIABLES
  pc_parent,              \* main and reader()
  pc_child,               \* main and writer()
  read_end, write_end,    \* the processes that have pipe_fd[0], pipe_fd[1] open
  pipe,                   \* the bytes in the pipe, oldest first
  i_writer, ptr_writer,   \* writer(): i, and ptr - begin
  moved,                  \* the bytes that the current write has moved
  ptr_reader,             \* reader(): ptr - begin
  local_frame,
  received                \* the frames read; their number is the reader's i

ends == <<read_end, write_end>>
writing == <<i_writer, ptr_writer, moved>>
reading == <<ptr_reader, local_frame, received>>
vars == <<pc_parent, pc_child, ends, pipe, writing, reading>>

Init ==
  /\ pc_parent = "fork" /\ pc_child = "unborn"
  /\ read_end = {"parent"} /\ write_end = {"parent"} /\ pipe = <<>>
  /\ i_writer = 0 /\ ptr_writer = 0 /\ moved = 0
  /\ ptr_reader = 0 /\ local_frame = Zeroed /\ received = <<>>

ParentGoes(from, to) == pc_parent = from /\ pc_parent' = to
ChildGoes(from, to) == pc_child = from /\ pc_child' = to

Least(a, b) == IF a < b THEN a ELSE b

-----------------------------------------------------------------------------
(* Slips of the pen: wrong variants of actions below, part of no            *)
(* specification.  Each makes a property of UnnamedPipeProperties fail.     *)

KeepWriteEnd ==                \* no close(pipe_fd[1]) in the parent
  /\ ParentGoes("close", "read")
  /\ UNCHANGED <<pc_child, ends, pipe, writing, reading>>

KeepReadEnd ==                 \* no close(pipe_fd[0]) in the child
  /\ ChildGoes("close", "write")
  /\ UNCHANGED <<pc_parent, ends, pipe, writing, reading>>

WriteReturnsAll ==             \* ptr += end - ptr
  /\ moved > 0
  /\ ptr_writer' = 0 /\ i_writer' = i_writer + 1
  /\ ChildGoes("write", IF i_writer' < round THEN "write" ELSE "close_write")
  /\ moved' = 0
  /\ UNCHANGED <<pc_parent, ends, pipe, reading>>

ReadToBegin ==                 \* read(read_fd, begin, end - ptr)
  /\ pc_parent = "read" /\ pipe # <<>>
  /\ LET n == Least(Len(pipe), message_size - ptr_reader)
         frame == Overlaid(local_frame, 0, SubSeq(pipe, 1, n))
     IN  /\ pipe' = SubSeq(pipe, n + 1, Len(pipe))
         /\ local_frame' = frame
         /\ IF ptr_reader + n < message_size
            THEN /\ ptr_reader' = ptr_reader + n
                 /\ UNCHANGED <<pc_parent, received>>
            ELSE /\ ptr_reader' = 0
                 /\ received' = Append(received, frame)
                 /\ pc_parent' = IF Len(received') < round THEN "read" ELSE "close_read"
  /\ UNCHANGED <<pc_child, ends, writing>>

-----------------------------------------------------------------------------
(* main() up to the loops: both processes close the end they do not use *)

Fork ==
  /\ ParentGoes("fork", "close")
  /\ ChildGoes("unborn", "close")
  /\ read_end' = {"parent", "child"} /\ write_end' = {"parent", "child"}
  /\ UNCHANGED <<pipe, writing, reading>>

CloseWriteEnd ==
  /\ ParentGoes("close", "read")
  /\ write_end' = write_end \ {"parent"}
  /\ UNCHANGED <<pc_child, read_end, pipe, writing, reading>>

CloseReadEnd ==
  /\ ChildGoes("close", "write")
  /\ read_end' = read_end \ {"child"}
  /\ UNCHANGED <<pc_parent, write_end, pipe, writing, reading>>

-----------------------------------------------------------------------------
(* writer(), in the child *)

\* The kernel moves n more bytes of write(write_fd, ptr, end - ptr).
Transfer ==
  /\ pc_child = "write" /\ read_end # {}
  /\ \E n \in 1 .. Least(PipeSize - Len(pipe), message_size - ptr_writer - moved) :
       /\ pipe' = pipe \o Chunk(i_writer, n)
       /\ moved' = moved + n
  /\ UNCHANGED <<pc_parent, pc_child, ends, i_writer, ptr_writer, reading>>

\* write returns moved, all it was asked for or less; ptr += result.
WriteReturns ==
  /\ moved > 0
  /\ IF ptr_writer + moved < message_size
     THEN ptr_writer' = ptr_writer + moved /\ UNCHANGED i_writer
     ELSE ptr_writer' = 0 /\ i_writer' = i_writer + 1
  /\ ChildGoes("write", IF i_writer' < round THEN "write" ELSE "close_write")
  /\ moved' = 0
  /\ UNCHANGED <<pc_parent, ends, pipe, reading>>

\* SIGPIPE, when a write has more to move.
BrokenPipe ==
  /\ read_end = {} /\ ptr_writer + moved < message_size
  /\ ChildGoes("write", "broken")
  /\ write_end' = write_end \ {"child"}
  /\ UNCHANGED <<pc_parent, read_end, pipe, writing, reading>>

WriterDone ==
  /\ ChildGoes("close_write", "done")
  /\ write_end' = write_end \ {"child"}
  /\ UNCHANGED <<pc_parent, read_end, pipe, writing, reading>>

-----------------------------------------------------------------------------
(* reader(), in the parent *)

Read ==
  /\ pc_parent = "read" /\ pipe # <<>>
  /\ LET n == Least(Len(pipe), message_size - ptr_reader)
         frame == Overlaid(local_frame, ptr_reader, SubSeq(pipe, 1, n))
     IN  /\ pipe' = SubSeq(pipe, n + 1, Len(pipe))
         /\ local_frame' = frame
         /\ IF ptr_reader + n < message_size
            THEN /\ ptr_reader' = ptr_reader + n
                 /\ UNCHANGED <<pc_parent, received>>
            ELSE /\ ptr_reader' = 0
                 /\ received' = Append(received, frame)
                 /\ pc_parent' = IF Len(received') < round THEN "read" ELSE "close_read"
  /\ UNCHANGED <<pc_child, ends, writing>>

ReaderDone ==
  /\ ParentGoes("close_read", "wait")
  /\ read_end' = read_end \ {"parent"}
  /\ UNCHANGED <<pc_child, write_end, pipe, writing, reading>>

Wait ==
  /\ pc_child \in {"done", "broken", "killed"}
  /\ ParentGoes("wait", "done")
  /\ UNCHANGED <<pc_child, ends, pipe, writing, reading>>

-----------------------------------------------------------------------------
(* A killed process has no ends *)

KillParent ==
  /\ pc_parent \notin {"done", "killed"} /\ pc_parent' = "killed"
  /\ read_end' = read_end \ {"parent"} /\ write_end' = write_end \ {"parent"}
  /\ UNCHANGED <<pc_child, pipe, writing, reading>>

KillChild ==
  /\ pc_child \notin {"unborn", "done", "broken", "killed"} /\ pc_child' = "killed"
  /\ read_end' = read_end \ {"child"} /\ write_end' = write_end \ {"child"}
  /\ UNCHANGED <<pc_parent, pipe, writing, reading>>

-----------------------------------------------------------------------------

Parent == Fork \/ CloseWriteEnd \/ Read \/ ReaderDone \/ Wait
Child == CloseReadEnd \/ Transfer \/ WriteReturns \/ BrokenPipe \/ WriterDone

Next == Parent \/ Child \/ KillParent \/ KillChild

SafeSpec == Init /\ [][Next]_vars

\* Both processes are scheduled; nobody has to kill them.
Fairness == WF_vars(Parent) /\ WF_vars(Child)

Spec == SafeSpec /\ Fairness
=============================================================================
