----------------------------- MODULE NamedPipe -----------------------------
(***************************************************************************)
(* lab3-ipc/task3-pipe/subtask2-named: the parent writes frames into the   *)
(* FIFO /tmp/my_fifo, the child reads them.  Unlike the unnamed program,   *)
(* writer() takes a write that returned less than a frame for a whole one. *)
(*                                                                         *)
(* Run is the set of executions of the program that may use the path.  A   *)
(* FIFO is named here by the run whose mkfifo created it; it lives on      *)
(* while it has an end open, after its path was unlinked, and it is empty  *)
(* when it has none.  An open for reading and one for writing wait for     *)
(* each other.  Reading and writing are as in UnnamedPipe.                 *)
(*                                                                         *)
(* "cut" and "crossed" are history: they tell which runs met one of the    *)
(* two circumstances the program does not provide for.                     *)
(***************************************************************************)
EXTENDS Frames, FiniteSets

CONSTANTS Run,         \* the runs
          Mortal,      \* the runs whose processes the user may kill
          PipeSize     \* bytes that a pipe holds

None == "none"

ASSUME PipeAssumption == PipeSize \in Nat \ {0}
ASSUME RunAssumption == None \notin Run /\ Mortal \subseteq Run

VARIABLES
  fifo_path,              \* the FIFO that /tmp/my_fifo names, or None
  pc_parent, pc_child,    \* main and writer(), main and reader()
  write_fd, read_fd,      \* the FIFO each end of a run is open on, or None
  pipe,                   \* the bytes in each FIFO, oldest first
  i_writer,               \* writer(): i
  moved,                  \* the bytes that the current write has moved
  ptr_reader,             \* reader(): ptr - local_frame
  local_frame,
  received,               \* the frames read; their number is the reader's i
  cut,                    \* the runs one of whose writes was short
  crossed                 \* the runs that had a FIFO open that another had open too

writing == <<i_writer, moved, cut>>
reading == <<ptr_reader, local_frame, received>>
fds == <<write_fd, read_fd>>
vars == <<fifo_path, pc_parent, pc_child, fds, pipe, writing, reading, crossed>>

Init ==
  /\ fifo_path = None
  /\ pc_parent = [r \in Run |-> "mkfifo"] /\ pc_child = [r \in Run |-> "unborn"]
  /\ write_fd = [r \in Run |-> None] /\ read_fd = [r \in Run |-> None]
  /\ pipe = [f \in Run |-> <<>>]
  /\ i_writer = [r \in Run |-> 0] /\ moved = [r \in Run |-> 0]
  /\ ptr_reader = [r \in Run |-> 0]
  /\ local_frame = [r \in Run |-> Zeroed] /\ received = [r \in Run |-> <<>>]
  /\ cut = {} /\ crossed = {}

ParentGoes(r, from, to) == pc_parent[r] = from /\ pc_parent' = [pc_parent EXCEPT ![r] = to]
ChildGoes(r, from, to) == pc_child[r] = from /\ pc_child' = [pc_child EXCEPT ![r] = to]

Writers(f) == {r \in Run : write_fd[r] = f}
Readers(f) == {r \in Run : read_fd[r] = f}

\* The runs that are together on FIFO f once r has it open too.
Together(f, r) == LET users == Writers(f) \union Readers(f) \union {r}
                  IN  IF users = {r} THEN {} ELSE users

Least(a, b) == IF a < b THEN a ELSE b

\* The pipes when r no longer has f open: an unused one holds nothing.
PipesWithout(f, readers, writers) ==
  IF f # None /\ readers \union writers = {} THEN [pipe EXCEPT ![f] = <<>>] ELSE pipe

-----------------------------------------------------------------------------
(* Slips of the pen: wrong variants of actions below, part of no            *)
(* specification.  Each makes a property of NamedPipeProperties fail.       *)

WriteReturnsOnceMore(r) ==     \* i <= send_round in writer()
  /\ moved[r] > 0
  /\ ParentGoes(r, "write", IF i_writer[r] < round THEN "write" ELSE "close")
  /\ i_writer' = [i_writer EXCEPT ![r] = @ + 1]
  /\ moved' = [moved EXCEPT ![r] = 0]
  /\ cut' = IF moved[r] < message_size THEN cut \union {r} ELSE cut
  /\ UNCHANGED <<fifo_path, pc_child, fds, pipe, reading, crossed>>

UnlinkNothing(r) ==            \* no unlink(fifo_path)
  /\ ParentGoes(r, "unlink", "done")
  /\ UNCHANGED <<fifo_path, pc_child, fds, pipe, writing, reading, crossed>>

ReadOnce(r) ==                 \* no while (ptr != end)
  /\ pc_child[r] = "read" /\ pipe[read_fd[r]] # <<>>
  /\ LET bytes == pipe[read_fd[r]]
         n == Least(Len(bytes), message_size)
         frame == Overlaid(local_frame[r], 0, SubSeq(bytes, 1, n))
         frames == Append(received[r], frame)
     IN  /\ pipe' = [pipe EXCEPT ![read_fd[r]] = SubSeq(bytes, n + 1, Len(bytes))]
         /\ local_frame' = [local_frame EXCEPT ![r] = frame]
         /\ received' = [received EXCEPT ![r] = frames]
         /\ ChildGoes(r, "read", IF Len(frames) = round THEN "close" ELSE "read")
  /\ UNCHANGED <<fifo_path, pc_parent, fds, ptr_reader, writing, crossed>>

-----------------------------------------------------------------------------
(* main() up to the loops *)

\* mkfifo and fork; a path that exists is as good.
MakeFifo(r) ==
  /\ ParentGoes(r, "mkfifo", "open")
  /\ ChildGoes(r, "unborn", "open")
  /\ fifo_path' = IF fifo_path = None THEN r ELSE fifo_path
  /\ UNCHANGED <<fds, pipe, writing, reading, crossed>>

\* open(fifo_path, O_WRONLY); it returns at once if there is a reader, and
\* makes every open for reading that waits return.
OpenToWrite(r) ==
  /\ fifo_path # None /\ pc_parent[r] = "open"
  /\ write_fd' = [write_fd EXCEPT ![r] = fifo_path]
  /\ pc_parent' = [pc_parent EXCEPT ![r] = IF Readers(fifo_path) # {} THEN "write" ELSE "opening"]
  /\ pc_child' = [q \in Run |-> IF q \in Readers(fifo_path) /\ pc_child[q] = "opening"
                                THEN "read" ELSE pc_child[q]]
  /\ crossed' = crossed \union Together(fifo_path, r)
  /\ UNCHANGED <<fifo_path, read_fd, pipe, writing, reading>>

\* open(fifo_path, O_RDONLY), in the child.
OpenToRead(r) ==
  /\ fifo_path # None /\ pc_child[r] = "open"
  /\ read_fd' = [read_fd EXCEPT ![r] = fifo_path]
  /\ pc_child' = [pc_child EXCEPT ![r] = IF Writers(fifo_path) # {} THEN "read" ELSE "opening"]
  /\ pc_parent' = [q \in Run |-> IF q \in Writers(fifo_path) /\ pc_parent[q] = "opening"
                                 THEN "write" ELSE pc_parent[q]]
  /\ crossed' = crossed \union Together(fifo_path, r)
  /\ UNCHANGED <<fifo_path, write_fd, pipe, writing, reading>>

\* The path was unlinked in the meantime; the process exits.
ParentFindsNoPath(r) ==
  /\ fifo_path = None
  /\ ParentGoes(r, "open", "failed")
  /\ UNCHANGED <<fifo_path, pc_child, fds, pipe, writing, reading, crossed>>

ChildFindsNoPath(r) ==
  /\ fifo_path = None
  /\ ChildGoes(r, "open", "failed")
  /\ UNCHANGED <<fifo_path, pc_parent, fds, pipe, writing, reading, crossed>>

-----------------------------------------------------------------------------
(* writer(), in the parent *)

\* The kernel moves n more bytes of write(write_fd, msg_frame, sizeof(frame)).
Transfer(r) ==
  /\ pc_parent[r] = "write" /\ Readers(write_fd[r]) # {}
  /\ \E n \in 1 .. Least(PipeSize - Len(pipe[write_fd[r]]), message_size - moved[r]) :
       /\ pipe' = [pipe EXCEPT ![write_fd[r]] = @ \o Chunk(i_writer[r], n)]
       /\ moved' = [moved EXCEPT ![r] = @ + n]
  /\ UNCHANGED <<fifo_path, pc_parent, pc_child, fds, i_writer, cut, reading, crossed>>

\* write returns, all or fewer bytes moved: the next frame is due.
WriteReturns(r) ==
  /\ moved[r] > 0
  /\ ParentGoes(r, "write", IF i_writer[r] + 1 < round THEN "write" ELSE "close")
  /\ i_writer' = [i_writer EXCEPT ![r] = @ + 1]
  /\ moved' = [moved EXCEPT ![r] = 0]
  /\ cut' = IF moved[r] < message_size THEN cut \union {r} ELSE cut
  /\ UNCHANGED <<fifo_path, pc_child, fds, pipe, reading, crossed>>

\* SIGPIPE, when a write has more to move.
BrokenPipe(r) ==
  /\ pc_parent[r] = "write" /\ Readers(write_fd[r]) = {} /\ moved[r] < message_size
  /\ ParentGoes(r, "write", "broken")
  /\ write_fd' = [write_fd EXCEPT ![r] = None]
  /\ pipe' = PipesWithout(write_fd[r], {}, Writers(write_fd[r]) \ {r})
  /\ UNCHANGED <<fifo_path, pc_child, read_fd, writing, reading, crossed>>

WriterDone(r) ==
  /\ ParentGoes(r, "close", "wait")
  /\ write_fd' = [write_fd EXCEPT ![r] = None]
  /\ pipe' = PipesWithout(write_fd[r], Readers(write_fd[r]), Writers(write_fd[r]) \ {r})
  /\ UNCHANGED <<fifo_path, pc_child, read_fd, writing, reading, crossed>>

Wait(r) ==
  /\ pc_child[r] \in {"done", "failed", "killed"}
  /\ ParentGoes(r, "wait", "unlink")
  /\ UNCHANGED <<fifo_path, pc_child, fds, pipe, writing, reading, crossed>>

\* Whichever FIFO the path names by now.
Unlink(r) ==
  /\ ParentGoes(r, "unlink", "done")
  /\ fifo_path' = None
  /\ UNCHANGED <<pc_child, fds, pipe, writing, reading, crossed>>

-----------------------------------------------------------------------------
(* reader(), in the child *)

Read(r) ==
  /\ pc_child[r] = "read" /\ pipe[read_fd[r]] # <<>>
  /\ LET bytes == pipe[read_fd[r]]
         n == Least(Len(bytes), message_size - ptr_reader[r])
         frame == Overlaid(local_frame[r], ptr_reader[r], SubSeq(bytes, 1, n))
         whole == ptr_reader[r] + n = message_size
         frames == IF whole THEN Append(received[r], frame) ELSE received[r]
     IN  /\ pipe' = [pipe EXCEPT ![read_fd[r]] = SubSeq(bytes, n + 1, Len(bytes))]
         /\ local_frame' = [local_frame EXCEPT ![r] = frame]
         /\ ptr_reader' = [ptr_reader EXCEPT ![r] = IF whole THEN 0 ELSE @ + n]
         /\ received' = [received EXCEPT ![r] = frames]
         /\ ChildGoes(r, "read", IF Len(frames) = round THEN "close" ELSE "read")
  /\ UNCHANGED <<fifo_path, pc_parent, fds, writing, crossed>>

ReaderDone(r) ==
  /\ ChildGoes(r, "close", "done")
  /\ read_fd' = [read_fd EXCEPT ![r] = None]
  /\ pipe' = PipesWithout(read_fd[r], Readers(read_fd[r]) \ {r}, Writers(read_fd[r]))
  /\ UNCHANGED <<fifo_path, pc_parent, write_fd, writing, reading, crossed>>

-----------------------------------------------------------------------------
(* A killed process has no end open *)

KillParent(r) ==
  /\ r \in Mortal /\ pc_parent[r] \notin {"done", "failed", "broken", "killed"}
  /\ pc_parent' = [pc_parent EXCEPT ![r] = "killed"]
  /\ write_fd' = [write_fd EXCEPT ![r] = None]
  /\ pipe' = PipesWithout(write_fd[r], Readers(write_fd[r]), Writers(write_fd[r]) \ {r})
  /\ UNCHANGED <<fifo_path, pc_child, read_fd, writing, reading, crossed>>

KillChild(r) ==
  /\ r \in Mortal /\ pc_child[r] \notin {"unborn", "done", "failed", "killed"}
  /\ pc_child' = [pc_child EXCEPT ![r] = "killed"]
  /\ read_fd' = [read_fd EXCEPT ![r] = None]
  /\ pipe' = PipesWithout(read_fd[r], Readers(read_fd[r]) \ {r}, Writers(read_fd[r]))
  /\ UNCHANGED <<fifo_path, pc_parent, write_fd, writing, reading, crossed>>

-----------------------------------------------------------------------------

ParentStep(r) == \/ MakeFifo(r) \/ OpenToWrite(r) \/ ParentFindsNoPath(r) \/ Transfer(r)
                 \/ WriteReturns(r) \/ BrokenPipe(r) \/ WriterDone(r) \/ Wait(r) \/ Unlink(r)
ChildStep(r) == OpenToRead(r) \/ ChildFindsNoPath(r) \/ Read(r) \/ ReaderDone(r)

Next == \E r \in Run : ParentStep(r) \/ ChildStep(r) \/ KillParent(r) \/ KillChild(r)

SafeSpec == Init /\ [][Next]_vars

\* The processes of a run are scheduled; nobody has to start a run or to kill it.
Fairness ==
  \A r \in Run : /\ WF_vars(pc_parent[r] # "mkfifo" /\ ParentStep(r))
                 /\ WF_vars(ChildStep(r))

Spec == SafeSpec /\ Fairness
=============================================================================
