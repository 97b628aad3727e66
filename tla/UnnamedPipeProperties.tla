----------------------- MODULE UnnamedPipeProperties -----------------------
(***************************************************************************)
(* What is checked and proved of the unnamed pipe.                         *)
(***************************************************************************)
EXTENDS UnnamedPipe

-----------------------------------------------------------------------------
(* Safety *)

BytesIn == i_writer * message_size + ptr_writer + moved
BytesOut == Len(received) * message_size + ptr_reader

(* However the transfers are cut up, byte n of the pipe is the byte of the  *)
(* frame that position n falls into: none is lost, doubled or overtaken.    *)
(* The two loops never agree on a length; this is what keeps them in step.  *)
StreamInOrder ==
  /\ BytesIn = BytesOut + Len(pipe)
  /\ \A n \in 1 .. Len(pipe) :
       pipe[n] = Byte(generating_seed + ((BytesOut + n - 1) \div message_size))

-----------------------------------------------------------------------------
(* Liveness *)

(* Unless somebody is killed, every frame arrives and both processes end.   *)
RunEnds == <>(\/ "killed" \in {pc_parent, pc_child}
              \/ pc_parent = "done" /\ pc_child = "done" /\ Len(received) = round)

(* A writer never outlives a reader that was killed: SIGPIPE ends it, for   *)
(* no process keeps an end of the pipe that it does not use.                *)
WriterNoticesReader ==
  pc_parent = "killed" ~> pc_child \in {"unborn", "done", "broken", "killed"}

(* A reader whose writer was killed leaves its loop exactly if all has been *)
(* written.  Otherwise it reads what is left in the pipe and is then at the *)
(* end of file, where read returns at once, and reader() takes no notice:   *)
(* it calls read again and again until it is killed.                        *)
ReaderEndsIffAllIsWritten ==
  [](pc_parent = "read" /\ pc_child = "killed" =>
       IF BytesIn = round * message_size
       THEN <>(pc_parent # "read")
       ELSE <>[](pc_parent = "killed" \/ (pc_parent = "read" /\ pipe = <<>> /\ write_end = {})))

-----------------------------------------------------------------------------
(* Refinement *)

Stream == INSTANCE FrameStream WITH
  Round <- round,
  Frame <- [i \in 0 .. round - 1 |-> Generated(i)],
  Capacity <- (PipeSize + 2 * message_size - 1) \div message_size,
  sent <- IF moved > 0 \/ ptr_writer > 0 THEN i_writer + 1 ELSE i_writer,
  received <- received

(* The two loops implement the frame stream, with a frame counted as sent   *)
(* from its first byte on.  Under way are at most as many frames as the     *)
(* pipe and the two ends of it can hold parts of: two, in this program.     *)
ImplementsStream == Stream!SafeSpec
=============================================================================
