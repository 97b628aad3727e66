---------------------------- MODULE FrameStream ----------------------------
(***************************************************************************)
(* What the programs of lab3-ipc promise, whatever carries the frames: the *)
(* reader gets every frame of the writer once, whole and in order, and the *)
(* writer is never more than Capacity frames ahead.                        *)
(***************************************************************************)
EXTENDS Integers, Sequences

CONSTANTS Round,      \* how many frames are sent
          Frame,      \* Frame[i] is the content of frame i, from 0
          Capacity    \* how many frames may be under way

VARIABLES sent,       \* how many frames the writer has sent
          received    \* the contents the reader has got

svars == <<sent, received>>

Init == sent = 0 /\ received = <<>>

Send == /\ sent < Round
        /\ sent - Len(received) < Capacity
        /\ sent' = sent + 1
        /\ UNCHANGED received

Receive == /\ Len(received) < sent
           /\ received' = Append(received, Frame[Len(received)])
           /\ UNCHANGED sent

Next == Send \/ Receive

SafeSpec == Init /\ [][Next]_svars
Spec == SafeSpec /\ WF_svars(Next)
=============================================================================
