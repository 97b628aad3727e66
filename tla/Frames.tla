------------------------------- MODULE Frames -------------------------------
(***************************************************************************)
(* The frames that all four programs of lab3-ipc send: struct frame, its   *)
(* generate(), and the check the test build makes of every frame it reads. *)
(***************************************************************************)
EXTENDS Integers, Sequences

CONSTANTS message_size,   \* bytes in a frame
          round           \* how many frames are sent

ASSUME FramesAssumption == message_size \in Nat \ {0} /\ round \in Nat \ {0}

generating_seed == 2022212720

Position == 0 .. message_size - 1

\* static_cast<std::byte> keeps the lowest eight bits of the seed.
Byte(seed) == seed % 256

\* The frame that generate(generating_seed + i) makes: one byte repeated.
Generated(i) == [k \in Position |-> Byte(generating_seed + i)]

\* A frame of memory that nothing has been written to yet.
Zeroed == [k \in Position |-> 0]

\* n bytes of frame i, and a frame with some bytes of it replaced from position p on.
Chunk(i, n) == [k \in 1 .. n |-> Byte(generating_seed + i)]
Overlaid(frame, p, bytes) ==
  [k \in Position |-> IF k \in p .. p + Len(bytes) - 1 THEN bytes[k - p + 1] ELSE frame[k]]

\* What the test build prints no "Data mismatch" for, of the frames read so far.
AllMatch(frames) == \A n \in 1 .. Len(frames) : frames[n] = Generated(n - 1)
=============================================================================
