------------------------- MODULE UnnamedPipeProofs -------------------------
(***************************************************************************)
(* Proofs about the unnamed pipe, for any number and size of frames and    *)
(* any size of the pipe.                                                   *)
(***************************************************************************)
EXTENDS UnnamedPipeProperties, SequenceTheorems, TLAPS

(* Positions of a stream that is cut into frames of m bytes.                *)
LEMMA FrameOfPosition ==
  \A m \in Nat \ {0}, i \in Nat, k \in Nat : k < m => (i * m + k) \div m = i
<1> SUFFICES ASSUME NEW m \in Nat \ {0}, NEW i \in Nat, NEW k \in Nat, k < m
             PROVE  (i * m + k) \div m = i
  OBVIOUS
<1> DEFINE x == i * m + k
           q == x \div m
<1>1. x \in Nat /\ q \in Int
  OBVIOUS
<1>2. m * q <= x /\ x < m * q + m
  BY <1>1
<1>3. CASE q < i
  <2>1. q + 1 <= i
    BY <1>1, <1>3
  <2>2. m * (q + 1) <= m * i
    BY <1>1, <2>1
  <2> QED
    BY <1>1, <1>2, <2>2
<1>4. CASE i < q
  <2>1. i + 1 <= q
    BY <1>1, <1>4
  <2>2. m * (i + 1) <= m * q
    BY <1>1, <2>1
  <2> QED
    BY <1>1, <1>2, <2>2
<1> QED
  BY <1>1, <1>3, <1>4

LEMMA NextFrame == \A m \in Nat, i \in Nat : (i + 1) * m = i * m + m /\ i * m \in Nat
OBVIOUS

LEMMA WholeFrames ==
  \A m \in Nat \ {0}, i, j \in Nat : i * m <= j * m + m - 1 => i <= j
<1> SUFFICES ASSUME NEW m \in Nat \ {0}, NEW i \in Nat, NEW j \in Nat, j < i
             PROVE  j * m + m - 1 < i * m
  OBVIOUS
<1>1. (j + 1) * m <= i * m
  OBVIOUS
<1> QED
  BY <1>1, NextFrame

LEMMA FramesWithin ==
  \A m \in Nat \ {0}, d \in Nat, x \in Nat : d * m <= x => d <= x \div m
<1> SUFFICES ASSUME NEW m \in Nat \ {0}, NEW d \in Nat, NEW x \in Nat, x \div m < d
             PROVE  x < d * m
  OBVIOUS
<1>1. x \div m \in Nat /\ x < m * (x \div m) + m
  OBVIOUS
<1>2. (x \div m) + 1 <= d
  BY <1>1
<1>3. m * ((x \div m) + 1) <= m * d
  BY <1>1, <1>2
<1> QED
  BY <1>1, <1>3

-----------------------------------------------------------------------------
(* The invariant *)

(* Every variable holds a value of its C++ or kernel type.                  *)
TypeOK ==
  /\ pc_parent \in {"fork", "close", "read", "close_read", "wait", "done", "killed"}
  /\ pc_child \in {"unborn", "close", "write", "close_write", "done", "broken", "killed"}
  /\ read_end \subseteq {"parent", "child"} /\ write_end \subseteq {"parent", "child"}
  /\ pipe \in Seq(Int)
  /\ i_writer \in Nat /\ ptr_writer \in Nat /\ moved \in Nat /\ ptr_reader \in Nat
  /\ local_frame \in [Position -> Int]
  /\ received \in Seq([Position -> Int])

\* Where the two loops can be.
Loops ==
  /\ i_writer <= round /\ ptr_writer < message_size /\ ptr_writer + moved <= message_size
  /\ pc_child \in {"unborn", "close", "write"} => i_writer < round
  /\ i_writer = round => ptr_writer = 0 /\ moved = 0
  /\ ptr_reader < message_size
  /\ Len(pipe) <= PipeSize

\* What is read of the current frame is right.
Prefix ==
  \A k \in Position : k < ptr_reader => local_frame[k] = Byte(generating_seed + Len(received))

IInv == TypeOK /\ Loops /\ StreamInOrder /\ Prefix

\* The frames that are sent, from their first byte on.
Sent == IF moved > 0 \/ ptr_writer > 0 THEN i_writer + 1 ELSE i_writer

LEMMA Sizes == /\ message_size \in Nat \ {0} /\ round \in Nat \ {0} /\ PipeSize \in Nat \ {0}
               /\ Position = 0 .. message_size - 1
BY FramesAssumption, PipeAssumption DEF Position

LEMMA Bytes == \A n \in Nat : Byte(generating_seed + n) \in Int
BY DEF Byte, generating_seed

(* The bytes of a chunk.                                                    *)
LEMMA ChunkBytes ==
  ASSUME NEW i \in Nat, NEW n \in Nat
  PROVE  /\ Chunk(i, n) \in Seq(Int) /\ Len(Chunk(i, n)) = n
         /\ \A k \in 1 .. n : Chunk(i, n)[k] = Byte(generating_seed + i)
BY Bytes DEF Chunk

(* The bytes that go into the pipe and out of it are counted from 0.        *)
LEMMA Counts ==
  ASSUME TypeOK
  PROVE  /\ i_writer * message_size \in Nat /\ Len(received) * message_size \in Nat
         /\ BytesIn \in Nat /\ BytesOut \in Nat /\ Len(pipe) \in Nat /\ Len(received) \in Nat
<1>1. Len(pipe) \in Nat /\ Len(received) \in Nat
  BY DEF TypeOK
<1>2. i_writer * message_size \in Nat /\ Len(received) * message_size \in Nat
  BY <1>1, Sizes, NextFrame DEF TypeOK
<1> QED
  BY <1>1, <1>2 DEF TypeOK, BytesIn, BytesOut

(* The frame that a byte in the pipe belongs to.                            *)
LEMMA NextByte ==
  ASSUME TypeOK, Loops, StreamInOrder, NEW k \in 1 .. Len(pipe), ptr_reader + k <= message_size
  PROVE  pipe[k] = Byte(generating_seed + Len(received))
<1>1. pipe[k] = Byte(generating_seed + ((BytesOut + k - 1) \div message_size))
  BY DEF StreamInOrder
<1>2. /\ Len(received) \in Nat /\ ptr_reader + k - 1 \in Nat
      /\ BytesOut + k - 1 = Len(received) * message_size + (ptr_reader + k - 1)
  BY Counts, Sizes DEF TypeOK, BytesOut
<1>3. (Len(received) * message_size + (ptr_reader + k - 1)) \div message_size = Len(received)
  <2>1. ptr_reader + k - 1 < message_size
    BY Sizes DEF TypeOK
  <2> QED
    BY <1>2, <2>1, Sizes, FrameOfPosition
<1> QED
  BY <1>1, <1>2, <1>3

-----------------------------------------------------------------------------
(* Steps that move bytes *)

LEMMA TransferPreserves ==
  ASSUME IInv, Transfer
  PROVE  IInv' /\ (Stream!Send \/ UNCHANGED <<Sent, received>>)
<1> USE DEF IInv
<1>1. PICK n \in 1 .. Least(PipeSize - Len(pipe), message_size - ptr_writer - moved) :
        /\ pc_child = "write" /\ pipe' = pipe \o Chunk(i_writer, n) /\ moved' = moved + n
        /\ UNCHANGED <<pc_parent, pc_child, ends, i_writer, ptr_writer, reading>>
  BY DEF Transfer
<1>2. /\ n \in Nat \ {0} /\ Len(pipe) + n <= PipeSize /\ ptr_writer + moved + n <= message_size
      /\ i_writer < round
  BY <1>1, Counts, Sizes, SMTT(30) DEF Least, TypeOK, Loops
<1>3. /\ pipe' \in Seq(Int) /\ Len(pipe') = Len(pipe) + n
      /\ \A k \in 1 .. Len(pipe) : pipe'[k] = pipe[k]
      /\ \A k \in 1 .. n : pipe'[Len(pipe) + k] = Byte(generating_seed + i_writer)
  <2>1. /\ Chunk(i_writer, n) \in Seq(Int) /\ Len(Chunk(i_writer, n)) = n
        /\ \A k \in 1 .. n : Chunk(i_writer, n)[k] = Byte(generating_seed + i_writer)
    BY <1>2, ChunkBytes DEF TypeOK
  <2>2. pipe \in Seq(Int) /\ Len(pipe) \in Nat
    BY DEF TypeOK
  <2> DEFINE c == Chunk(i_writer, n)
  <2> HIDE DEF IInv, c
  <2>3. /\ pipe \o c \in Seq(Int) /\ Len(pipe \o c) = Len(pipe) + Len(c)
        /\ \A k \in 1 .. Len(pipe) + Len(c) :
             (pipe \o c)[k] = IF k <= Len(pipe) THEN pipe[k] ELSE c[k - Len(pipe)]
    BY <2>1, <2>2, ConcatProperties DEF c
  <2>4. pipe' = pipe \o c /\ Len(c) = n /\ n \in Nat
        /\ \A k \in 1 .. n : c[k] = Byte(generating_seed + i_writer)
    BY <1>1, <2>1 DEF c
  <2> QED
    BY <2>2, <2>3, <2>4
<1>4. TypeOK' /\ Loops'
  BY <1>1, <1>2, <1>3 DEF TypeOK, Loops, ends, reading
<1>5. BytesIn' = BytesIn + n /\ BytesOut' = BytesOut /\ BytesIn = BytesOut + Len(pipe)
  <2>1. BytesIn' = i_writer * message_size + ptr_writer + (moved + n)
    BY <1>1 DEF BytesIn
  <2>2. /\ i_writer * message_size \in Nat /\ ptr_writer \in Nat /\ moved \in Nat /\ n \in Nat
        /\ BytesIn = i_writer * message_size + ptr_writer + moved
    BY <1>2, Counts DEF BytesIn, TypeOK
  <2>3. BytesIn' = BytesIn + n
    BY <2>1, <2>2
  <2>4. BytesOut' = BytesOut
    BY <1>1 DEF BytesOut, reading
  <2> QED
    BY <2>3, <2>4 DEF StreamInOrder
<1>6. StreamInOrder'
  <2>1. ASSUME NEW k \in 1 .. Len(pipe')
        PROVE  pipe'[k] = Byte(generating_seed + ((BytesOut + k - 1) \div message_size))
    <3>1. CASE k \in 1 .. Len(pipe)
      BY <1>3, <3>1 DEF StreamInOrder
    <3>2. CASE k \notin 1 .. Len(pipe)
      <4> DEFINE j == k - Len(pipe)
      <4>1. j \in 1 .. n /\ Len(pipe) + j = k
        BY <1>2, <1>3, <3>2, Counts
      <4>2. BytesOut + k - 1 = i_writer * message_size + (ptr_writer + moved + j - 1)
        <5>1. /\ i_writer * message_size \in Nat /\ ptr_writer \in Nat /\ moved \in Nat
              /\ BytesOut \in Nat /\ Len(pipe) \in Nat /\ j \in Nat
              /\ i_writer * message_size + ptr_writer + moved = BytesOut + Len(pipe)
          BY <1>5, <4>1, Counts DEF BytesIn, TypeOK
        <5> HIDE DEF j
        <5> QED
          BY <4>1, <5>1
      <4>3. (i_writer * message_size + (ptr_writer + moved + j - 1)) \div message_size = i_writer
        <5>1. /\ ptr_writer + moved + j - 1 \in Nat /\ ptr_writer + moved + j - 1 < message_size
              /\ i_writer \in Nat
          BY <1>2, <4>1, Sizes DEF TypeOK
        <5> QED
          BY <5>1, Sizes, FrameOfPosition
      <4>4. pipe'[k] = Byte(generating_seed + i_writer)
        BY <1>3, <4>1
      <4> QED
        BY <4>2, <4>3, <4>4
    <3> QED
      BY <3>1, <3>2
  <2> QED
    BY <1>2, <1>3, <1>5, <2>1, Counts, SMTT(30) DEF StreamInOrder
<1>7. Prefix'
  BY <1>1 DEF Prefix, reading
<1>8. CASE moved > 0 \/ ptr_writer > 0
  <2>1. UNCHANGED <<Sent, received>>
    BY <1>1, <1>2, <1>8 DEF TypeOK, reading, Sent
  <2> QED
    BY <1>4, <1>6, <1>7, <2>1
<1>9. CASE moved = 0 /\ ptr_writer = 0
  <2> DEFINE ahead == i_writer - Len(received)
             room == PipeSize + 2 * message_size - 1
  <2>1. Len(received) <= i_writer
    <3>1. Len(received) * message_size <= i_writer * message_size + message_size - 1
      BY <1>5, <1>9, Counts, Sizes DEF BytesIn, BytesOut, TypeOK
    <3> QED
      BY <3>1, Sizes, Counts, WholeFrames DEF TypeOK
  <2>2. ahead * message_size <= PipeSize + message_size - 2
    <3>1. i_writer * message_size <= Len(received) * message_size + PipeSize + message_size - 2
      BY <1>2, <1>5, <1>9, Counts, Sizes DEF BytesIn, BytesOut, TypeOK, Loops
    <3>2. ahead * message_size = i_writer * message_size - Len(received) * message_size
      BY Counts, Sizes DEF TypeOK
    <3> QED
      BY <3>1, <3>2, Counts, Sizes
  <2>3. ahead + 1 <= room \div message_size
    <3>1. ahead \in Nat /\ room \in Nat
      BY <2>1, Counts, Sizes DEF TypeOK
    <3>2. (ahead + 1) * message_size <= room
      BY <2>2, <3>1, NextFrame, Sizes
    <3>3. ahead + 1 \in Nat
      BY <3>1
    <3> HIDE DEF ahead, room
    <3> QED
      BY <3>1, <3>2, <3>3, Sizes, FramesWithin
  <2>4. i_writer - Len(received) < (PipeSize + 2 * message_size - 1) \div message_size
    BY <2>1, <2>3, Counts, Sizes DEF TypeOK
  <2>5. Stream!Send
    BY <1>1, <1>2, <1>9, <2>4 DEF Stream!Send, reading, TypeOK
  <2> QED
    BY <1>4, <1>6, <1>7, <2>5
<1> QED
  BY <1>8, <1>9 DEF TypeOK

LEMMA WriteReturnsPreserves ==
  ASSUME IInv, WriteReturns
  PROVE  IInv' /\ UNCHANGED <<Sent, received>>
<1> USE DEF IInv
<1>1. /\ pc_child = "write" /\ moved > 0 /\ moved' = 0
      /\ pc_child' = IF i_writer' < round THEN "write" ELSE "close_write"
      /\ UNCHANGED <<pc_parent, ends, pipe, reading>>
  BY DEF WriteReturns, ChildGoes
<1>2. \/ /\ ptr_writer + moved < message_size
         /\ ptr_writer' = ptr_writer + moved /\ i_writer' = i_writer
      \/ /\ ptr_writer + moved = message_size
         /\ ptr_writer' = 0 /\ i_writer' = i_writer + 1
  BY Sizes DEF WriteReturns, TypeOK, Loops
<1>3. i_writer < round
  BY <1>1 DEF Loops
<1>4. TypeOK' /\ Loops'
  BY <1>1, <1>2, <1>3, Sizes, SMTT(30) DEF TypeOK, Loops, ends, reading
<1>5. BytesIn' = BytesIn
  <2>1. CASE ptr_writer + moved < message_size
    BY <1>1, <1>2, <2>1, Counts DEF BytesIn, TypeOK
  <2>2. CASE ptr_writer + moved = message_size
    <3>1. BytesIn' = (i_writer + 1) * message_size
      BY <1>1, <1>2, <2>2, Sizes, NextFrame DEF BytesIn, TypeOK
    <3>2. (i_writer + 1) * message_size = i_writer * message_size + message_size
      BY Sizes, NextFrame DEF TypeOK
    <3> QED
      BY <2>2, <3>1, <3>2, Counts DEF BytesIn, TypeOK
  <2> QED
    BY <1>2, <2>1, <2>2
<1>6. StreamInOrder' /\ Prefix'
  BY <1>1, <1>5 DEF StreamInOrder, Prefix, BytesOut, reading
<1>7. UNCHANGED <<Sent, received>>
  BY <1>1, <1>2, Sizes DEF Sent, TypeOK, reading
<1> QED
  BY <1>4, <1>6, <1>7

LEMMA ReadPreserves ==
  ASSUME IInv, Read
  PROVE  IInv' /\ UNCHANGED Sent /\ (Stream!Receive \/ UNCHANGED received)
<1> USE DEF IInv
<1> DEFINE n == Least(Len(pipe), message_size - ptr_reader)
           bytes == SubSeq(pipe, 1, n)
           frame == Overlaid(local_frame, ptr_reader, bytes)
<1>1. /\ pc_parent = "read" /\ pipe # <<>>
      /\ pipe' = SubSeq(pipe, n + 1, Len(pipe)) /\ local_frame' = frame
      /\ UNCHANGED <<pc_child, ends, writing>>
  BY DEF Read
<1>2. \/ /\ ptr_reader + n < message_size
         /\ ptr_reader' = ptr_reader + n
         /\ UNCHANGED <<pc_parent, received>>
      \/ /\ ~(ptr_reader + n < message_size)
         /\ ptr_reader' = 0 /\ received' = Append(received, frame)
         /\ pc_parent' \in {"read", "close_read"}
  BY DEF Read
<1>3. n \in Nat \ {0} /\ n <= Len(pipe) /\ ptr_reader + n <= message_size
  BY <1>1, Counts, Sizes, SMTT(30) DEF Least, TypeOK, Loops
<1> HIDE DEF n
<1>4. /\ pipe' \in Seq(Int) /\ Len(pipe') = Len(pipe) - n
      /\ \A k \in 1 .. Len(pipe) - n : pipe'[k] = pipe[n + k]
  <2>1. n + 1 \in Int /\ Len(pipe) \in Int /\ \A k \in n + 1 .. Len(pipe) : pipe[k] \in Int
    BY <1>3, Counts DEF TypeOK
  <2>2. /\ SubSeq(pipe, n + 1, Len(pipe)) \in Seq(Int)
        /\ Len(SubSeq(pipe, n + 1, Len(pipe)))
             = IF n + 1 <= Len(pipe) THEN Len(pipe) - (n + 1) + 1 ELSE 0
        /\ \A k \in 1 .. Len(pipe) - (n + 1) + 1 :
             SubSeq(pipe, n + 1, Len(pipe))[k] = pipe[(n + 1) + k - 1]
    BY <2>1, SubSeqProperties
  <2>3. Len(pipe') = Len(pipe) - n
    BY <1>1, <1>3, <2>2, Counts
  <2>4. ASSUME NEW k \in 1 .. Len(pipe) - n PROVE pipe'[k] = pipe[n + k]
    <3>1. k \in 1 .. Len(pipe) - (n + 1) + 1 /\ (n + 1) + k - 1 = n + k
      BY <1>3, Counts
    <3> QED
      BY <1>1, <2>2, <3>1
  <2> QED
    BY <1>1, <2>2, <2>3, <2>4
<1>5. Len(bytes) = n /\ \A k \in 1 .. n : bytes[k] = pipe[k] /\ pipe[k] \in Int
  BY <1>3, Counts DEF TypeOK
<1> HIDE DEF bytes
<1>6. /\ frame \in [Position -> Int]
      /\ \A k \in Position : k < ptr_reader + n =>
           frame[k] = Byte(generating_seed + Len(received))
  <2> SUFFICES ASSUME NEW k \in Position
               PROVE  /\ frame[k] \in Int
                      /\ k < ptr_reader + n => frame[k] = Byte(generating_seed + Len(received))
    BY DEF Overlaid
  <2>1. CASE k \in ptr_reader .. ptr_reader + n - 1
    <3> DEFINE j == k - ptr_reader + 1
    <3>1. j \in 1 .. n /\ j \in 1 .. Len(pipe) /\ ptr_reader + j <= message_size
      BY <1>3, <2>1, Counts, Sizes DEF TypeOK
    <3>2. frame[k] = bytes[j]
      BY <1>5, <2>1 DEF Overlaid
    <3> HIDE DEF j
    <3>3. bytes[j] = pipe[j] /\ pipe[j] \in Int
      BY <1>5, <3>1
    <3>4. pipe[j] = Byte(generating_seed + Len(received))
      BY <3>1, NextByte
    <3> QED
      BY <3>2, <3>3, <3>4
  <2>2. CASE k \notin ptr_reader .. ptr_reader + n - 1
    <3>1. frame[k] = local_frame[k]
      BY <1>5, <2>2 DEF Overlaid
    <3>2. k < ptr_reader + n => k < ptr_reader
      BY <1>3, <2>2, Sizes DEF TypeOK
    <3> QED
      BY <3>1, <3>2 DEF TypeOK, Prefix
  <2> QED
    BY <2>1, <2>2
<1> HIDE DEF frame
<1>7. /\ Len(received') \in {Len(received), Len(received) + 1}
      /\ received' \in Seq([Position -> Int]) /\ ptr_reader' \in Nat /\ ptr_reader' < message_size
  <2>1. received \in Seq([Position -> Int]) /\ ptr_reader \in Nat
    BY DEF TypeOK
  <2>2. /\ Append(received, frame) \in Seq([Position -> Int])
        /\ Len(Append(received, frame)) = Len(received) + 1
    BY <1>6, <2>1
  <2>3. UNCHANGED received \/ received' = Append(received, frame)
    BY <1>2
  <2>4. ptr_reader' \in Nat /\ ptr_reader' < message_size
    BY <1>2, <1>3, <2>1, Sizes
  <2> QED
    BY <2>1, <2>2, <2>3, <2>4
<1>8. TypeOK' /\ Loops'
  <2>1. pc_parent' \in {"read", "close_read"}
    BY <1>1, <1>2
  <2>2. TypeOK'
    BY <1>1, <1>4, <1>6, <1>7, <2>1 DEF TypeOK, ends, writing
  <2>3. Len(pipe') <= PipeSize
    BY <1>3, <1>4, Counts, Sizes DEF Loops
  <2> QED
    BY <1>1, <1>7, <2>2, <2>3 DEF Loops, writing
<1>9. BytesOut' = BytesOut + n /\ BytesIn' = BytesIn
  <2>1. CASE ptr_reader + n < message_size
    BY <1>1, <1>2, <1>3, <2>1, Counts, SMTT(30) DEF BytesIn, BytesOut, TypeOK, writing
  <2>2. CASE ptr_reader + n = message_size
    <3>1. received' = Append(received, frame) /\ ptr_reader' = 0
      BY <1>2, <2>2, Sizes
    <3>2. Len(received') = Len(received) + 1
      BY <3>1 DEF TypeOK
    <3>3. BytesOut' = (Len(received) + 1) * message_size
      BY <3>1, <3>2, Sizes, NextFrame, Counts DEF BytesOut
    <3>4. (Len(received) + 1) * message_size = Len(received) * message_size + message_size
      BY Sizes, NextFrame, Counts
    <3>5. BytesOut' = BytesOut + n
      <4>1. /\ BytesOut = Len(received) * message_size + ptr_reader
            /\ Len(received) * message_size \in Nat /\ ptr_reader \in Nat /\ n \in Nat
        BY <1>3, Counts DEF BytesOut, TypeOK
      <4> QED
        BY <2>2, <3>3, <3>4, <4>1
    <3> QED
      BY <1>1, <3>5 DEF BytesIn, writing
  <2> QED
    BY <1>3, <2>1, <2>2, Sizes DEF TypeOK
<1>10. StreamInOrder'
  <2>1. BytesIn' = BytesOut' + Len(pipe')
    BY <1>3, <1>4, <1>9, Counts, SMTT(30) DEF StreamInOrder
  <2>2. ASSUME NEW k \in 1 .. Len(pipe')
        PROVE  pipe'[k] = Byte(generating_seed + ((BytesOut' + k - 1) \div message_size))
    <3>1. n + k \in 1 .. Len(pipe) /\ pipe'[k] = pipe[n + k]
      BY <1>3, <1>4, Counts
    <3>2. pipe[n + k] = Byte(generating_seed + ((BytesOut + (n + k) - 1) \div message_size))
      BY <3>1 DEF StreamInOrder
    <3>3. BytesOut + (n + k) - 1 = BytesOut' + k - 1
      BY <1>3, <1>9, Counts
    <3> QED
      BY <3>1, <3>2, <3>3
  <2> QED
    BY <2>1, <2>2 DEF StreamInOrder
<1>11. Prefix'
  BY <1>1, <1>2, <1>3, <1>6, <1>7, Sizes DEF Prefix, TypeOK
<1>12. UNCHANGED Sent
  BY <1>1 DEF Sent, writing
<1>13. CASE UNCHANGED received
  BY <1>8, <1>10, <1>11, <1>12, <1>13
<1>14. CASE received' = Append(received, frame) /\ ptr_reader + n = message_size
  <2>1. frame = Generated(Len(received))
    BY <1>3, <1>6, <1>14, Sizes DEF Generated
  <2>2. Len(received) * message_size + message_size <= BytesIn
    BY <1>3, <1>14, Counts, Sizes DEF StreamInOrder, BytesOut, TypeOK
  <2>3. (Len(received) + 1) * message_size <= i_writer * message_size + ptr_writer + moved
    BY <2>2, Counts, Sizes, NextFrame DEF BytesIn
  <2>4. Len(received) < Sent /\ Sent <= round
    <3>1. CASE ptr_writer = 0 /\ moved = 0
      <4>1. (Len(received) + 1) * message_size <= i_writer * message_size + message_size - 1
        BY <2>3, <3>1, Counts, Sizes, NextFrame
      <4>2. Len(received) + 1 <= i_writer
        <5>1. Len(received) + 1 \in Nat /\ i_writer \in Nat
          BY Counts DEF TypeOK
        <5> QED
          BY <4>1, <5>1, Sizes, WholeFrames
      <4> QED
        BY <3>1, <4>2, Counts, Sizes DEF Sent, Loops, TypeOK
    <3>2. CASE ~(ptr_writer = 0 /\ moved = 0)
      <4>1. (Len(received) + 1) * message_size <= (i_writer + 1) * message_size + message_size - 1
        BY <2>3, Counts, Sizes, NextFrame DEF TypeOK, Loops
      <4>2. Len(received) + 1 <= i_writer + 1
        <5>1. Len(received) + 1 \in Nat /\ i_writer + 1 \in Nat
          BY Counts DEF TypeOK
        <5> QED
          BY <4>1, <5>1, Sizes, WholeFrames
      <4> QED
        BY <3>2, <4>2, Counts, Sizes DEF Sent, Loops, TypeOK
    <3> QED
      BY <3>1, <3>2
  <2>5. [i \in 0 .. round - 1 |-> Generated(i)][Len(received)] = Generated(Len(received))
    BY <2>4, Counts, Sizes, SMTT(30) DEF Sent, TypeOK
  <2>6. Stream!Receive
    BY <1>12, <1>14, <2>1, <2>4, <2>5 DEF Stream!Receive, Sent
  <2> QED
    BY <1>8, <1>10, <1>11, <1>12, <2>6
<1>15. ptr_reader + n < message_size \/ ptr_reader + n = message_size
  BY <1>3, Sizes DEF TypeOK
<1> QED
  BY <1>2, <1>13, <1>14, <1>15

-----------------------------------------------------------------------------
(* Steps that move no byte *)

LEMMA InitEstablishes == Init => IInv
<1> SUFFICES ASSUME Init PROVE IInv
  OBVIOUS
<1>1. /\ pipe = <<>> /\ received = <<>> /\ Len(pipe) = 0 /\ Len(received) = 0
      /\ pipe \in Seq(Int) /\ received \in Seq([Position -> Int])
  BY DEF Init
<1>2. TypeOK
  BY <1>1 DEF Init, TypeOK, Zeroed
<1>3. Loops
  BY <1>1, Sizes DEF Init, Loops
<1>4. StreamInOrder
  BY <1>1, Sizes DEF Init, StreamInOrder, BytesIn, BytesOut
<1>5. Prefix
  BY Sizes DEF Init, Prefix
<1> QED
  BY <1>2, <1>3, <1>4, <1>5 DEF IInv

LEMMA OthersPreserve ==
  ASSUME IInv,
         \/ Fork \/ CloseWriteEnd \/ CloseReadEnd \/ BrokenPipe \/ WriterDone \/ ReaderDone
         \/ Wait \/ KillParent \/ KillChild \/ UNCHANGED vars
  PROVE  IInv' /\ UNCHANGED <<Sent, received>>
<1> USE DEF IInv
<1>1. UNCHANGED <<pipe, writing, reading>>
  BY DEF Fork, CloseWriteEnd, CloseReadEnd, BrokenPipe, WriterDone, ReaderDone, Wait, KillParent,
         KillChild, vars
<1>2. TypeOK'
  BY <1>1 DEF TypeOK, Fork, CloseWriteEnd, CloseReadEnd, BrokenPipe, WriterDone, ReaderDone, Wait,
         KillParent, KillChild, vars, ParentGoes, ChildGoes, ends, writing, reading
<1>3. Loops'
  <2>1. pc_child' \in {"unborn", "close", "write"} => pc_child \in {"unborn", "close", "write"}
    BY DEF Fork, CloseWriteEnd, CloseReadEnd, BrokenPipe, WriterDone, ReaderDone, Wait, KillParent,
           KillChild, vars, ParentGoes, ChildGoes
  <2> QED
    BY <1>1, <2>1 DEF Loops, writing, reading
<1>4. StreamInOrder' /\ Prefix' /\ UNCHANGED <<Sent, received>>
  BY <1>1 DEF StreamInOrder, Prefix, Sent, BytesIn, BytesOut, writing, reading
<1> QED
  BY <1>2, <1>3, <1>4

LEMMA NextPreserves ==
  ASSUME IInv, [Next]_vars
  PROVE  IInv' /\ (Stream!Next \/ UNCHANGED <<Sent, received>>)
BY TransferPreserves, WriteReturnsPreserves, ReadPreserves, OthersPreserve
   DEF Next, Parent, Child, Stream!Next

-----------------------------------------------------------------------------

(* The invariant holds of every behaviour, for any sizes.                   *)
THEOREM InvariantHolds == SafeSpec => []IInv
BY InitEstablishes, NextPreserves, PTL DEF SafeSpec

(* However write and read cut up the transfers, no byte is lost, doubled or *)
(* overtaken, for any size of the frames and of the pipe.                   *)
THEOREM StreamAlwaysInOrder == SafeSpec => []StreamInOrder
<1>1. IInv => StreamInOrder
  BY DEF IInv
<1> QED
  BY <1>1, InvariantHolds, PTL

(* The two loops of writer() and reader() implement the frame stream, for   *)
(* any size of the frames and of the pipe, whoever is killed and whenever.  *)
THEOREM StreamImplemented == SafeSpec => ImplementsStream
<1>1. Init => Stream!Init
  BY DEF Init, Stream!Init
<1>2. IInv /\ [Next]_vars => [Stream!Next]_<<Sent, received>>
  BY NextPreserves
<1> QED
  BY <1>1, <1>2, InvariantHolds, PTL
     DEF SafeSpec, ImplementsStream, Stream!SafeSpec, Stream!svars, Sent

-----------------------------------------------------------------------------
(* How the two processes end, as far as that is not about time *)

\* Which process has which end open, by the place it is at.
Ends ==
  /\ "parent" \in read_end <=> pc_parent \in {"fork", "close", "read", "close_read"}
  /\ "parent" \in write_end <=> pc_parent \in {"fork", "close"}
  /\ "child" \in read_end <=> pc_child = "close"
  /\ "child" \in write_end <=> pc_child \in {"close", "write", "close_write"}
  /\ pc_parent = "fork" => pc_child = "unborn"

\* How the loop of reader() ends, and why SIGPIPE ends writer().
Endings ==
  /\ AllMatch(received)
  /\ pc_parent \in {"close_read", "wait", "done"} => Len(received) = round
  /\ pc_child = "broken" => pc_parent = "killed"

(* No more bytes than those of all frames are ever written.                 *)
LEMMA WrittenAtMost ==
  ASSUME TypeOK, Loops
  PROVE  /\ BytesIn <= round * message_size
         /\ BytesIn = round * message_size => i_writer = round \/ ptr_writer + moved = message_size
<1>1. CASE i_writer = round
  <2>1. BytesIn = round * message_size
    BY <1>1, Sizes, Counts DEF BytesIn, Loops
  <2> QED
    BY <1>1, <2>1, Counts
<1>2. CASE i_writer < round
  <2>1. (i_writer + 1) * message_size <= round * message_size
    <3>1. i_writer + 1 <= round /\ i_writer + 1 \in Nat
      BY <1>2, Sizes DEF TypeOK
    <3> QED
      BY <3>1, Sizes
  <2>2. (i_writer + 1) * message_size = i_writer * message_size + message_size
    BY Sizes, NextFrame DEF TypeOK
  <2> DEFINE whole == round * message_size
             before == i_writer * message_size
  <2>3. /\ whole \in Nat /\ before \in Nat /\ before + message_size <= whole
        /\ ptr_writer \in Nat /\ moved \in Nat /\ message_size \in Nat
        /\ ptr_writer + moved <= message_size /\ BytesIn = before + ptr_writer + moved
    BY <2>1, <2>2, Sizes, NextFrame, Counts DEF BytesIn, TypeOK, Loops
  <2> HIDE DEF whole, before
  <2>4. BytesIn <= whole /\ (BytesIn = whole => ptr_writer + moved = message_size)
    BY <2>3
  <2> QED
    BY <2>4 DEF whole
<1> QED
  BY <1>1, <1>2, Sizes DEF TypeOK, Loops

LEMMA EndsAtFirst == Init => Ends /\ Endings
<1> SUFFICES ASSUME Init PROVE Ends /\ Endings
  OBVIOUS
<1>1. received = <<>> /\ Len(received) = 0
  BY DEF Init
<1> QED
  BY <1>1 DEF Init, Ends, Endings, AllMatch

LEMMA EndsPreserved ==
  ASSUME IInv, Ends, [Next]_vars
  PROVE  Ends'
<1> USE DEF Ends, ParentGoes, ChildGoes, ends
<1>1. CASE Fork \/ CloseWriteEnd \/ CloseReadEnd
  BY <1>1 DEF Fork, CloseWriteEnd, CloseReadEnd
<1>2. CASE BrokenPipe \/ WriterDone \/ ReaderDone \/ Wait
  BY <1>2 DEF BrokenPipe, WriterDone, ReaderDone, Wait
<1>3. CASE KillParent
  BY <1>3 DEF KillParent
<1>4. CASE KillChild
  BY <1>4 DEF KillChild
<1>5. CASE Transfer \/ WriteReturns
  BY <1>5 DEF Transfer, WriteReturns
<1>6. CASE Read
  <2>1. pc_parent = "read" /\ pc_parent' \in {"read", "close_read"} /\ UNCHANGED <<pc_child, ends>>
    BY <1>6 DEF Read
  <2> QED
    BY <2>1
<1>7. CASE UNCHANGED vars
  BY <1>7 DEF vars
<1> QED
  BY <1>1, <1>2, <1>3, <1>4, <1>5, <1>6, <1>7 DEF Next, Parent, Child

LEMMA EndingsPreserved ==
  ASSUME IInv, Ends, Endings, [Next]_vars
  PROVE  Endings'
<1>1. CASE Read
  <2>1. /\ pc_parent = "read" /\ pc_child' = pc_child
        /\ \/ UNCHANGED <<pc_parent, received>>
           \/ /\ received' # received
              /\ pc_parent' = IF Len(received') < round THEN "read" ELSE "close_read"
    <3>1. Append(received, Overlaid(local_frame, ptr_reader,
                                    SubSeq(pipe, 1, Least(Len(pipe), message_size - ptr_reader))))
            # received
      <4>1. \A f : Len(Append(received, f)) = Len(received) + 1 /\ Len(received) \in Nat
        BY DEF IInv, TypeOK
      <4> QED
        BY <4>1
    <3> QED
      BY <1>1, <3>1 DEF Read
  <2>2. CASE UNCHANGED <<pc_parent, received>>
    BY <2>1, <2>2 DEF Endings
  <2>3. CASE received' # received
    <3>1. Stream!Receive
      BY <1>1, <2>3, ReadPreserves
    <3>2. /\ Len(received) < Sent /\ Sent <= round /\ Len(received) \in Nat /\ Sent \in Nat
      BY <3>1, Sizes, Counts DEF Stream!Receive, Sent, IInv, TypeOK, Loops
    <3>3. received' = Append(received, Generated(Len(received)))
      <4>1. Len(received) \in 0 .. round - 1
        BY <3>2, Sizes
      <4> QED
        BY <3>1, <4>1 DEF Stream!Receive
    <3>4. /\ Len(received') = Len(received) + 1
          /\ \A n \in 1 .. Len(received) : received'[n] = received[n]
          /\ received'[Len(received) + 1] = Generated(Len(received))
      BY <3>3 DEF IInv, TypeOK
    <3>5. ASSUME NEW n \in 1 .. Len(received') PROVE received'[n] = Generated(n - 1)
      <4>1. CASE n \in 1 .. Len(received)
        BY <3>4, <4>1 DEF Endings, AllMatch
      <4>2. CASE n = Len(received) + 1
        <5>1. n - 1 = Len(received)
          BY <3>2, <4>2
        <5> QED
          BY <3>4, <4>2, <5>1
      <4> QED
        BY <3>2, <3>4, <4>1, <4>2
    <3>6. pc_parent' \in {"close_read", "wait", "done"} => Len(received') = round
      BY <2>1, <2>3, <3>2, <3>4, Sizes
    <3> QED
      BY <2>1, <3>5, <3>6 DEF Endings, AllMatch
  <2> QED
    BY <2>1, <2>2, <2>3
<1>2. CASE BrokenPipe
  <2>1. /\ pc_child = "write" /\ read_end = {} /\ ptr_writer + moved < message_size
        /\ UNCHANGED <<pc_parent, received>>
    BY <1>2 DEF BrokenPipe, ChildGoes, reading
  <2>2. i_writer < round
    BY <2>1 DEF IInv, Loops
  <2>3. Len(received) # round
    <3> SUFFICES ASSUME Len(received) = round PROVE FALSE
      OBVIOUS
    <3>1. BytesIn >= round * message_size
      BY Counts, Sizes DEF IInv, StreamInOrder, BytesOut, TypeOK
    <3>2. /\ BytesIn <= round * message_size
          /\ BytesIn = round * message_size
               => i_writer = round \/ ptr_writer + moved = message_size
      BY WrittenAtMost DEF IInv
    <3>3. BytesIn \in Nat /\ round * message_size \in Nat
      BY Counts, Sizes, NextFrame DEF IInv
    <3>4. BytesIn = round * message_size
      BY <3>1, <3>2, <3>3
    <3>5. i_writer # round /\ ptr_writer + moved # message_size
      BY <2>1, <2>2, Sizes DEF IInv, TypeOK
    <3> QED
      BY <3>2, <3>4, <3>5
  <2>4. pc_parent = "killed"
    BY <2>1, <2>3 DEF IInv, TypeOK, Ends, Endings
  <2> QED
    BY <2>1, <2>4 DEF Endings
<1>3. CASE Fork \/ CloseWriteEnd \/ CloseReadEnd \/ WriterDone \/ ReaderDone \/ Wait \/ KillParent
             \/ KillChild \/ Transfer \/ WriteReturns \/ UNCHANGED vars
  BY <1>3 DEF Fork, CloseWriteEnd, CloseReadEnd, WriterDone, ReaderDone, Wait, KillParent,
              KillChild, Transfer, WriteReturns, vars, ParentGoes, ChildGoes, reading, Endings
<1> QED
  BY <1>1, <1>2, <1>3 DEF Next, Parent, Child

LEMMA EndingsHold == SafeSpec => [](IInv /\ Ends /\ Endings)
<1>1. IInv /\ Ends /\ Endings /\ [Next]_vars => Ends' /\ Endings'
  BY EndsPreserved, EndingsPreserved
<1> QED
  BY <1>1, InvariantHolds, EndsAtFirst, PTL DEF SafeSpec

(* A reader that leaves its loop has got all the frames, each as it was     *)
(* generated, and leaves nothing in the pipe, whether or not the last write *)
(* of its writer has returned, or ever will.                                *)
THEOREM ReaderEndsWithAllFrames ==
  SafeSpec => [](pc_parent \in {"close_read", "wait", "done"}
                   => pipe = <<>> /\ received = [n \in 1 .. round |-> Generated(n - 1)])
<1>1. ASSUME IInv, Endings, pc_parent \in {"close_read", "wait", "done"}
      PROVE  pipe = <<>> /\ received = [n \in 1 .. round |-> Generated(n - 1)]
  <2>1. Len(received) = round /\ received = [n \in 1 .. Len(received) |-> received[n]]
    BY <1>1 DEF Endings, IInv, TypeOK
  <2>2. Len(pipe) = 0
    <3>1. BytesIn = round * message_size + ptr_reader + Len(pipe)
      BY <1>1, <2>1 DEF IInv, StreamInOrder, BytesOut
    <3>2. BytesIn <= round * message_size /\ BytesIn \in Nat /\ round * message_size \in Nat
      BY <1>1, WrittenAtMost, Counts, Sizes, NextFrame DEF IInv
    <3>3. ptr_reader \in Nat /\ Len(pipe) \in Nat
      BY <1>1 DEF IInv, TypeOK
    <3> QED
      BY <3>1, <3>2, <3>3
  <2>3. pipe = <<>>
    BY <1>1, <2>2 DEF IInv, TypeOK
  <2> QED
    BY <1>1, <2>1, <2>3 DEF Endings, AllMatch
<1> QED
  BY <1>1, EndingsHold, PTL

(* SIGPIPE ends no writer but one whose reader was killed: the reader of    *)
(* all frames closes its end when there is nothing more to write.           *)
THEOREM OnlyAKilledReaderBreaksThePipe ==
  SafeSpec => [](pc_child = "broken" => pc_parent = "killed")
<1>1. Endings => (pc_child = "broken" => pc_parent = "killed")
  BY DEF Endings
<1> QED
  BY <1>1, EndingsHold, PTL

(* When one of the processes is killed nobody but the other has its end of  *)
(* the pipe left open, so that a write gets SIGPIPE and a read the end of   *)
(* file: what WriterNoticesReader and ReaderEndsIffAllIsWritten rest on.    *)
THEOREM DeathClosesThePipe ==
  SafeSpec => [](/\ pc_parent = "killed" /\ pc_child = "write" => read_end = {}
                 /\ pc_child = "killed" /\ pc_parent = "read" => write_end = {})
<1>1. IInv /\ Ends => /\ pc_parent = "killed" /\ pc_child = "write" => read_end = {}
                      /\ pc_child = "killed" /\ pc_parent = "read" => write_end = {}
  BY DEF IInv, TypeOK, Ends
<1> QED
  BY <1>1, EndingsHold, PTL

-----------------------------------------------------------------------------
(* Progress: what the liveness properties need besides fairness             *)

\* When a process can go on by itself: the guards of its actions.
ParentCanStep ==
  \/ pc_parent \in {"fork", "close", "close_read"}
  \/ pc_parent = "read" /\ pipe # <<>>
  \/ pc_parent = "wait" /\ pc_child \in {"done", "broken", "killed"}

ChildCanStep ==
  \/ pc_child = "close"
  \/ pc_child = "close_write"
  \/ /\ pc_child = "write"
     /\ \/ moved > 0
        \/ read_end = {}
        \/ Len(pipe) < PipeSize

\* How many more places the two processes can go to.
ParentPlaces == CASE pc_parent = "fork" -> 5
                  [] pc_parent = "close" -> 4
                  [] pc_parent = "read" -> 3
                  [] pc_parent = "close_read" -> 2
                  [] pc_parent = "wait" -> 1
                  [] pc_parent \in {"done", "killed"} -> 0

ChildPlaces == CASE pc_child = "unborn" -> 4
                 [] pc_child = "close" -> 3
                 [] pc_child = "write" -> 2
                 [] pc_child = "close_write" -> 1
                 [] pc_child \in {"done", "broken", "killed"} -> 0

\* How often a read and a write can still move bytes, at the most; a write
\* that has moved some has to return.
Reads == round * message_size - BytesOut
Writes == 2 * (round * message_size - BytesIn) + (IF moved > 0 THEN 1 ELSE 0)

StepCounts == ParentPlaces \in Nat /\ ChildPlaces \in Nat /\ Reads \in Nat /\ Writes \in Nat

\* A step after which there is less to do of one kind and not more of any.
StepSpent ==
  /\ ParentPlaces' <= ParentPlaces /\ ChildPlaces' <= ChildPlaces
  /\ Reads' <= Reads /\ Writes' <= Writes
  /\ \/ ParentPlaces' < ParentPlaces \/ ChildPlaces' < ChildPlaces
     \/ Reads' < Reads \/ Writes' < Writes

\* Both processes are over, or the child was never born.
BothOver == /\ pc_parent \in {"done", "killed"}
            /\ pc_child \in {"unborn", "done", "broken", "killed"}

\* Where the two loops are when they have not ended, and when they have.
Course ==
  /\ pc_parent \in {"fork", "close", "read"} => Len(received) < round
  /\ pc_child \in {"close_write", "done"} => i_writer = round
  /\ pc_child = "unborn" => pc_parent \in {"fork", "killed"}

LEMMA CourseHolds == SafeSpec => [](IInv /\ Ends /\ Endings /\ Course)
<1>1. Init => Course
  <2> SUFFICES ASSUME Init PROVE Course
    OBVIOUS
  <2>1. Len(received) = 0
    BY DEF Init
  <2> QED
    BY <2>1, Sizes DEF Init, Course
<1>2. IInv /\ Course /\ [Next]_vars => Course'
  <2> SUFFICES ASSUME IInv, Course, [Next]_vars PROVE Course'
    OBVIOUS
  <2>1. CASE Read
    <3>1. /\ pc_parent = "read" /\ UNCHANGED <<pc_child, i_writer>>
          /\ \/ UNCHANGED <<pc_parent, received>>
             \/ pc_parent' = IF Len(received') < round THEN "read" ELSE "close_read"
      BY <2>1 DEF Read, writing
    <3> QED
      BY <3>1 DEF Course
  <2>2. CASE WriteReturns
    <3>1. /\ pc_child = "write" /\ i_writer < round /\ UNCHANGED <<pc_parent, received>>
          /\ pc_child' = IF i_writer' < round THEN "write" ELSE "close_write"
          /\ i_writer' = i_writer \/ i_writer' = i_writer + 1
      BY <2>2 DEF WriteReturns, ChildGoes, reading, IInv, Loops
    <3> QED
      BY <3>1, Sizes DEF Course, IInv, TypeOK
  <2>3. CASE Fork \/ CloseWriteEnd \/ CloseReadEnd
    BY <2>3 DEF Fork, CloseWriteEnd, CloseReadEnd, ParentGoes, ChildGoes, writing, reading, Course
  <2>4. CASE BrokenPipe \/ WriterDone \/ ReaderDone \/ Wait
    BY <2>4 DEF BrokenPipe, WriterDone, ReaderDone, Wait, ParentGoes, ChildGoes, writing, reading,
                Course
  <2>5. CASE KillParent \/ KillChild \/ Transfer \/ UNCHANGED vars
    BY <2>5 DEF KillParent, KillChild, Transfer, vars, writing, reading, Course
  <2> QED
    BY <2>1, <2>2, <2>3, <2>4, <2>5 DEF Next, Parent, Child
<1> QED
  BY <1>1, <1>2, EndingsHold, PTL DEF SafeSpec

LEMMA ReadBeforeTheEnd ==
  ASSUME TypeOK, Loops, Len(received) < round
  PROVE  BytesOut < round * message_size
<1> DEFINE whole == round * message_size
           before == Len(received) * message_size
<1>1. (Len(received) + 1) * message_size <= whole
  <2>1. Len(received) + 1 \in Nat /\ Len(received) + 1 <= round
    BY Counts, Sizes
  <2> QED
    BY <2>1, Sizes
<1>2. /\ before + message_size <= whole /\ before \in Nat /\ whole \in Nat
      /\ BytesOut = before + ptr_reader
  BY <1>1, Counts, Sizes, NextFrame DEF BytesOut
<1>3. ptr_reader \in Nat /\ ptr_reader < message_size /\ message_size \in Nat
  BY Sizes DEF TypeOK, Loops
<1> HIDE DEF whole, before
<1>4. BytesOut < whole
  BY <1>2, <1>3
<1> QED
  BY <1>4 DEF whole

LEMMA ReadTakesBytes ==
  ASSUME IInv, Read
  PROVE  Len(pipe') < Len(pipe) /\ BytesOut' \in Nat /\ Len(pipe') \in Nat
<1> DEFINE n == Least(Len(pipe), message_size - ptr_reader)
<1>1. pipe # <<>> /\ pipe' = SubSeq(pipe, n + 1, Len(pipe))
  BY DEF Read
<1>2. n \in Nat \ {0} /\ n <= Len(pipe) /\ Len(pipe) \in Nat
  BY <1>1, Counts, Sizes DEF Least, IInv, TypeOK, Loops
<1> HIDE DEF n
<1>3. n + 1 \in Int /\ Len(pipe) \in Int /\ \A k \in n + 1 .. Len(pipe) : pipe[k] \in Int
  BY <1>2 DEF IInv, TypeOK
<1>4. Len(pipe') = IF n + 1 <= Len(pipe) THEN Len(pipe) - (n + 1) + 1 ELSE 0
  BY <1>1, <1>3, SubSeqProperties
<1>5. BytesOut' \in Nat
  <2>1. received' \in Seq([Position -> Int]) /\ ptr_reader' \in Nat
    BY ReadPreserves DEF IInv, TypeOK
  <2>2. Len(received') \in Nat
    BY <2>1
  <2>3. Len(received') * message_size \in Nat
    BY <2>2, Sizes
  <2> QED
    BY <2>1, <2>3 DEF BytesOut
<1> QED
  BY <1>2, <1>4, <1>5

LEMMA StuckFor ==
  ASSUME IInv, Ends, Endings, Course, ~ParentCanStep, ~ChildCanStep
  PROVE  \/ BothOver
         \/ pc_parent = "read" /\ pc_child = "killed" /\ pipe = <<>> /\ write_end = {}
<1>1. /\ pc_parent \in {"read", "wait", "done", "killed"}
      /\ pc_child \in {"unborn", "write", "done", "broken", "killed"}
      /\ pc_parent = "read" => pipe = <<>>
      /\ pc_parent = "wait" => pc_child \notin {"done", "broken", "killed"}
      /\ pc_child = "write" => ~(moved > 0) /\ read_end # {} /\ ~(Len(pipe) < PipeSize)
  BY DEF IInv, TypeOK, ParentCanStep, ChildCanStep
<1>2. pc_parent = "read" => Len(pipe) = 0
  BY <1>1
<1>3. CASE pc_child = "write"
  \* The pipe is full, so the parent is past its loop or was killed, and closed its end.
  <2>1. pc_parent # "read"
    BY <1>1, <1>2, <1>3, Sizes
  <2>2. "parent" \notin read_end /\ "child" \notin read_end
    BY <1>1, <1>3, <2>1 DEF Ends
  <2> QED
    BY <1>1, <1>3, <2>2 DEF IInv, TypeOK
<1>4. CASE pc_child # "write" /\ pc_parent = "read"
  <2>1. pc_child # "unborn"
    BY <1>4 DEF Course
  <2>2. pc_child # "broken"
    BY <1>4 DEF Endings
  <2>3. pc_child # "done"
    <3> SUFFICES ASSUME pc_child = "done" PROVE FALSE
      OBVIOUS
    <3>1. i_writer = round /\ ptr_writer = 0 /\ moved = 0
      BY DEF Course, IInv, Loops
    <3>2. BytesIn = round * message_size
      BY <3>1, Sizes, NextFrame DEF BytesIn
    <3>3. BytesIn = BytesOut
      BY <1>2, <1>4, Counts DEF IInv, StreamInOrder
    <3>4. BytesOut < round * message_size
      BY <1>4, ReadBeforeTheEnd DEF IInv, Course
    <3>5. BytesOut \in Nat
      BY Counts DEF IInv
    <3> QED
      BY <3>2, <3>3, <3>4, <3>5
  <2>4. pc_child = "killed"
    BY <1>1, <1>4, <2>1, <2>2, <2>3
  <2>5. write_end = {}
    BY <1>4, <2>4 DEF IInv, TypeOK, Ends
  <2> QED
    BY <1>1, <1>4, <2>4, <2>5
<1>5. CASE pc_child # "write" /\ pc_parent = "wait"
  BY <1>1, <1>5 DEF Course
<1>6. CASE pc_child # "write" /\ pc_parent \in {"done", "killed"}
  BY <1>1, <1>6 DEF BothOver
<1> QED
  BY <1>1, <1>3, <1>4, <1>5, <1>6

(* The two loops never wait for one another, whatever the sizes and however *)
(* the transfers are cut up: when neither process can go on, both are over, *)
(* or the reader is at the end of the file of a writer that was killed.  A  *)
(* writer that waits for room, above all, has a reader that will make some. *)
THEOREM StuckOnlyAtTheEndOfFile ==
  SafeSpec => [](~ParentCanStep /\ ~ChildCanStep
                   => \/ BothOver
                      \/ /\ pc_parent = "read" /\ pc_child = "killed"
                         /\ pipe = <<>> /\ write_end = {})
BY StuckFor, CourseHolds, PTL

LEMMA StepsAreCounted == IInv => StepCounts
<1> SUFFICES ASSUME IInv PROVE StepCounts
  OBVIOUS
<1>1. /\ BytesIn \in Nat /\ BytesOut \in Nat /\ round * message_size \in Nat
      /\ BytesIn <= round * message_size /\ BytesOut <= BytesIn
  BY Counts, Sizes, NextFrame, WrittenAtMost DEF IInv, StreamInOrder
<1>2. Reads \in Nat /\ Writes \in Nat
  BY <1>1 DEF Reads, Writes
<1>3. ParentPlaces \in Nat /\ ChildPlaces \in Nat
  BY DEF IInv, TypeOK, ParentPlaces, ChildPlaces
<1> QED
  BY <1>2, <1>3 DEF StepCounts

LEMMA StepSpends == IInv /\ [Next]_vars => StepSpent \/ UNCHANGED vars
<1> SUFFICES ASSUME IInv, Next PROVE StepSpent
  OBVIOUS
<1>0. /\ StepCounts /\ BytesIn \in Nat /\ BytesOut \in Nat /\ moved \in Nat
      /\ round * message_size \in Nat /\ Len(pipe) \in Nat
      /\ BytesIn = BytesOut + Len(pipe)
      /\ pc_parent \in {"fork", "close", "read", "close_read", "wait", "done", "killed"}
      /\ pc_child \in {"unborn", "close", "write", "close_write", "done", "broken", "killed"}
  BY StepsAreCounted, Counts, Sizes, NextFrame DEF IInv, TypeOK, StreamInOrder
<1> DEFINE whole == round * message_size
<1>1. CASE Fork \/ CloseWriteEnd \/ CloseReadEnd \/ BrokenPipe \/ WriterDone \/ ReaderDone
             \/ Wait \/ KillParent \/ KillChild
  <2>1. Reads' = Reads /\ Writes' = Writes
    BY <1>1 DEF Fork, CloseWriteEnd, CloseReadEnd, BrokenPipe, WriterDone, ReaderDone, Wait,
                KillParent, KillChild, Reads, Writes, BytesIn, BytesOut, writing, reading
  <2>2. /\ ParentPlaces' <= ParentPlaces /\ ChildPlaces' <= ChildPlaces
        /\ ParentPlaces' < ParentPlaces \/ ChildPlaces' < ChildPlaces
    <3> USE <1>0 DEF ParentPlaces, ChildPlaces, ParentGoes, ChildGoes
    <3>1. CASE Fork \/ CloseWriteEnd \/ CloseReadEnd
      BY <3>1 DEF Fork, CloseWriteEnd, CloseReadEnd
    <3>2. CASE BrokenPipe \/ WriterDone \/ ReaderDone \/ Wait
      BY <3>2 DEF BrokenPipe, WriterDone, ReaderDone, Wait
    <3>3. CASE KillParent \/ KillChild
      BY <3>3 DEF KillParent, KillChild
    <3> QED
      BY <1>1, <3>1, <3>2, <3>3
  <2> QED
    BY <1>0, <2>1, <2>2 DEF StepSpent, StepCounts
<1>2. CASE Transfer
  <2>1. PICK n \in Nat \ {0} : /\ moved' = moved + n
                              /\ UNCHANGED <<pc_parent, pc_child, i_writer, ptr_writer, reading>>
    BY <1>2, Sizes, SMTT(30) DEF Transfer, Least, IInv, TypeOK, Loops
  <2>2. BytesIn' = BytesIn + n /\ BytesOut' = BytesOut
    <3> DEFINE before == i_writer * message_size
    <3>1. before \in Nat /\ ptr_writer \in Nat /\ BytesIn = before + ptr_writer + moved
      BY Counts DEF IInv, TypeOK, BytesIn
    <3>2. BytesIn' = before + ptr_writer + (moved + n)
      BY <2>1 DEF BytesIn
    <3> HIDE DEF before
    <3>3. BytesIn' = BytesIn + n
      BY <1>0, <3>1, <3>2
    <3> QED
      BY <2>1, <3>3 DEF BytesOut, reading
  <2> HIDE DEF whole
  <2>3. Reads' = Reads /\ Writes' < Writes /\ Writes' <= Writes
    BY <1>0, <2>1, <2>2, SMTT(30) DEF Reads, Writes
  <2>4. ParentPlaces' = ParentPlaces /\ ChildPlaces' = ChildPlaces
    BY <2>1 DEF ParentPlaces, ChildPlaces
  <2> QED
    BY <1>0, <2>3, <2>4 DEF StepSpent, StepCounts
<1>3. CASE WriteReturns
  <2>1. /\ pc_child = "write" /\ moved > 0 /\ moved' = 0
        /\ pc_child' \in {"write", "close_write"} /\ UNCHANGED <<pc_parent, pipe, reading>>
    BY <1>3 DEF WriteReturns, ChildGoes
  <2>2. BytesOut' = BytesOut
    BY <2>1 DEF BytesOut, reading
  <2>3. BytesIn' = BytesIn
    <3>1. BytesIn' = BytesOut' + Len(pipe)'
      BY <1>3, WriteReturnsPreserves DEF IInv, StreamInOrder
    <3> QED
      BY <1>0, <2>1, <2>2, <3>1
  <2>4. Reads' = Reads /\ Writes' < Writes /\ Writes' <= Writes
    BY <1>0, <2>1, <2>2, <2>3 DEF Reads, Writes
  <2>5. ParentPlaces' = ParentPlaces /\ ChildPlaces' <= ChildPlaces
    BY <2>1 DEF ParentPlaces, ChildPlaces
  <2> QED
    BY <1>0, <2>4, <2>5 DEF StepSpent, StepCounts
<1>4. CASE Read
  <2>1. /\ pc_parent = "read" /\ pc_parent' \in {"read", "close_read"}
        /\ UNCHANGED <<pc_child, writing>>
    BY <1>4 DEF Read
  <2>2. BytesIn' = BytesIn
    BY <2>1 DEF BytesIn, writing
  <2>3. Len(pipe') < Len(pipe)
    BY <1>4, ReadTakesBytes
  <2>4. BytesOut' > BytesOut /\ BytesOut' \in Nat /\ Len(pipe') \in Nat
    <3>1. BytesIn' = BytesOut' + Len(pipe') /\ BytesOut' \in Nat /\ Len(pipe') \in Nat
      BY <1>4, ReadPreserves, ReadTakesBytes DEF IInv, StreamInOrder
    <3> QED
      BY <1>0, <2>2, <2>3, <3>1
  <2>5. Reads' < Reads /\ Reads' <= Reads /\ Writes' = Writes
    BY <1>0, <2>1, <2>2, <2>4 DEF Reads, Writes, writing
  <2>6. ParentPlaces' <= ParentPlaces /\ ChildPlaces' = ChildPlaces
    BY <2>1 DEF ParentPlaces, ChildPlaces
  <2> QED
    BY <1>0, <2>5, <2>6 DEF StepSpent, StepCounts
<1> QED
  BY <1>1, <1>2, <1>3, <1>4 DEF Next, Parent, Child

(* The step counts are natural numbers, and every step lowers one of them   *)
(* and raises none: however the transfers are cut up, the two loops come to *)
(* a stop, for any number and size of frames and any size of the pipe.      *)
THEOREM StepsRunOut == SafeSpec => []StepCounts /\ [][StepSpent]_vars
BY StepsAreCounted, StepSpends, InvariantHolds, PTL DEF SafeSpec
=============================================================================
