-------------------------- MODULE NamedPipeProofs --------------------------
(***************************************************************************)
(* Proofs about the FIFO, for any number of runs, any of them killed, any  *)
(* number and size of frames and any size of the pipe.                     *)
(***************************************************************************)
EXTENDS NamedPipeProperties, SequenceTheorems, TLAPS

(* Every variable holds a value of its C++ or kernel type.                  *)
TypeOK ==
  /\ fifo_path \in Run \union {None}
  /\ pc_parent \in [Run -> {"mkfifo", "open", "opening", "write", "close", "wait", "unlink",
                            "done", "failed", "broken", "killed"}]
  /\ pc_child \in [Run -> {"unborn", "open", "opening", "read", "close", "done", "failed",
                           "killed"}]
  /\ write_fd \in [Run -> Run \union {None}] /\ read_fd \in [Run -> Run \union {None}]
  /\ pipe \in [Run -> Seq(Int)]
  /\ i_writer \in [Run -> Nat] /\ moved \in [Run -> Nat] /\ ptr_reader \in [Run -> Nat]
  /\ local_frame \in [Run -> [Position -> Int]]
  /\ received \in [Run -> Seq([Position -> Int])]
  /\ cut \subseteq Run /\ crossed \subseteq Run

\* Where the two processes of a run have an end open, and how far their loops are.
Ends ==
  \A r \in Run :
    /\ write_fd[r] # None <=> pc_parent[r] \in {"opening", "write", "close"}
    /\ read_fd[r] # None <=> pc_child[r] \in {"opening", "read", "close"}
    /\ moved[r] <= message_size /\ ptr_reader[r] < message_size
    /\ i_writer[r] <= round /\ (i_writer[r] = round => moved[r] = 0)
    /\ pc_parent[r] \in {"mkfifo", "open", "opening", "write"} => i_writer[r] < round
    /\ pc_child[r] \in {"close", "done"} => Len(received[r]) = round

\* A path is there as long as somebody has still to remove it.
Path ==
  fifo_path # None => \E r \in Run : pc_parent[r] \notin {"mkfifo", "done", "failed"}

Users(f) == Writers(f) \union Readers(f)

\* A FIFO that nobody has open holds nothing.
Unused == \A f \in Run : Users(f) = {} => pipe[f] = <<>>

\* Runs that have a FIFO open together are marked.
Apart == \A f, q, r \in Run : q \in Users(f) /\ r \in Users(f) /\ q # r => r \in crossed

In(r) == i_writer[r] * message_size + moved[r]
Out(r) == Len(received[r]) * message_size + ptr_reader[r]

\* Until its reader reads, nothing has gone through the FIFO of a run.
Before(r) ==
  /\ pc_child[r] \in {"unborn", "open", "opening"} =>
       /\ pc_parent[r] \in {"mkfifo", "open", "opening", "failed", "killed"}
       /\ i_writer[r] = 0 /\ moved[r] = 0 /\ r \notin cut
       /\ received[r] = <<>> /\ ptr_reader[r] = 0
  /\ pc_parent[r] = "opening" => pipe[write_fd[r]] = <<>>
  /\ pc_child[r] = "opening" => pipe[read_fd[r]] = <<>>
  /\ pc_child[r] \in {"read", "close", "done"} => pc_parent[r] \notin {"mkfifo", "open", "opening"}

\* While it reads, the bytes that are missing are those that short writes left out.
During(r) ==
  pc_child[r] = "read" =>
    /\ write_fd[r] \in {None, read_fd[r]}
    /\ r \in cut => Out(r) + Len(pipe[read_fd[r]]) < In(r)
    /\ r \notin cut =>
         /\ Out(r) + Len(pipe[read_fd[r]]) = In(r)
         /\ \A n \in 1 .. Len(pipe[read_fd[r]]) :
              pipe[read_fd[r]][n] = Byte(generating_seed + ((Out(r) + n - 1) \div message_size))
         /\ \A k \in Position :
              k < ptr_reader[r] => local_frame[r][k] = Byte(generating_seed + Len(received[r]))

\* When it has read all, nothing was left out, and nothing is left to write.
After(r) == pc_child[r] \in {"close", "done"} => r \notin cut /\ In(r) = round * message_size

Quiet(r) == Before(r) /\ During(r) /\ After(r) /\ (r \notin cut => AllMatch(received[r]))

Quietly == \A r \in Run \ crossed : Quiet(r)

IInv == TypeOK /\ Ends /\ Path /\ Unused /\ Apart /\ Quietly

Step(q) == ParentStep(q) \/ ChildStep(q) \/ KillParent(q) \/ KillChild(q)

-----------------------------------------------------------------------------
(* Positions of a stream that is cut into frames *)

LEMMA Sizes == /\ message_size \in Nat \ {0} /\ round \in Nat \ {0} /\ PipeSize \in Nat \ {0}
               /\ Position = 0 .. message_size - 1 /\ None \notin Run
BY FramesAssumption, PipeAssumption, RunAssumption DEF Position

LEMMA Bytes == \A n \in Nat : Byte(generating_seed + n) \in Int
BY DEF Byte, generating_seed

LEMMA NextFrame == \A m \in Nat, i \in Nat : (i + 1) * m = i * m + m /\ i * m \in Nat
OBVIOUS

LEMMA MoreFrames == \A m \in Nat, i, j \in Nat : i <= j => i * m <= j * m
OBVIOUS

LEMMA FrameOfPosition ==
  \A m \in Nat \ {0}, i \in Nat, k \in Nat : k < m => (i * m + k) \div m = i
<1> SUFFICES ASSUME NEW m \in Nat \ {0}, NEW i \in Nat, NEW k \in Nat, k < m
             PROVE  (i * m + k) \div m = i
  OBVIOUS
<1> DEFINE q == (i * m + k) \div m
<1>1. q \in Int /\ m * q <= i * m + k /\ i * m + k < m * q + m
  OBVIOUS
<1>2. CASE q < i
  <2>1. m * (q + 1) <= m * i
    BY <1>1, <1>2
  <2> QED
    BY <1>1, <2>1
<1>3. CASE i < q
  <2>1. m * (i + 1) <= m * q
    BY <1>1, <1>3
  <2> QED
    BY <1>1, <2>1
<1> QED
  BY <1>1, <1>2, <1>3

(* The bytes of a chunk.                                                    *)
LEMMA ChunkBytes ==
  ASSUME NEW i \in Nat, NEW n \in Nat
  PROVE  /\ Chunk(i, n) \in Seq(Int) /\ Len(Chunk(i, n)) = n
         /\ \A k \in 1 .. n : Chunk(i, n)[k] = Byte(generating_seed + i)
BY Bytes DEF Chunk

(* The bytes that go in and out are counted from 0.                         *)
LEMMA Counts ==
  ASSUME TypeOK, NEW r \in Run
  PROVE  /\ i_writer[r] \in Nat /\ moved[r] \in Nat /\ ptr_reader[r] \in Nat
         /\ i_writer[r] * message_size \in Nat /\ Len(received[r]) * message_size \in Nat
         /\ In(r) \in Nat /\ Out(r) \in Nat /\ Len(received[r]) \in Nat
         /\ \A f \in Run : pipe[f] \in Seq(Int) /\ Len(pipe[f]) \in Nat
<1>1. /\ i_writer[r] \in Nat /\ moved[r] \in Nat /\ ptr_reader[r] \in Nat
      /\ Len(received[r]) \in Nat /\ \A f \in Run : pipe[f] \in Seq(Int) /\ Len(pipe[f]) \in Nat
  BY DEF TypeOK
<1>2. i_writer[r] * message_size \in Nat /\ Len(received[r]) * message_size \in Nat
  BY <1>1, Sizes, NextFrame
<1> QED
  BY <1>1, <1>2, SMTT(30) DEF In, Out

-----------------------------------------------------------------------------
(* What holds of every run *)

LEMMA InitEstablishes == Init => IInv
<1> SUFFICES ASSUME Init PROVE IInv
  OBVIOUS
<1>1. TypeOK
  BY DEF Init, TypeOK, Zeroed
<1>2. Ends
  BY Sizes DEF Init, Ends
<1>3. Path /\ Unused
  BY DEF Init, Path, Unused
<1>4. Apart
  BY Sizes DEF Init, Apart, Users, Writers, Readers
<1>5. Quietly
  BY DEF Init, Quietly, Quiet, Before, During, After, AllMatch
<1> QED
  BY <1>1, <1>2, <1>3, <1>4, <1>5 DEF IInv

LEMMA PipesType ==
  ASSUME TypeOK, NEW f, NEW readers, NEW writers
  PROVE  PipesWithout(f, readers, writers) \in [Run -> Seq(Int)]
<1>1. pipe \in [Run -> Seq(Int)] /\ <<>> \in Seq(Int)
  BY DEF TypeOK
<1>2. [pipe EXCEPT ![f] = <<>>] \in [Run -> Seq(Int)]
  BY <1>1
<1> QED
  BY <1>1, <1>2 DEF PipesWithout

\* read() takes n bytes, which make the frame what it is, and leaves the rest.
ReadTo(q, n, frame, rest) ==
  /\ pc_child[q] = "read" /\ read_fd[q] \in Run
  /\ n <= Len(pipe[read_fd[q]]) /\ ptr_reader[q] + n <= message_size
  /\ frame = Overlaid(local_frame[q], ptr_reader[q], SubSeq(pipe[read_fd[q]], 1, n))
  /\ Len(rest) = Len(pipe[read_fd[q]]) - n
  /\ \A k \in 1 .. Len(rest) : rest[k] = pipe[read_fd[q]][n + k]
  /\ pipe' = [pipe EXCEPT ![read_fd[q]] = rest]
  /\ local_frame' = [local_frame EXCEPT ![q] = frame]
  /\ ptr_reader' = [ptr_reader EXCEPT ![q] =
                      IF ptr_reader[q] + n = message_size THEN 0 ELSE @ + n]
  /\ received' = [received EXCEPT ![q] =
                    IF ptr_reader[q] + n = message_size THEN Append(@, frame) ELSE @]
  /\ pc_child' = [pc_child EXCEPT ![q] = IF Len(received'[q]) = round
                                          THEN "close" ELSE "read"]
  /\ UNCHANGED <<fifo_path, pc_parent, fds, writing, crossed>>

(* What a run's own read makes of its variables.                            *)
LEMMA ReadMeans ==
  ASSUME TypeOK, Ends, NEW q \in Run, Read(q)
  PROVE  \E n \in Nat \ {0}, frame \in [Position -> Int], rest \in Seq(Int) :
           ReadTo(q, n, frame, rest)
<1> DEFINE f == read_fd[q]
           bytes == pipe[f]
           n == Least(Len(bytes), message_size - ptr_reader[q])
           frame == Overlaid(local_frame[q], ptr_reader[q], SubSeq(bytes, 1, n))
           rest == SubSeq(bytes, n + 1, Len(bytes))
           whole == ptr_reader[q] + n = message_size
           frames == IF whole THEN Append(received[q], frame) ELSE received[q]
<1>1. /\ pc_child[q] = "read" /\ bytes # <<>>
      /\ pipe' = [pipe EXCEPT ![f] = rest]
      /\ local_frame' = [local_frame EXCEPT ![q] = frame]
      /\ ptr_reader' = [ptr_reader EXCEPT ![q] = IF whole THEN 0 ELSE @ + n]
      /\ received' = [received EXCEPT ![q] = frames]
      /\ pc_child' = [pc_child EXCEPT ![q] = IF Len(frames) = round THEN "close" ELSE "read"]
      /\ UNCHANGED <<fifo_path, pc_parent, fds, writing, crossed>>
  BY DEF Read, ChildGoes
<1>2. f \in Run /\ bytes \in Seq(Int) /\ Len(bytes) \in Nat \ {0}
  BY <1>1 DEF Ends, TypeOK
<1>3. n \in Nat \ {0} /\ n <= Len(bytes) /\ ptr_reader[q] + n <= message_size
  <2>1. ptr_reader[q] \in Nat /\ ptr_reader[q] < message_size
    BY DEF Ends, TypeOK
  <2> HIDE DEF bytes
  <2> QED
    BY <1>2, <2>1, Sizes DEF Least
<1>4. received'[q] = frames
  BY <1>1 DEF TypeOK
<1> HIDE DEF n, bytes
<1>5. /\ rest \in Seq(Int) /\ Len(rest) = Len(bytes) - n
      /\ \A k \in 1 .. Len(rest) : rest[k] = bytes[n + k]
  <2>1. n + 1 \in Int /\ Len(bytes) \in Int /\ \A k \in n + 1 .. Len(bytes) : bytes[k] \in Int
    BY <1>2, <1>3
  <2>2. /\ rest \in Seq(Int)
        /\ Len(rest) = IF n + 1 <= Len(bytes) THEN Len(bytes) - (n + 1) + 1 ELSE 0
        /\ \A k \in 1 .. Len(bytes) - (n + 1) + 1 : rest[k] = bytes[(n + 1) + k - 1]
    BY <2>1, SubSeqProperties
  <2>3. Len(rest) = Len(bytes) - n
    BY <1>2, <1>3, <2>2
  <2>4. ASSUME NEW k \in 1 .. Len(rest) PROVE rest[k] = bytes[n + k]
    <3>1. k \in 1 .. Len(bytes) - (n + 1) + 1 /\ (n + 1) + k - 1 = n + k
      BY <1>2, <1>3, <2>3
    <3> QED
      BY <2>2, <3>1
  <2> QED
    BY <2>2, <2>3, <2>4
<1>6. frame \in [Position -> Int]
  <2>1. /\ Len(SubSeq(bytes, 1, n)) = n
        /\ \A k \in 1 .. n : SubSeq(bytes, 1, n)[k] \in Int
    BY <1>2, <1>3
  <2> DEFINE b == SubSeq(bytes, 1, n)
  <2>2. local_frame[q] \in [Position -> Int] /\ ptr_reader[q] \in Nat
    BY DEF TypeOK
  <2> HIDE DEF b
  <2>3. \A k \in Position : (IF k \in ptr_reader[q] .. ptr_reader[q] + Len(b) - 1
                             THEN b[k - ptr_reader[q] + 1] ELSE local_frame[q][k]) \in Int
    <3> SUFFICES ASSUME NEW k \in Position, k \in ptr_reader[q] .. ptr_reader[q] + Len(b) - 1
                 PROVE  b[k - ptr_reader[q] + 1] \in Int
      BY <2>2
    <3>1. k - ptr_reader[q] + 1 \in 1 .. n
      BY <1>3, <2>1, <2>2 DEF b
    <3> QED
      BY <2>1, <3>1 DEF b
  <2>4. Overlaid(local_frame[q], ptr_reader[q], b) \in [Position -> Int]
    BY <2>3 DEF Overlaid
  <2> QED
    BY <2>4 DEF b
<1>7. received' = [received EXCEPT ![q] = IF whole THEN Append(@, frame) ELSE @]
  BY <1>1
<1> HIDE DEF rest, frame
<1> QED
  BY <1>1, <1>2, <1>3, <1>4, <1>5, <1>6, <1>7 DEF bytes, frame, rest, ReadTo

LEMMA TypePreserved ==
  ASSUME TypeOK, Ends, NEW q \in Run, Step(q)
  PROVE  TypeOK'
<1>1. CASE Read(q)
  <2>1. PICK n \in Nat \ {0}, frame \in [Position -> Int], rest \in Seq(Int) :
          ReadTo(q, n, frame, rest)
    BY <1>1, ReadMeans
  <2> USE DEF TypeOK, fds, writing, ReadTo
  <2>2. pipe' \in [Run -> Seq(Int)] /\ local_frame' \in [Run -> [Position -> Int]]
    BY <2>1
  <2>3. ptr_reader' \in [Run -> Nat] /\ received' \in [Run -> Seq([Position -> Int])]
    <3>1. ptr_reader[q] + n \in Nat
      OBVIOUS
    <3>2. Append(received[q], frame) \in Seq([Position -> Int])
      <4>1. received[q] \in Seq([Position -> Int])
        OBVIOUS
      <4> QED
        BY <4>1
    <3>3. ptr_reader' \in [Run -> Nat]
      BY <2>1, <3>1
    <3>4. received' \in {received, [received EXCEPT ![q] = Append(@, frame)]}
      BY <2>1
    <3> QED
      BY <3>2, <3>3, <3>4, ZenonT(40)
  <2>4. pc_child' \in [Run -> {"unborn", "open", "opening", "read", "close", "done", "failed",
                               "killed"}]
    BY <2>1
  <2> QED
    BY <2>1, <2>2, <2>3, <2>4
<1> USE DEF TypeOK, ParentGoes, ChildGoes, fds, writing, reading
<1>2. CASE MakeFifo(q) \/ ParentFindsNoPath(q) \/ ChildFindsNoPath(q) \/ Wait(q) \/ Unlink(q)
  BY <1>2 DEF MakeFifo, ParentFindsNoPath, ChildFindsNoPath, Wait, Unlink
<1>3. CASE OpenToWrite(q)
  <2>1. crossed' \subseteq Run
    BY <1>3 DEF OpenToWrite, Together, Writers, Readers
  <2> QED
    BY <1>3, <2>1 DEF OpenToWrite
<1>4. CASE OpenToRead(q)
  <2>1. crossed' \subseteq Run
    BY <1>4 DEF OpenToRead, Together, Writers, Readers
  <2> QED
    BY <1>4, <2>1 DEF OpenToRead
<1>5. CASE Transfer(q)
  <2>1. PICK n \in 1 .. Least(PipeSize - Len(pipe[write_fd[q]]), message_size - moved[q]) :
          /\ pipe' = [pipe EXCEPT ![write_fd[q]] = @ \o Chunk(i_writer[q], n)]
          /\ moved' = [moved EXCEPT ![q] = @ + n]
    BY <1>5 DEF Transfer
  <2>2. n \in Nat
    BY Sizes DEF Least
  <2>3. Chunk(i_writer[q], n) \in Seq(Int)
    BY <2>2, ChunkBytes
  <2>4. pipe' \in [Run -> Seq(Int)] /\ moved' \in [Run -> Nat]
    <3>1. pipe[write_fd[q]] \o Chunk(i_writer[q], n) \in Seq(Int)
      <4>1. write_fd[q] \in Run
        BY <1>5 DEF Transfer, Ends
      <4>2. pipe[write_fd[q]] \in Seq(Int)
        BY <4>1
      <4> QED
        BY <2>3, <4>2, ConcatProperties
    <3>2. moved[q] + n \in Nat
      BY <2>2, SMTT(30)
    <3> QED
      BY <2>1, <3>1, <3>2
  <2> QED
    BY <1>5, <2>4 DEF Transfer
<1>6. CASE WriteReturns(q)
  BY <1>6 DEF WriteReturns
<1>7. CASE BrokenPipe(q) \/ WriterDone(q) \/ ReaderDone(q) \/ KillParent(q) \/ KillChild(q)
  <2>1. pipe' \in [Run -> Seq(Int)]
    <3> HIDE DEF TypeOK
    <3>1. PICK f, readers, writers : pipe' = PipesWithout(f, readers, writers)
      BY <1>7, Zenon DEF BrokenPipe, WriterDone, ReaderDone, KillParent, KillChild
    <3>2. PipesWithout(f, readers, writers) \in [Run -> Seq(Int)]
      BY PipesType
    <3> QED
      BY <3>1, <3>2
  <2> QED
    BY <1>7, <2>1, ZenonT(40) DEF BrokenPipe, WriterDone, ReaderDone, KillParent, KillChild
<1> QED
  BY <1>1, <1>2, <1>3, <1>4, <1>5, <1>6, <1>7 DEF Step, ParentStep, ChildStep

LEMMA PathPreserved ==
  ASSUME TypeOK, Path, NEW q \in Run, Step(q)
  PROVE  Path'
<1> SUFFICES ASSUME fifo_path' # None
             PROVE  \E r \in Run : pc_parent'[r] \notin {"mkfifo", "done", "failed"}
  BY DEF Path
<1>1. CASE MakeFifo(q)
  BY <1>1 DEF MakeFifo, ParentGoes, TypeOK
<1>2. CASE ~MakeFifo(q)
  <2>1. fifo_path' = fifo_path /\ ~Unlink(q)
    BY <1>2, Zenon DEF Step, ParentStep, ChildStep, OpenToWrite, ParentFindsNoPath, Transfer,
           WriteReturns, BrokenPipe, WriterDone, Wait, Unlink, OpenToRead, ChildFindsNoPath, Read,
           ReaderDone, KillParent, KillChild
  <2>2. PICK r \in Run : pc_parent[r] \notin {"mkfifo", "done", "failed"}
    BY <2>1 DEF Path
  <2>3. pc_parent'[r] \notin {"mkfifo", "done", "failed"}
    BY <1>2, <2>1, <2>2, ZenonT(40)
       DEF TypeOK, Step, ParentStep, ChildStep, OpenToWrite, ParentFindsNoPath, Transfer,
           WriteReturns, BrokenPipe, WriterDone, Wait, OpenToRead, ChildFindsNoPath, Read,
           ReaderDone, KillParent, KillChild, ParentGoes
  <2> QED
    BY <2>3
<1> QED
  BY <1>1, <1>2

LEMMA EndsPreserved ==
  ASSUME TypeOK, Ends, NEW q \in Run, Step(q)
  PROVE  Ends'
<1>1. CASE Read(q)
  <2>1. PICK n \in Nat \ {0}, frame \in [Position -> Int], rest \in Seq(Int) :
          ReadTo(q, n, frame, rest)
    BY <1>1, ReadMeans
  <2>2. /\ pc_child[q] = "read" /\ ptr_reader[q] \in Nat /\ ptr_reader[q] + n <= message_size
        /\ ptr_reader'[q] = IF ptr_reader[q] + n = message_size THEN 0 ELSE ptr_reader[q] + n
        /\ pc_child'[q] = IF Len(received'[q]) = round THEN "close" ELSE "read"
        /\ \A r \in Run \ {q} : UNCHANGED <<ptr_reader[r], pc_child[r], received[r]>>
        /\ UNCHANGED <<pc_parent, write_fd, read_fd, i_writer, moved>>
    BY <2>1 DEF ReadTo, TypeOK, fds, writing
  <2>3. ptr_reader'[q] < message_size
    <3>1. ptr_reader[q] + n = message_size \/ ptr_reader[q] + n < message_size
      <4>1. message_size \in Nat /\ ptr_reader[q] + n \in Nat /\ ptr_reader[q] + n <= message_size
        BY <2>2, Sizes
      <4> QED
        BY <4>1
    <3> QED
      BY <2>2, <3>1, Sizes
  <2> QED
    BY <2>2, <2>3 DEF Ends
<1> USE Sizes DEF TypeOK, Ends, ParentGoes, ChildGoes, fds, writing, reading
<1>2. CASE MakeFifo(q) \/ ParentFindsNoPath(q) \/ ChildFindsNoPath(q) \/ Wait(q) \/ Unlink(q)
  <2>1. CASE MakeFifo(q)
    BY <2>1 DEF MakeFifo
  <2>2. CASE ParentFindsNoPath(q)
    BY <2>2 DEF ParentFindsNoPath
  <2>3. CASE ChildFindsNoPath(q)
    BY <2>3 DEF ChildFindsNoPath
  <2>4. CASE Wait(q)
    BY <2>4 DEF Wait
  <2>5. CASE Unlink(q)
    BY <2>5 DEF Unlink
  <2> QED
    BY <1>2, <2>1, <2>2, <2>3, <2>4, <2>5
<1>3. CASE BrokenPipe(q) \/ WriterDone(q) \/ KillParent(q)
  <2>1. PICK to \in {"broken", "wait", "killed"} :
          /\ pc_parent' = [pc_parent EXCEPT ![q] = to] /\ write_fd' = [write_fd EXCEPT ![q] = None]
          /\ UNCHANGED <<pc_child, read_fd, writing, reading>>
    BY <1>3 DEF BrokenPipe, WriterDone, KillParent
  <2> QED
    BY <2>1
<1>4. CASE ReaderDone(q) \/ KillChild(q)
  <2>1. PICK to \in {"done", "killed"} :
          /\ pc_child' = [pc_child EXCEPT ![q] = to] /\ read_fd' = [read_fd EXCEPT ![q] = None]
          /\ to = "done" => pc_child[q] = "close"
          /\ UNCHANGED <<pc_parent, write_fd, writing, reading>>
    BY <1>4 DEF ReaderDone, KillChild
  <2> QED
    BY <2>1
<1>5. CASE OpenToWrite(q)
  BY <1>5 DEF OpenToWrite, Readers
<1>6. CASE OpenToRead(q)
  BY <1>6 DEF OpenToRead, Writers
<1>7. CASE Transfer(q)
  <2>1. PICK n \in 1 .. Least(PipeSize - Len(pipe[write_fd[q]]), message_size - moved[q]) :
          /\ moved' = [moved EXCEPT ![q] = @ + n] /\ pc_parent[q] = "write"
          /\ UNCHANGED <<pc_parent, pc_child, fds, i_writer, reading>>
    BY <1>7 DEF Transfer
  <2>2. moved[q] + n <= message_size
    BY SMTT(30) DEF Least
  <2> QED
    BY <2>1, <2>2
<1>8. CASE WriteReturns(q)
  BY <1>8 DEF WriteReturns
<1> QED
  BY <1>1, <1>2, <1>3, <1>4, <1>5, <1>6, <1>7, <1>8 DEF Step, ParentStep, ChildStep

(* One run more has a FIFO open; or none has one open that had not before.  *)
LEMMA JoinKeeps ==
  ASSUME Unused, Apart, NEW q \in Run, NEW f \in Run,
         \A g \in Run : Users(g)' = IF g = f THEN Users(f) \union {q} ELSE Users(g),
         Users(f) \union {q} = {q} \/ Users(f) \union {q} \subseteq crossed',
         crossed \subseteq crossed', UNCHANGED pipe
  PROVE  Unused' /\ Apart'
<1>1. Unused'
  BY DEF Unused
<1>2. Apart'
  <2> SUFFICES ASSUME NEW g \in Run, NEW a \in Run, NEW b \in Run,
                      a \in Users(g)', b \in Users(g)', a # b
               PROVE  b \in crossed'
    BY DEF Apart
  <2>1. CASE g = f
    BY <2>1
  <2>2. CASE g # f
    BY <2>2 DEF Apart
  <2> QED
    BY <2>1, <2>2
<1> QED
  BY <1>1, <1>2

LEMMA LeaveKeeps ==
  ASSUME Unused, Apart, UNCHANGED crossed,
         \A g \in Run : \A r \in Run : r \in Users(g)' => r \in Users(g),
         \A g \in Run : Users(g)' = {} => pipe'[g] = <<>> \/ (Users(g) = {} /\ pipe'[g] = pipe[g])
  PROVE  Unused' /\ Apart'
<1>1. Unused'
  BY DEF Unused
<1>2. Apart'
  <2> SUFFICES ASSUME NEW g \in Run, NEW a \in Run, NEW b \in Run,
                      a \in Users(g)', b \in Users(g)', a # b
               PROVE  b \in crossed
    BY DEF Apart
  <2>1. a \in Users(g) /\ b \in Users(g)
    OBVIOUS
  <2> QED
    BY <2>1 DEF Apart
<1> QED
  BY <1>1, <1>2

(* Runs that get a FIFO together are marked then; who leaves one last       *)
(* empties it.                                                              *)
LEMMA UsersPreserved ==
  ASSUME TypeOK, Ends, Unused, Apart, NEW q \in Run, Step(q)
  PROVE  Unused' /\ Apart'
<1>1. CASE OpenToWrite(q) \/ OpenToRead(q)
  <2>1. PICK f \in Run : f = fifo_path
    BY <1>1 DEF OpenToWrite, OpenToRead, TypeOK
  <2>2. crossed' = crossed \union Together(f, q) /\ UNCHANGED pipe
    BY <1>1, <2>1 DEF OpenToWrite, OpenToRead
  <2>3. \A g \in Run : Users(g)' = IF g = f THEN Users(f) \union {q} ELSE Users(g)
    <3>1. CASE OpenToWrite(q)
      <4>1. write_fd[q] = None /\ write_fd' = [write_fd EXCEPT ![q] = f] /\ UNCHANGED read_fd
        BY <2>1, <3>1 DEF OpenToWrite, Ends
      <4>2. \A g \in Run : /\ Readers(g)' = Readers(g)
                          /\ Writers(g)' = IF g = f THEN Writers(f) \union {q} ELSE Writers(g)
        <5>1. \A g, r \in Run :
                write_fd'[r] = g <=> write_fd[r] = g \/ (g = f /\ r = q)
          BY <4>1, Sizes DEF TypeOK
        <5> QED
          BY <4>1, <5>1 DEF Readers, Writers
      <4> QED
        BY <4>2 DEF Users
    <3>2. CASE OpenToRead(q)
      <4>1. read_fd[q] = None /\ read_fd' = [read_fd EXCEPT ![q] = f] /\ UNCHANGED write_fd
        BY <2>1, <3>2 DEF OpenToRead, Ends
      <4>2. \A g \in Run : /\ Writers(g)' = Writers(g)
                          /\ Readers(g)' = IF g = f THEN Readers(f) \union {q} ELSE Readers(g)
        <5>1. \A g, r \in Run :
                read_fd'[r] = g <=> read_fd[r] = g \/ (g = f /\ r = q)
          BY <4>1, Sizes DEF TypeOK
        <5> QED
          BY <4>1, <5>1 DEF Readers, Writers
      <4> QED
        BY <4>2 DEF Users
    <3> QED
      BY <1>1, <3>1, <3>2
  <2>4. Users(f) \union {q} = {q} \/ Users(f) \union {q} \subseteq crossed'
    BY <2>2 DEF Together, Users
  <2>5. crossed \subseteq crossed'
    BY <2>2
  <2> QED
    BY <2>2, <2>3, <2>4, <2>5, JoinKeeps
<1>2. CASE BrokenPipe(q) \/ WriterDone(q) \/ KillParent(q)
  <2>1. PICK f : f = write_fd[q]
    OBVIOUS
  <2>2. /\ write_fd' = [write_fd EXCEPT ![q] = None]
        /\ pipe' = PipesWithout(f, Readers(f), Writers(f) \ {q})
        /\ UNCHANGED <<read_fd, crossed>>
    BY <1>2, <2>1 DEF BrokenPipe, WriterDone, KillParent
  <2>3. \A g \in Run : Users(g)' = IF g = f THEN Readers(f) \union (Writers(f) \ {q}) ELSE Users(g)
    <3>1. \A g \in Run : /\ Readers(g)' = Readers(g)
                        /\ Writers(g)' = IF g = f THEN Writers(f) \ {q} ELSE Writers(g)
      BY <2>1, <2>2, Sizes DEF Readers, Writers, TypeOK
    <3> QED
      BY <3>1 DEF Users
  <2>4. \A g \in Run : pipe'[g] = IF g = f /\ Users(g)' = {} THEN <<>> ELSE pipe[g]
    BY <2>2, <2>3, Sizes DEF PipesWithout, TypeOK
  <2>5. \A g \in Run : Users(g)' \subseteq Users(g)
    BY <2>3 DEF Users
  <2> QED
    BY <2>2, <2>3, <2>4, <2>5, LeaveKeeps
<1>3. CASE ReaderDone(q) \/ KillChild(q)
  <2>1. PICK f : f = read_fd[q]
    OBVIOUS
  <2>2. /\ read_fd' = [read_fd EXCEPT ![q] = None]
        /\ pipe' = PipesWithout(f, Readers(f) \ {q}, Writers(f))
        /\ UNCHANGED <<write_fd, crossed>>
    BY <1>3, <2>1 DEF ReaderDone, KillChild
  <2>3. \A g \in Run : Users(g)' = IF g = f THEN (Readers(f) \ {q}) \union Writers(f) ELSE Users(g)
    <3>1. \A g \in Run : /\ Writers(g)' = Writers(g)
                        /\ Readers(g)' = IF g = f THEN Readers(f) \ {q} ELSE Readers(g)
      BY <2>1, <2>2, Sizes DEF Readers, Writers, TypeOK
    <3> QED
      BY <3>1 DEF Users
  <2>4. \A g \in Run : pipe'[g] = IF g = f /\ Users(g)' = {} THEN <<>> ELSE pipe[g]
    BY <2>2, <2>3, Sizes DEF PipesWithout, TypeOK
  <2>5. \A g \in Run : Users(g)' \subseteq Users(g)
    BY <2>3 DEF Users
  <2> QED
    BY <2>2, <2>3, <2>4, <2>5, LeaveKeeps
<1>4. CASE Transfer(q) \/ Read(q)
  <2>1. UNCHANGED <<write_fd, read_fd, crossed>>
    BY <1>4 DEF Transfer, Read, fds
  <2>2. \A g \in Run : Users(g)' = Users(g)
    BY <2>1 DEF Users, Writers, Readers
  <2>3. \A g \in Run : Users(g) = {} => pipe'[g] = pipe[g]
    <3>1. PICK f \in Run : q \in Users(f) /\ \E bytes : pipe' = [pipe EXCEPT ![f] = bytes]
      BY <1>4 DEF Transfer, Read, Ends, TypeOK, Users, Writers, Readers
    <3> QED
      BY <3>1 DEF TypeOK
  <2> QED
    BY <2>1, <2>2, <2>3, LeaveKeeps
<1>5. CASE \/ MakeFifo(q) \/ ParentFindsNoPath(q) \/ ChildFindsNoPath(q) \/ Wait(q) \/ Unlink(q)
           \/ WriteReturns(q)
  <2>1. UNCHANGED <<write_fd, read_fd, crossed, pipe>>
    BY <1>5 DEF MakeFifo, ParentFindsNoPath, ChildFindsNoPath, Wait, Unlink, WriteReturns, fds
  <2>2. \A g \in Run : Users(g)' = Users(g)
    BY <2>1 DEF Users, Writers, Readers
  <2> QED
    BY <2>1, <2>2, LeaveKeeps
<1> QED
  BY <1>1, <1>2, <1>3, <1>4, <1>5 DEF Step, ParentStep, ChildStep

-----------------------------------------------------------------------------
(* What holds of a run that shares no FIFO *)

(* Another run's step leaves all that belongs to r alone.                   *)
LEMMA OtherRun ==
  ASSUME TypeOK, Ends, Apart, NEW q \in Run, Step(q), NEW r \in Run \ {q}, r \notin crossed'
  PROVE  /\ UNCHANGED <<pc_parent[r], pc_child[r], write_fd[r], read_fd[r], i_writer[r], moved[r],
                        ptr_reader[r], local_frame[r], received[r]>>
         /\ r \in cut' <=> r \in cut
         /\ r \notin crossed
         /\ \A f \in Run : r \in Users(f) => pipe'[f] = pipe[f]
<1>1. CASE OpenToWrite(q) \/ OpenToRead(q)
  <2>1. fifo_path \in Run /\ crossed' = crossed \union Together(fifo_path, q) /\ UNCHANGED pipe
    BY <1>1 DEF OpenToWrite, OpenToRead, TypeOK
  <2>2. r \notin Readers(fifo_path) /\ r \notin Writers(fifo_path)
    BY <2>1 DEF Together
  <2> QED
    BY <1>1, <2>1, <2>2 DEF OpenToWrite, OpenToRead, TypeOK, writing, reading
<1>2. CASE Transfer(q)
  <2>1. PICK n : /\ pipe' = [pipe EXCEPT ![write_fd[q]] = @ \o Chunk(i_writer[q], n)]
                 /\ moved' = [moved EXCEPT ![q] = @ + n]
                 /\ write_fd[q] \in Run
                 /\ UNCHANGED <<pc_parent, pc_child, fds, i_writer, cut, reading, crossed>>
    BY <1>2 DEF Transfer, Ends, TypeOK
  <2>2. r \notin Users(write_fd[q])
    BY <2>1 DEF Apart, Users, Writers
  <2> QED
    BY <2>1, <2>2 DEF TypeOK, fds, reading
<1>3. CASE Read(q)
  <2>1. PICK n \in Nat \ {0}, frame \in [Position -> Int], rest \in Seq(Int) :
          ReadTo(q, n, frame, rest)
    BY <1>3, ReadMeans
  <2>2. r \notin Users(read_fd[q])
    BY <2>1 DEF ReadTo, Apart, Users, Readers
  <2> QED
    BY <2>1, <2>2 DEF ReadTo, TypeOK, fds, writing
<1>4. CASE BrokenPipe(q) \/ WriterDone(q) \/ KillParent(q)
  <2>1. /\ pipe' = PipesWithout(write_fd[q], Readers(write_fd[q]), Writers(write_fd[q]) \ {q})
        /\ \E to : pc_parent' = [pc_parent EXCEPT ![q] = to]
        /\ write_fd' = [write_fd EXCEPT ![q] = None]
        /\ UNCHANGED <<pc_child, read_fd, writing, reading, crossed>>
    BY <1>4 DEF BrokenPipe, WriterDone, KillParent, ParentGoes
  <2>2. \A f \in Run : r \in Users(f) => pipe'[f] = pipe[f]
    BY <2>1 DEF PipesWithout, Users, TypeOK
  <2> QED
    BY <2>1, <2>2 DEF TypeOK, writing, reading
<1>5. CASE ReaderDone(q) \/ KillChild(q)
  <2>1. /\ pipe' = PipesWithout(read_fd[q], Readers(read_fd[q]) \ {q}, Writers(read_fd[q]))
        /\ \E to : pc_child' = [pc_child EXCEPT ![q] = to]
        /\ read_fd' = [read_fd EXCEPT ![q] = None]
        /\ UNCHANGED <<pc_parent, write_fd, writing, reading, crossed>>
    BY <1>5 DEF ReaderDone, KillChild, ChildGoes
  <2>2. \A f \in Run : r \in Users(f) => pipe'[f] = pipe[f]
    BY <2>1 DEF PipesWithout, Users, TypeOK
  <2> QED
    BY <2>1, <2>2 DEF TypeOK, writing, reading
<1>6. CASE MakeFifo(q) \/ ParentFindsNoPath(q) \/ ChildFindsNoPath(q) \/ Wait(q) \/ Unlink(q)
  BY <1>6 DEF MakeFifo, ParentFindsNoPath, ChildFindsNoPath, Wait, Unlink, ParentGoes, ChildGoes,
              TypeOK, fds, writing, reading
<1>7. CASE WriteReturns(q)
  BY <1>7 DEF WriteReturns, ParentGoes, TypeOK, fds, reading
<1> QED
  BY <1>1, <1>2, <1>3, <1>4, <1>5, <1>6, <1>7 DEF Step, ParentStep, ChildStep

(* A run has not written more than its frames.                              *)
LEMMA InWithin ==
  ASSUME TypeOK, Ends, NEW r \in Run
  PROVE  /\ In(r) <= round * message_size /\ round * message_size \in Nat
         /\ i_writer[r] < round /\ moved[r] < message_size => In(r) < round * message_size
<1>1. /\ i_writer[r] \in Nat /\ moved[r] \in Nat /\ moved[r] <= message_size
      /\ i_writer[r] <= round /\ (i_writer[r] = round => moved[r] = 0)
  BY DEF TypeOK, Ends
<1>2. round * message_size \in Nat /\ i_writer[r] * message_size \in Nat
  BY <1>1, Sizes, NextFrame
<1>3. CASE i_writer[r] = round
  BY <1>1, <1>2, <1>3 DEF In
<1>4. CASE i_writer[r] < round
  <2>1. i_writer[r] + 1 <= round /\ i_writer[r] + 1 \in Nat
    BY <1>1, <1>4, Sizes
  <2>2. (i_writer[r] + 1) * message_size <= round * message_size
    BY <2>1, Sizes, MoreFrames
  <2>3. (i_writer[r] + 1) * message_size = i_writer[r] * message_size + message_size
    BY <1>1, Sizes, NextFrame
  <2> QED
    BY <1>1, <1>2, <2>2, <2>3, Sizes, SMTT(30) DEF In
<1> QED
  BY <1>1, <1>3, <1>4, Sizes

LEMMA QuietOpens ==
  ASSUME IInv, NEW q \in Run, q \notin crossed', OpenToWrite(q) \/ OpenToRead(q)
  PROVE  Quiet(q)'
<1> USE DEF IInv
<1>1. PICK f \in Run : f = fifo_path
  BY DEF OpenToWrite, OpenToRead, TypeOK
<1>2. /\ crossed' = crossed \union Together(f, q)
      /\ UNCHANGED <<pipe, writing, reading>>
  BY <1>1 DEF OpenToWrite, OpenToRead
<1>3. Quiet(q) /\ Users(f) \subseteq {q}
  BY <1>2 DEF Quietly, Together, Users
<1>4. Users(f) = {} => pipe[f] = <<>>
  BY DEF Unused
<1>5. CASE OpenToWrite(q)
  <2>1. /\ pc_parent[q] = "open" /\ write_fd'[q] = f /\ UNCHANGED read_fd
        /\ pc_parent'[q] = IF Readers(f) # {} THEN "write" ELSE "opening"
        /\ pc_child'[q] = IF q \in Readers(f) /\ pc_child[q] = "opening" THEN "read" ELSE pc_child[q]
    BY <1>1, <1>5 DEF OpenToWrite, TypeOK
  <2>2. pc_child[q] \notin {"read", "close", "done"}
    BY <1>3, <2>1 DEF Quiet, Before
  <2>3. CASE Readers(f) = {}
    <3>1. Users(f) = {}
      <4>1. q \notin Writers(f)
        BY <2>1, Sizes DEF Writers, Ends
      <4> QED
        BY <1>3, <2>3, <4>1 DEF Users
    <3> QED
      BY <1>2, <1>3, <1>4, <2>1, <2>2, <2>3, <3>1
         DEF Quiet, Before, During, After, In, Out, writing, reading
  <2>4. CASE Readers(f) # {}
    <3>1. q \in Readers(f) /\ read_fd[q] = f /\ pc_child[q] = "opening"
      BY <1>3, <2>2, <2>4, Sizes DEF Users, Readers, Ends
    <3>2. /\ pipe[f] = <<>> /\ i_writer[q] = 0 /\ moved[q] = 0 /\ q \notin cut
          /\ received[q] = <<>> /\ ptr_reader[q] = 0
      BY <1>3, <3>1 DEF Quiet, Before
    <3>3. pc_parent'[q] = "write" /\ pc_child'[q] = "read"
      BY <2>1, <2>4, <3>1
    <3> QED
      BY <1>2, <1>3, <2>1, <3>1, <3>2, <3>3, Sizes
         DEF Quiet, Before, During, After, In, Out, writing, reading
  <2> QED
    BY <2>3, <2>4
<1>6. CASE OpenToRead(q)
  <2>1. /\ pc_child[q] = "open" /\ read_fd'[q] = f /\ UNCHANGED write_fd
        /\ pc_child'[q] = IF Writers(f) # {} THEN "read" ELSE "opening"
        /\ pc_parent'[q] = IF q \in Writers(f) /\ pc_parent[q] = "opening" THEN "write"
                           ELSE pc_parent[q]
    BY <1>1, <1>6 DEF OpenToRead, TypeOK
  <2>2. /\ pc_parent[q] \in {"mkfifo", "open", "opening", "failed", "killed"}
        /\ i_writer[q] = 0 /\ moved[q] = 0 /\ q \notin cut
        /\ received[q] = <<>> /\ ptr_reader[q] = 0
        /\ pc_parent[q] = "opening" => pipe[write_fd[q]] = <<>>
    BY <1>3, <2>1 DEF Quiet, Before
  <2>3. CASE Writers(f) = {}
    <3>1. Users(f) = {}
      <4>1. q \notin Readers(f)
        BY <2>1, Sizes DEF Readers, Ends
      <4> QED
        BY <1>3, <2>3, <4>1 DEF Users
    <3> QED
      BY <1>2, <1>3, <1>4, <2>1, <2>2, <2>3, <3>1
         DEF Quiet, Before, During, After, In, Out, writing, reading
  <2>4. CASE Writers(f) # {}
    <3>1. q \in Writers(f) /\ write_fd[q] = f /\ pc_parent[q] = "opening"
      BY <1>3, <2>2, <2>4, Sizes DEF Users, Writers, Ends
    <3>2. pipe[f] = <<>> /\ pc_parent'[q] = "write" /\ pc_child'[q] = "read"
      BY <2>1, <2>2, <2>4, <3>1
    <3> QED
      BY <1>2, <1>3, <2>1, <2>2, <3>1, <3>2, Sizes
         DEF Quiet, Before, During, After, In, Out, writing, reading
  <2> QED
    BY <2>3, <2>4
<1> QED
  BY <1>5, <1>6

(* A write puts the next bytes at the end of the run's own FIFO.            *)
LEMMA QuietTransfers ==
  ASSUME IInv, NEW q \in Run, q \notin crossed', Transfer(q)
  PROVE  Quiet(q)'
<1> USE DEF IInv
<1>1. PICK w \in Run : w = write_fd[q]
  BY Sizes DEF Transfer, Ends, TypeOK
<1>2. PICK n \in Nat \ {0} :
        /\ moved[q] + n <= message_size
        /\ pipe' = [pipe EXCEPT ![w] = @ \o Chunk(i_writer[q], n)]
        /\ moved' = [moved EXCEPT ![q] = @ + n]
  <2>1. PICK n \in 1 .. Least(PipeSize - Len(pipe[w]), message_size - moved[q]) :
          /\ pipe' = [pipe EXCEPT ![w] = @ \o Chunk(i_writer[q], n)]
          /\ moved' = [moved EXCEPT ![q] = @ + n]
    BY <1>1 DEF Transfer
  <2>2. Len(pipe[w]) \in Nat /\ moved[q] \in Nat
    BY Counts
  <2>3. n \in Nat \ {0} /\ moved[q] + n <= message_size
    BY <2>2, Sizes, SMTT(30) DEF Least
  <2> QED
    BY <2>1, <2>3
<1>3. /\ pc_parent[q] = "write" /\ Readers(w) # {}
      /\ UNCHANGED <<pc_parent, pc_child, write_fd, read_fd, i_writer, cut, ptr_reader,
                     local_frame, received, crossed>>
  BY <1>1 DEF Transfer, fds, reading
<1>4. n \in Nat \ {0} /\ moved[q] + n <= message_size /\ moved[q] \in Nat
  BY <1>2, Counts
<1>5. Quiet(q)
  BY <1>3 DEF Quietly
<1>6. read_fd[q] = w
  BY <1>1, <1>3 DEF Apart, Users, Writers, Readers
<1>7. pc_child[q] = "read"
  <2>1. In(q) < round * message_size
    <3>1. i_writer[q] < round /\ moved[q] < message_size
      BY <1>3, <1>4, Sizes DEF Ends
    <3> QED
      BY <3>1, InWithin
  <2>2. pc_child[q] # "close"
    BY <1>5, <2>1, InWithin, Counts DEF Quiet, After
  <2>3. pc_child[q] # "opening"
    BY <1>3, <1>5 DEF Quiet, Before
  <2> QED
    BY <1>6, <2>2, <2>3, Sizes DEF Ends
<1>8. /\ pipe'[w] \in Seq(Int) /\ Len(pipe'[w]) = Len(pipe[w]) + n
      /\ \A k \in 1 .. Len(pipe[w]) : pipe'[w][k] = pipe[w][k]
      /\ \A k \in 1 .. n : pipe'[w][Len(pipe[w]) + k] = Byte(generating_seed + i_writer[q])
  <2>1. /\ Chunk(i_writer[q], n) \in Seq(Int) /\ Len(Chunk(i_writer[q], n)) = n
        /\ \A k \in 1 .. n : Chunk(i_writer[q], n)[k] = Byte(generating_seed + i_writer[q])
    BY <1>4, Counts, ChunkBytes
  <2>2. pipe[w] \in Seq(Int) /\ Len(pipe[w]) \in Nat
    BY Counts
  <2> DEFINE c == Chunk(i_writer[q], n)
             b == pipe[w]
  <2>3. pipe'[w] = b \o c /\ Len(c) = n /\ n \in Nat /\ c \in Seq(Int) /\ b \in Seq(Int)
        /\ \A k \in 1 .. n : c[k] = Byte(generating_seed + i_writer[q])
    BY <1>2, <1>4, <2>1, <2>2 DEF TypeOK
  <2> HIDE DEF IInv, c, b
  <2>4. /\ b \o c \in Seq(Int) /\ Len(b \o c) = Len(b) + Len(c)
        /\ \A k \in 1 .. Len(b) + Len(c) :
             (b \o c)[k] = IF k <= Len(b) THEN b[k] ELSE c[k - Len(b)]
    BY <2>3, ConcatProperties
  <2>5. /\ pipe'[w] \in Seq(Int) /\ Len(pipe'[w]) = Len(b) + n
        /\ \A k \in 1 .. Len(b) : pipe'[w][k] = b[k]
        /\ \A k \in 1 .. n : pipe'[w][Len(b) + k] = Byte(generating_seed + i_writer[q])
    BY <2>3, <2>4
  <2> QED
    BY <2>5 DEF b
<1>9. /\ In(q)' = In(q) + n /\ Out(q)' = Out(q)
      /\ In(q) = i_writer[q] * message_size + moved[q]
  <2>1. In(q)' = i_writer[q] * message_size + (moved[q] + n) /\ Out(q)' = Out(q)
    BY <1>2, <1>3 DEF TypeOK, In, Out
  <2>2. i_writer[q] * message_size \in Nat /\ In(q) = i_writer[q] * message_size + moved[q]
    BY Counts DEF In
  <2> QED
    BY <1>4, <2>1, <2>2
<1>10. During(q)'
  <2>1. /\ In(q) \in Nat /\ Out(q) \in Nat /\ Len(pipe[w]) \in Nat /\ moved[q] \in Nat
        /\ i_writer[q] \in Nat /\ i_writer[q] * message_size \in Nat
    BY Counts
  <2>2. ASSUME q \notin cut, NEW k \in 1 .. Len(pipe'[w])
        PROVE  pipe'[w][k] = Byte(generating_seed + ((Out(q) + k - 1) \div message_size))
    <3>1. /\ Out(q) + Len(pipe[w]) = In(q)
          /\ \A j \in 1 .. Len(pipe[w]) :
               pipe[w][j] = Byte(generating_seed + ((Out(q) + j - 1) \div message_size))
      BY <1>5, <1>6, <1>7, <2>2 DEF Quiet, During
    <3>2. CASE k \in 1 .. Len(pipe[w])
      BY <1>8, <3>1, <3>2
    <3>3. CASE k \notin 1 .. Len(pipe[w])
      <4> DEFINE j == k - Len(pipe[w])
      <4>1. j \in 1 .. n /\ Len(pipe[w]) + j = k /\ k \in Int
        <5>1. k \in 1 .. Len(pipe[w]) + n /\ k \notin 1 .. Len(pipe[w])
          BY <1>8, <3>3
        <5>2. Len(pipe[w]) \in Nat /\ n \in Nat
          BY <1>4, <2>1
        <5> QED
          BY <5>1, <5>2
      <4> HIDE DEF j
      <4>2. Out(q) + k - 1 = i_writer[q] * message_size + (moved[q] + j - 1)
        <5> DEFINE base == i_writer[q] * message_size
        <5>1. /\ j \in Int /\ Out(q) \in Int /\ Len(pipe[w]) \in Int
              /\ base \in Int /\ moved[q] \in Int
          BY <2>1, <4>1
        <5>2. Out(q) + Len(pipe[w]) = base + moved[q]
          BY <1>9, <3>1
        <5> HIDE DEF base
        <5>3. Out(q) + k - 1 = base + (moved[q] + j - 1)
          BY <4>1, <5>1, <5>2, SMTT(30)
        <5> QED
          BY <5>3 DEF base
      <4>3. (i_writer[q] * message_size + (moved[q] + j - 1)) \div message_size = i_writer[q]
        <5>1. moved[q] + j - 1 \in Nat /\ moved[q] + j - 1 < message_size
          BY <1>4, <2>1, <4>1, Sizes, SMTT(30)
        <5> QED
          BY <2>1, <5>1, Sizes, FrameOfPosition
      <4> QED
        BY <1>8, <4>1, <4>2, <4>3
    <3> QED
      BY <3>2, <3>3
  <2>3. /\ read_fd'[q] = w /\ write_fd'[q] = w /\ cut' = cut
        /\ ptr_reader'[q] = ptr_reader[q] /\ local_frame'[q] = local_frame[q]
        /\ received'[q] = received[q]
    BY <1>1, <1>3, <1>6
  <2>4. q \in cut => Out(q)' + Len(pipe'[w]) < In(q)'
    BY <1>4, <1>5, <1>6, <1>7, <1>8, <1>9, <2>1 DEF Quiet, During
  <2>5. q \notin cut => Out(q)' + Len(pipe'[w]) = In(q)'
    BY <1>4, <1>5, <1>6, <1>7, <1>8, <1>9, <2>1 DEF Quiet, During
  <2>6. q \notin cut => \A k \in Position : k < ptr_reader[q] =>
                          local_frame[q][k] = Byte(generating_seed + Len(received[q]))
    BY <1>5, <1>7 DEF Quiet, During
  <2> QED
    BY <1>9, <2>2, <2>3, <2>4, <2>5, <2>6 DEF During
<1> QED
  BY <1>3, <1>5, <1>7, <1>10 DEF Quiet, Before, After

(* A short write, taken for a whole one, leaves bytes out.                  *)
LEMMA QuietReturns ==
  ASSUME IInv, NEW q \in Run, q \notin crossed', WriteReturns(q)
  PROVE  Quiet(q)'
<1> USE DEF IInv
<1>1. /\ pc_parent[q] = "write" /\ moved[q] > 0 /\ moved'[q] = 0 /\ i_writer'[q] = i_writer[q] + 1
      /\ pc_parent'[q] \in {"write", "close"}
      /\ cut' = IF moved[q] < message_size THEN cut \union {q} ELSE cut
      /\ UNCHANGED <<pc_child, write_fd, read_fd, pipe, ptr_reader, local_frame, received, crossed>>
  BY DEF WriteReturns, ParentGoes, TypeOK, fds, reading
<1>2. Quiet(q)
  BY <1>1 DEF Quietly
<1>3. pc_child[q] \notin {"unborn", "open", "opening"}
  BY <1>1, <1>2 DEF Quiet, Before
<1>4. /\ In(q) \in Nat /\ Out(q) \in Nat /\ moved[q] \in Nat /\ i_writer[q] \in Nat
      /\ i_writer[q] < round /\ moved[q] <= message_size
      /\ \A f \in Run : Len(pipe[f]) \in Nat
  BY <1>1, Counts DEF Ends
<1>5. Out(q)' = Out(q) /\ In(q)' = In(q) + (message_size - moved[q])
  <2> DEFINE base == i_writer[q] * message_size
  <2>1. Out(q)' = Out(q) /\ In(q)' = (i_writer[q] + 1) * message_size
    BY <1>1, <1>4, Sizes, NextFrame DEF Out, In
  <2>2. (i_writer[q] + 1) * message_size = base + message_size /\ base \in Nat
    BY <1>4, Sizes, NextFrame
  <2>3. In(q) = base + moved[q]
    BY DEF In
  <2> HIDE DEF base
  <2> QED
    BY <1>4, <2>1, <2>2, <2>3, Sizes
<1>6. Before(q)'
  BY <1>1, <1>2, <1>3 DEF Quiet, Before
<1>7. CASE moved[q] = message_size
  <2>1. cut' = cut /\ In(q)' = In(q)
    BY <1>1, <1>4, <1>5, <1>7, Sizes
  <2> QED
    BY <1>1, <1>2, <1>5, <1>6, <2>1 DEF Quiet, During, After
<1>8. CASE moved[q] < message_size
  <2>1. q \in cut' /\ In(q) < In(q)' /\ In(q)' \in Nat
    BY <1>1, <1>4, <1>5, <1>8, Sizes
  <2>2. In(q) < round * message_size
    BY <1>4, <1>8, InWithin
  <2>3. pc_child[q] \notin {"close", "done"}
    BY <1>2, <1>4, <2>2, InWithin DEF Quiet, After
  <2>4. During(q)'
    <3> SUFFICES ASSUME pc_child[q] = "read"
                 PROVE  /\ write_fd[q] \in {None, read_fd[q]}
                        /\ Out(q) + Len(pipe[read_fd[q]]) < In(q)'
      BY <1>1, <1>5, <2>1 DEF During
    <3>1. /\ write_fd[q] \in {None, read_fd[q]} /\ read_fd[q] \in Run
          /\ \/ Out(q) + Len(pipe[read_fd[q]]) < In(q)
             \/ Out(q) + Len(pipe[read_fd[q]]) = In(q)
      BY <1>2 DEF Quiet, During, Ends, TypeOK
    <3> QED
      BY <1>4, <2>1, <3>1
  <2> QED
    BY <1>1, <1>6, <2>1, <2>3, <2>4 DEF Quiet, After
<1> QED
  BY <1>4, <1>7, <1>8, Sizes

(* An end that is closed takes no byte from a run that has the other open.  *)
LEMMA QuietLeaves ==
  ASSUME IInv, NEW q \in Run, q \notin crossed',
         BrokenPipe(q) \/ WriterDone(q) \/ KillParent(q) \/ ReaderDone(q) \/ KillChild(q)
  PROVE  Quiet(q)'
<1> USE DEF IInv
<1>1. /\ Quiet(q) /\ crossed' = crossed
      /\ UNCHANGED <<i_writer, moved, cut, ptr_reader, local_frame, received>>
  BY DEF Quietly, BrokenPipe, WriterDone, KillParent, ReaderDone, KillChild, writing, reading
<1>2. In(q)' = In(q) /\ Out(q)' = Out(q)
  BY <1>1 DEF In, Out
<1>3. CASE BrokenPipe(q) \/ WriterDone(q) \/ KillParent(q)
  <2>1. PICK f : f = write_fd[q]
    OBVIOUS
  <2>2. /\ pipe' = PipesWithout(f, Readers(f), Writers(f) \ {q})
        /\ write_fd'[q] = None /\ UNCHANGED <<pc_child, read_fd>>
        /\ pc_parent'[q] \in {"broken", "wait", "killed"}
        /\ pc_parent'[q] # "killed" => pc_parent[q] \in {"write", "close"}
    BY <1>3, <2>1 DEF BrokenPipe, WriterDone, KillParent, ParentGoes, TypeOK
  <2>3. read_fd[q] # None => pipe'[read_fd[q]] = pipe[read_fd[q]]
    BY <2>2 DEF PipesWithout, Readers, TypeOK
  <2>4. Before(q)'
    BY <1>1, <2>2, <2>3, Sizes DEF Quiet, Before, Ends
  <2>5. During(q)' /\ After(q)'
    BY <1>1, <1>2, <2>2, <2>3, Sizes DEF Quiet, During, After, Ends
  <2> QED
    BY <1>1, <2>4, <2>5 DEF Quiet
<1>4. CASE ReaderDone(q) \/ KillChild(q)
  <2>1. PICK f : f = read_fd[q]
    OBVIOUS
  <2>2. /\ pipe' = PipesWithout(f, Readers(f) \ {q}, Writers(f))
        /\ UNCHANGED <<pc_parent, write_fd>>
        /\ pc_child'[q] \in {"done", "killed"}
        /\ pc_child'[q] = "done" => pc_child[q] = "close"
    BY <1>4, <2>1 DEF ReaderDone, KillChild, ChildGoes, TypeOK
  <2>3. \A g \in Run : pipe[g] = <<>> => pipe'[g] = <<>>
    BY <2>2 DEF PipesWithout, TypeOK
  <2>4. Before(q)'
    BY <1>1, <2>2, <2>3, Sizes DEF Quiet, Before, Ends, TypeOK
  <2>5. During(q)' /\ After(q)'
    BY <1>1, <1>2, <2>2 DEF Quiet, During, After
  <2> QED
    BY <1>1, <2>4, <2>5 DEF Quiet
<1> QED
  BY <1>3, <1>4

LEMMA QuietElsewhere ==
  ASSUME IInv, NEW q \in Run, q \notin crossed',
         \/ MakeFifo(q) \/ ParentFindsNoPath(q) \/ ChildFindsNoPath(q) \/ Wait(q) \/ Unlink(q)
  PROVE  Quiet(q)'
<1> USE DEF IInv
<1>1. /\ UNCHANGED <<write_fd, read_fd, pipe, i_writer, moved, cut, ptr_reader, local_frame,
                     received, crossed>>
      /\ \/ /\ pc_parent[q] = "mkfifo" /\ pc_parent'[q] = "open"
            /\ pc_child[q] = "unborn" /\ pc_child'[q] = "open"
         \/ /\ pc_parent[q] = "open" /\ pc_parent'[q] = "failed" /\ UNCHANGED pc_child
         \/ /\ pc_child[q] = "open" /\ pc_child'[q] = "failed" /\ UNCHANGED pc_parent
         \/ /\ pc_parent[q] \in {"wait", "unlink"} /\ pc_parent'[q] \in {"unlink", "done"}
            /\ UNCHANGED pc_child
  BY DEF MakeFifo, ParentFindsNoPath, ChildFindsNoPath, Wait, Unlink, ParentGoes, ChildGoes,
         TypeOK, fds, writing, reading
<1>2. Quiet(q)
  BY <1>1 DEF Quietly
<1>3. In(q)' = In(q) /\ Out(q)' = Out(q)
  BY <1>1 DEF In, Out
<1>4. Before(q)'
  BY <1>1, <1>2 DEF Quiet, Before
<1>5. During(q)' /\ After(q)'
  BY <1>1, <1>2, <1>3 DEF Quiet, During, After
<1> QED
  BY <1>1, <1>2, <1>4, <1>5 DEF Quiet

(* What has been read of the current frame is as it was generated.          *)
LEMMA FrameBytes ==
  ASSUME TypeOK, NEW q \in Run, NEW n \in Nat \ {0}, NEW frame \in [Position -> Int],
         NEW rest \in Seq(Int), ReadTo(q, n, frame, rest), During(q), q \notin cut,
         NEW k \in Position, k < ptr_reader[q] + n
  PROVE  frame[k] = Byte(generating_seed + Len(received[q]))
<1> DEFINE bytes == pipe[read_fd[q]]
           taken == SubSeq(bytes, 1, n)
<1>1. /\ read_fd[q] \in Run /\ n <= Len(bytes)
      /\ frame = Overlaid(local_frame[q], ptr_reader[q], taken)
      /\ \A j \in 1 .. Len(bytes) :
           bytes[j] = Byte(generating_seed + ((Out(q) + j - 1) \div message_size))
      /\ k < ptr_reader[q] => local_frame[q][k] = Byte(generating_seed + Len(received[q]))
  BY DEF ReadTo, During
<1>2. /\ bytes \in Seq(Int) /\ Len(bytes) \in Nat /\ ptr_reader[q] \in Nat
      /\ Len(received[q]) \in Nat /\ k \in Nat /\ k < message_size
      /\ Len(received[q]) * message_size \in Nat
  BY <1>1, Counts, Sizes, SMTT(30)
<1>3. Len(taken) = n /\ \A j \in 1 .. n : taken[j] = bytes[j]
  <2> HIDE DEF bytes
  <2> QED
    BY <1>1, <1>2
<1> HIDE DEF bytes, taken
<1>4. CASE k \in ptr_reader[q] .. ptr_reader[q] + n - 1
  <2> DEFINE j == k - ptr_reader[q] + 1
             base == Len(received[q]) * message_size
  <2>1. j \in 1 .. n /\ j \in 1 .. Len(bytes)
    <3>1. n <= Len(bytes) /\ Len(bytes) \in Nat /\ ptr_reader[q] \in Nat /\ k \in Nat
      BY <1>1, <1>2
    <3> QED
      BY <1>4, <3>1
  <2>2. frame[k] = bytes[j]
    BY <1>1, <1>3, <1>4, <2>1 DEF Overlaid
  <2>3. Out(q) + j - 1 = base + k
    <3>1. Out(q) = base + ptr_reader[q] /\ base \in Nat
      BY <1>2 DEF Out
    <3> HIDE DEF base
    <3> QED
      BY <1>2, <3>1
  <2>4. (base + k) \div message_size = Len(received[q])
    BY <1>2, Sizes, FrameOfPosition
  <2> QED
    BY <1>1, <2>1, <2>2, <2>3, <2>4
<1>5. CASE k \notin ptr_reader[q] .. ptr_reader[q] + n - 1
  <2>1. frame[k] = local_frame[q][k]
    BY <1>1, <1>3, <1>5 DEF Overlaid
  <2>2. k < ptr_reader[q]
    BY <1>2, <1>5
  <2> QED
    BY <1>1, <2>1, <2>2
<1> QED
  BY <1>4, <1>5

(* A read keeps the run's place in the stream; the last one finds nothing   *)
(* left to come.                                                            *)
LEMMA QuietReads ==
  ASSUME IInv, TypeOK', NEW q \in Run, q \notin crossed', Read(q)
  PROVE  Quiet(q)'
<1> USE DEF IInv
<1>1. PICK n \in Nat \ {0}, frame \in [Position -> Int], rest \in Seq(Int) :
        ReadTo(q, n, frame, rest)
  BY ReadMeans
<1>2. PICK f \in Run : f = read_fd[q]
  BY <1>1 DEF ReadTo
<1> DEFINE old == Len(received[q])
           whole == ptr_reader[q] + n = message_size
<1>3. /\ pc_child[q] = "read" /\ ptr_reader[q] + n <= message_size
      /\ n <= Len(pipe[f]) /\ Len(rest) = Len(pipe[f]) - n /\ pipe'[f] = rest
      /\ \A k \in 1 .. Len(rest) : rest[k] = pipe[f][n + k]
      /\ local_frame'[q] = frame
      /\ ptr_reader'[q] = IF whole THEN 0 ELSE ptr_reader[q] + n
      /\ received'[q] = IF whole THEN Append(received[q], frame) ELSE received[q]
      /\ pc_child'[q] = IF Len(received'[q]) = round THEN "close" ELSE "read"
      /\ UNCHANGED <<pc_parent, write_fd, read_fd, i_writer, moved, cut, crossed>>
  BY <1>1, <1>2 DEF ReadTo, TypeOK, fds, writing
<1>4. Quiet(q) /\ During(q)
  BY <1>3 DEF Quietly, Quiet
<1>5. /\ received[q] \in Seq([Position -> Int]) /\ old \in Nat /\ ptr_reader[q] \in Nat
      /\ Out(q) \in Nat /\ In(q) \in Nat /\ Len(pipe[f]) \in Nat /\ Len(rest) \in Nat
  <2>1. received[q] \in Seq([Position -> Int])
    BY DEF TypeOK
  <2>2. Len(rest) \in Nat
    OBVIOUS
  <2> QED
    BY <2>1, <2>2, Counts
<1>6. Len(received'[q]) = IF whole THEN old + 1 ELSE old
  BY <1>3, <1>5
<1>7. Out(q)' = Out(q) + n /\ In(q)' = In(q)
  <2> DEFINE base == old * message_size
  <2>1. Out(q) = base + ptr_reader[q] /\ base \in Nat
    BY Counts DEF Out
  <2>2. Out(q)' = base + (ptr_reader[q] + n)
    <3>1. CASE whole
      <4>1. Out(q)' = (old + 1) * message_size + 0
        BY <1>3, <1>6, <3>1 DEF Out
      <4>2. (old + 1) * message_size = base + message_size /\ (old + 1) * message_size \in Nat
        BY <1>5, Sizes, NextFrame
      <4> HIDE DEF base, old
      <4> QED
        BY <2>1, <3>1, <4>1, <4>2, Sizes
    <3>2. CASE ~whole
      BY <1>3, <1>6, <3>2 DEF Out
    <3> QED
      BY <3>1, <3>2
  <2>3. In(q)' = In(q)
    BY <1>3 DEF In
  <2> HIDE DEF base
  <2> QED
    BY <1>5, <2>1, <2>2, <2>3
<1>8. Before(q)'
  BY <1>3, <1>4, Sizes DEF Quiet, Before, Ends
<1>9. During(q)'
  <2> SUFFICES
        /\ q \in cut => Out(q)' + Len(rest) < In(q)
        /\ q \notin cut =>
             /\ Out(q)' + Len(rest) = In(q)
             /\ \A k \in 1 .. Len(rest) :
                  rest[k] = Byte(generating_seed + ((Out(q)' + k - 1) \div message_size))
             /\ \A k \in Position :
                  k < ptr_reader'[q] => frame[k] = Byte(generating_seed + Len(received'[q]))
    BY <1>2, <1>3, <1>4, <1>7 DEF During
  <2>1. /\ q \in cut => Out(q)' + Len(rest) < In(q)
        /\ q \notin cut => Out(q)' + Len(rest) = In(q)
    BY <1>2, <1>3, <1>4, <1>5, <1>7 DEF During
  <2>2. ASSUME q \notin cut, NEW k \in 1 .. Len(rest)
        PROVE  rest[k] = Byte(generating_seed + ((Out(q)' + k - 1) \div message_size))
    <3>1. n + k \in 1 .. Len(pipe[f]) /\ rest[k] = pipe[f][n + k]
      BY <1>3, <1>5
    <3>2. pipe[f][n + k] = Byte(generating_seed + ((Out(q) + (n + k) - 1) \div message_size))
      BY <1>2, <1>3, <1>4, <2>2, <3>1 DEF During
    <3>3. Out(q) + (n + k) - 1 = Out(q)' + k - 1
      BY <1>5, <1>7
    <3> QED
      BY <3>1, <3>2, <3>3
  <2>3. ASSUME q \notin cut, NEW k \in Position, k < ptr_reader'[q]
        PROVE  frame[k] = Byte(generating_seed + Len(received'[q]))
    <3>1. ~whole /\ k < ptr_reader[q] + n
      BY <1>3, <2>3, Sizes
    <3> QED
      BY <1>1, <1>4, <1>6, <2>3, <3>1, FrameBytes
  <2> QED
    BY <2>1, <2>2, <2>3
<1>10. After(q)'
  <2> SUFFICES ASSUME Len(received'[q]) = round
               PROVE  q \notin cut /\ In(q) = round * message_size
    BY <1>3, <1>7 DEF After
  <2>1. round * message_size <= Out(q)'
    <3>1. Out(q)' = round * message_size + ptr_reader'[q]
      BY DEF Out
    <3>2. ptr_reader'[q] \in Nat /\ round * message_size \in Nat
      BY InWithin DEF TypeOK
    <3> QED
      BY <3>1, <3>2
  <2>2. In(q) <= round * message_size /\ round * message_size \in Nat
    BY InWithin
  <2>3. /\ q \in cut => Out(q)' + Len(rest) < In(q)
        /\ q \notin cut => Out(q)' + Len(rest) = In(q)
    BY <1>2, <1>3, <1>4, <1>5, <1>7 DEF During
  <2> DEFINE all == round * message_size
  <2> HIDE DEF all
  <2>4. all <= Out(q)' /\ In(q) <= all /\ all \in Nat /\ Out(q)' \in Nat
    BY <1>5, <1>7, <2>1, <2>2 DEF all
  <2>5. q \notin cut /\ In(q) = all
    BY <1>5, <2>3, <2>4
  <2> QED
    BY <2>5 DEF all
<1>11. ASSUME q \notin cut PROVE AllMatch(received'[q])
  <2>1. AllMatch(received[q])
    BY <1>4, <1>11 DEF Quiet
  <2>2. ASSUME whole PROVE frame = Generated(old)
    <3>1. \A k \in Position : frame[k] = Byte(generating_seed + old)
      <4>1. ASSUME NEW k \in Position PROVE k < ptr_reader[q] + n
        BY <2>2, Sizes
      <4> QED
        BY <1>1, <1>4, <1>11, <4>1, FrameBytes
    <3> QED
      BY <3>1 DEF Generated
  <2> HIDE DEF IInv, old
  <2> QED
    BY <1>3, <1>5, <1>6, <2>1, <2>2 DEF AllMatch, old
<1> QED
  BY <1>3, <1>8, <1>9, <1>10, <1>11 DEF Quiet

LEMMA QuietlyPreserved ==
  ASSUME IInv, TypeOK', NEW q \in Run, Step(q)
  PROVE  Quietly'
<1> SUFFICES ASSUME NEW r \in Run, r \notin crossed'
             PROVE  Quiet(r)'
  BY DEF Quietly
<1>1. CASE r = q
  BY <1>1, QuietOpens, QuietTransfers, QuietReturns, QuietLeaves, QuietElsewhere, QuietReads
     DEF Step, ParentStep, ChildStep
<1>2. CASE r # q
  <2>1. /\ UNCHANGED <<pc_parent[r], pc_child[r], write_fd[r], read_fd[r], i_writer[r], moved[r],
                       ptr_reader[r], local_frame[r], received[r]>>
        /\ r \in cut' <=> r \in cut
        /\ r \notin crossed
        /\ \A f \in Run : r \in Users(f) => pipe'[f] = pipe[f]
    BY <1>2, OtherRun DEF IInv
  <2>2. /\ read_fd[r] # None => pipe'[read_fd[r]] = pipe[read_fd[r]]
        /\ write_fd[r] # None => pipe'[write_fd[r]] = pipe[write_fd[r]]
    BY <2>1 DEF IInv, TypeOK, Users, Readers, Writers
  <2>3. Quiet(r)
    BY <2>1 DEF IInv, Quietly
  <2>4. In(r)' = In(r) /\ Out(r)' = Out(r)
    BY <2>1 DEF In, Out
  <2>5. Ends
    BY DEF IInv
  <2>6. Before(r)'
    BY <2>1, <2>2, <2>3, <2>5, Sizes DEF Quiet, Before, Ends
  <2>7. During(r)' /\ After(r)'
    BY <2>1, <2>2, <2>3, <2>4, <2>5, Sizes DEF Quiet, During, After, Ends
  <2> QED
    BY <2>1, <2>3, <2>6, <2>7 DEF Quiet
<1> QED
  BY <1>1, <1>2

LEMMA NextPreserves == IInv /\ [Next]_vars => IInv'
<1> SUFFICES ASSUME IInv, [Next]_vars PROVE IInv'
  OBVIOUS
<1>1. ASSUME NEW q \in Run, Step(q) PROVE IInv'
  <2>1. TypeOK' /\ Ends'
    BY <1>1, TypePreserved, EndsPreserved DEF IInv
  <2>2. Path' /\ Unused' /\ Apart'
    BY <1>1, PathPreserved, UsersPreserved DEF IInv
  <2>3. Quietly'
    BY <1>1, <2>1, QuietlyPreserved
  <2> QED
    BY <2>1, <2>2, <2>3 DEF IInv
<1>2. CASE UNCHANGED vars
  <2> USE <1>2 DEF vars, fds, writing, reading
  <2>1. TypeOK' /\ Ends' /\ Path'
    BY DEF IInv, TypeOK, Ends, Path
  <2>2. Unused' /\ Apart'
    BY DEF IInv, Unused, Apart, Users, Writers, Readers
  <2>3. Quietly'
    <3> SUFFICES ASSUME NEW r \in Run \ crossed PROVE Quiet(r)'
      BY DEF Quietly
    <3>1. Quiet(r) /\ In(r)' = In(r) /\ Out(r)' = Out(r)
      BY DEF IInv, Quietly, In, Out
    <3>2. Before(r)' /\ After(r)'
      BY <3>1 DEF Quiet, Before, After
    <3>3. During(r)'
      BY <3>1 DEF Quiet, During
    <3> QED
      BY <3>1, <3>2, <3>3 DEF Quiet
  <2> QED
    BY <2>1, <2>2, <2>3 DEF IInv
<1> QED
  BY <1>1, <1>2 DEF Next, Step

-----------------------------------------------------------------------------

(* The invariant holds of every behaviour, for any runs and sizes.          *)
THEOREM InvariantHolds == SafeSpec => []IInv
BY InitEstablishes, NextPreserves, PTL DEF SafeSpec

(* A run that meets no other and has no short write reads what it wrote,    *)
(* whatever other runs left behind when they were killed, for any number of *)
(* runs and any size of the frames and of the pipe.                         *)
THEOREM UndisturbedRunsAlwaysPass == SafeSpec => []UndisturbedFrameCheckPasses
<1>1. IInv => UndisturbedFrameCheckPasses
  BY DEF IInv, Quietly, Quiet, UndisturbedFrameCheckPasses, Undisturbed
<1> QED
  BY <1>1, InvariantHolds, PTL

(* One short write is enough to keep the reader in its loop, for any number *)
(* and size of the frames.                                                  *)
THEOREM ShortWriteAlwaysStarvesReader == SafeSpec => []ShortWriteStarvesReader
<1>1. IInv => ShortWriteStarvesReader
  BY DEF IInv, TypeOK, Quietly, Quiet, After, ShortWriteStarvesReader
<1> QED
  BY <1>1, InvariantHolds, PTL

\* A run unlinks the path when its reader is over; and a run that misses the path
\* does so because of another one.
Unlinked ==
  \A r \in Run :
    /\ pc_parent[r] \in {"unlink", "done"} => pc_child[r] \in {"done", "failed", "killed"}
    /\ \/ "failed" \in {pc_parent[r], pc_child[r]}
       \/ "open" \in {pc_parent[r], pc_child[r]} /\ fifo_path = None
       => \E q \in Run \ {r} : pc_parent[q] = "done"

\* What a step does to that unless it makes, unlinks or misses the path.
LEMMA PlacesKept ==
  ASSUME TypeOK, NEW q \in Run, Step(q), NEW r \in Run,
         ~MakeFifo(q), ~Unlink(q), ~ParentFindsNoPath(q), ~ChildFindsNoPath(q)
  PROVE  /\ UNCHANGED fifo_path
         /\ pc_parent'[r] \in {"open", "failed", "done"} \/ pc_parent[r] = "done"
              => pc_parent'[r] = pc_parent[r]
         /\ pc_child'[r] \in {"open", "failed"} => pc_child'[r] = pc_child[r]
         /\ pc_child[r] \in {"done", "failed", "killed"} => pc_child'[r] = pc_child[r]
         /\ pc_parent'[r] = "unlink" =>
              pc_parent[r] = "unlink" \/ pc_child'[r] \in {"done", "failed", "killed"}
<1> USE DEF TypeOK, ParentGoes, ChildGoes
<1>1. CASE OpenToWrite(q)
  BY <1>1, ZenonT(40) DEF OpenToWrite
<1>2. CASE OpenToRead(q)
  BY <1>2, ZenonT(40) DEF OpenToRead
<1>3. CASE Transfer(q) \/ WriteReturns(q) \/ BrokenPipe(q) \/ WriterDone(q)
  BY <1>3 DEF Transfer, WriteReturns, BrokenPipe, WriterDone
<1>4. CASE Wait(q) \/ KillParent(q)
  BY <1>4 DEF Wait, KillParent
<1>5. CASE Read(q)
  <2>1. /\ UNCHANGED <<fifo_path, pc_parent>> /\ pc_child[q] = "read"
        /\ \E to \in {"close", "read"} : pc_child' = [pc_child EXCEPT ![q] = to]
    BY <1>5 DEF Read
  <2> QED
    BY <2>1
<1>6. CASE ReaderDone(q) \/ KillChild(q)
  BY <1>6 DEF ReaderDone, KillChild
<1> QED
  BY <1>1, <1>2, <1>3, <1>4, <1>5, <1>6 DEF Step, ParentStep, ChildStep

LEMMA UnlinkedPreserved ==
  ASSUME TypeOK, Unlinked, NEW p \in Run, Step(p)
  PROVE  Unlinked'
<1>1. CASE MakeFifo(p)
  <2>1. /\ pc_parent[p] = "mkfifo" /\ pc_parent' = [pc_parent EXCEPT ![p] = "open"]
        /\ pc_child[p] = "unborn" /\ pc_child' = [pc_child EXCEPT ![p] = "open"]
        /\ fifo_path' # None
    BY <1>1, Sizes DEF MakeFifo, ParentGoes, ChildGoes
  <2>2. \A r \in Run : pc_parent[r] = "done" => pc_parent'[r] = "done"
    BY <2>1 DEF TypeOK
  <2> SUFFICES ASSUME NEW r \in Run PROVE Unlinked!(r)'
    BY DEF Unlinked
  <2>3. CASE r = p
    BY <2>1, <2>3 DEF TypeOK
  <2>4. CASE r # p
    <3>1. pc_parent'[r] = pc_parent[r] /\ pc_child'[r] = pc_child[r]
      BY <2>1, <2>4 DEF TypeOK
    <3> QED
      BY <2>1, <2>2, <3>1 DEF Unlinked
  <2> QED
    BY <2>3, <2>4
<1>2. CASE Unlink(p)
  <2>1. /\ pc_parent[p] = "unlink" /\ pc_parent' = [pc_parent EXCEPT ![p] = "done"]
        /\ UNCHANGED pc_child
    BY <1>2 DEF Unlink, ParentGoes
  <2>2. pc_child[p] \in {"done", "failed", "killed"}
    BY <2>1 DEF Unlinked
  <2>3. ASSUME NEW r \in Run \ {p} PROVE \E q \in Run \ {r} : pc_parent'[q] = "done"
    BY <2>1 DEF TypeOK
  <2> QED
    BY <2>1, <2>2, <2>3 DEF Unlinked, TypeOK
<1>3. CASE ParentFindsNoPath(p) \/ ChildFindsNoPath(p)
  <2>1. /\ fifo_path = None /\ UNCHANGED fifo_path
        /\ \/ /\ pc_parent[p] = "open" /\ pc_parent' = [pc_parent EXCEPT ![p] = "failed"]
              /\ UNCHANGED pc_child
           \/ /\ pc_child[p] = "open" /\ pc_child' = [pc_child EXCEPT ![p] = "failed"]
              /\ UNCHANGED pc_parent
    BY <1>3 DEF ParentFindsNoPath, ChildFindsNoPath, ParentGoes, ChildGoes
  <2>2. \A r \in Run : pc_parent[r] = "done" => pc_parent'[r] = "done"
    BY <2>1 DEF TypeOK
  <2>3. \E q \in Run \ {p} : pc_parent[q] = "done"
    BY <2>1 DEF Unlinked
  <2> SUFFICES ASSUME NEW r \in Run PROVE Unlinked!(r)'
    BY DEF Unlinked
  <2>4. CASE r = p
    <3>1. pc_parent'[r] \in {"unlink", "done"} => pc_child'[r] \in {"done", "failed", "killed"}
      BY <2>1, <2>4 DEF TypeOK, Unlinked
    <3> QED
      BY <2>2, <2>3, <2>4, <3>1
  <2>5. CASE r # p
    <3>1. pc_parent'[r] = pc_parent[r] /\ pc_child'[r] = pc_child[r]
      BY <2>1, <2>5 DEF TypeOK
    <3> QED
      BY <2>1, <2>2, <3>1 DEF Unlinked
  <2> QED
    BY <2>4, <2>5
<1>4. CASE ~MakeFifo(p) /\ ~Unlink(p) /\ ~ParentFindsNoPath(p) /\ ~ChildFindsNoPath(p)
  <2> SUFFICES ASSUME NEW r \in Run PROVE Unlinked!(r)'
    BY DEF Unlinked
  <2>1. \A q \in Run : pc_parent[q] = "done" => pc_parent'[q] = "done"
    BY <1>4, PlacesKept
  <2>2. pc_parent'[r] \in {"unlink", "done"} => pc_child'[r] \in {"done", "failed", "killed"}
    BY <1>4, PlacesKept DEF Unlinked
  <2>3. \/ "failed" \in {pc_parent'[r], pc_child'[r]}
        \/ "open" \in {pc_parent'[r], pc_child'[r]} /\ fifo_path' = None
        => \E q \in Run \ {r} : pc_parent[q] = "done"
    BY <1>4, PlacesKept DEF Unlinked
  <2> QED
    BY <2>1, <2>2, <2>3
<1> QED
  BY <1>1, <1>2, <1>3, <1>4

(* However the runs interleave, when all are over the path is gone unless   *)
(* somebody was killed; and a run that finds no path, or is about to, was   *)
(* overtaken by another one, which has ended and unlinked it.               *)
THEOREM PathAlwaysLastsAndGoes == SafeSpec => []PathLastsAndGoes
<1>1. Init => Unlinked
  BY DEF Init, Unlinked
<1>2. IInv /\ Unlinked /\ [Next]_vars => Unlinked'
  <2>1. IInv /\ Unlinked /\ Next => Unlinked'
    BY UnlinkedPreserved DEF IInv, Next, Step
  <2>2. Unlinked /\ UNCHANGED vars => Unlinked'
    BY DEF vars, Unlinked
  <2> QED
    BY <2>1, <2>2
<1>3. IInv /\ Unlinked => PathLastsAndGoes
  BY DEF IInv, TypeOK, Path, Unlinked, PathLastsAndGoes, Over, Killed
<1> QED
  BY <1>1, <1>2, <1>3, InvariantHolds, PTL DEF SafeSpec

(* A reader that shared no FIFO leaves its loop only with every frame,      *)
(* whole and in order: no write of its writer was short.                    *)
THEOREM UndisturbedReaderEndsWithAllFrames ==
  SafeSpec => [](\A r \in Run \ crossed :
                   pc_child[r] \in {"close", "done"} =>
                     r \notin cut /\ received[r] = [n \in 1 .. round |-> Generated(n - 1)])
<1> DEFINE Frame == [Position -> Int]
           Whole(r) == r \notin cut /\ received[r] = [n \in 1 .. round |-> Generated(n - 1)]
<1>1. IInv => \A r \in Run \ crossed : pc_child[r] \in {"close", "done"} => Whole(r)
  <2> SUFFICES ASSUME IInv, NEW r \in Run \ crossed, pc_child[r] \in {"close", "done"}
               PROVE  Whole(r)
    OBVIOUS
  <2>1. r \notin cut /\ AllMatch(received[r])
    BY DEF IInv, Quietly, Quiet, After
  <2>2. received[r] \in Seq(Frame) /\ Len(received[r]) = round
    BY DEF IInv, TypeOK, Ends
  <2>3. received[r] = [n \in 1 .. Len(received[r]) |-> received[r][n]]
    <3> HIDE DEF Frame
    <3> QED
      BY <2>2
  <2> QED
    BY <2>1, <2>2, <2>3 DEF AllMatch
<1> QED
  BY <1>1, InvariantHolds, PTL

-----------------------------------------------------------------------------
(* Who breaks a pipe *)

\* A child that fails does so before its parent can write; a parent that
\* SIGPIPE ended had a reader that was killed.
Broken(r) ==
  /\ pc_child[r] = "failed" => pc_parent[r] \in {"mkfifo", "open", "opening", "failed", "killed"}
  /\ pc_parent[r] = "broken" => pc_child[r] = "killed"

LEMMA OwnStepBreaks ==
  ASSUME IInv, NEW q \in Run, Step(q), q \notin crossed', Broken(q)
  PROVE  Broken(q)'
<1>1. q \notin crossed
  BY DEF Step, ParentStep, ChildStep, MakeFifo, OpenToWrite, OpenToRead, ParentFindsNoPath,
         ChildFindsNoPath, Transfer, WriteReturns, BrokenPipe, WriterDone, Wait, Unlink, Read,
         ReaderDone, KillParent, KillChild
<1>2. TypeOK /\ Ends /\ Apart /\ Before(q) /\ During(q) /\ After(q)
  BY <1>1 DEF IInv, Quietly, Quiet
<1>3. CASE BrokenPipe(q)
  <2>1. /\ pc_parent[q] = "write" /\ Readers(write_fd[q]) = {} /\ moved[q] < message_size
        /\ pc_parent'[q] = "broken" /\ UNCHANGED pc_child
    BY <1>2, <1>3 DEF BrokenPipe, ParentGoes, TypeOK
  <2>2. pc_child[q] # "failed"
    BY <2>1 DEF Broken
  <2>3. pc_child[q] \notin {"unborn", "open", "opening"}
    BY <1>2, <2>1 DEF Before
  <2>4. pc_child[q] # "read"
    <3> SUFFICES ASSUME pc_child[q] = "read" PROVE FALSE
      OBVIOUS
    <3>1. write_fd[q] # None /\ read_fd[q] = write_fd[q]
      BY <1>2, <2>1 DEF Ends, During
    <3>2. q \in Readers(write_fd[q])
      BY <3>1 DEF Readers
    <3> QED
      BY <2>1, <3>2
  <2>5. pc_child[q] \notin {"close", "done"}
    <3> SUFFICES ASSUME pc_child[q] \in {"close", "done"} PROVE FALSE
      OBVIOUS
    <3>1. In(q) = round * message_size
      BY <1>2 DEF After
    <3>2. i_writer[q] < round
      BY <1>2, <2>1 DEF Ends
    <3>3. In(q) < round * message_size
      BY <1>2, <2>1, <3>2, InWithin
    <3>4. In(q) \in Nat /\ round * message_size \in Nat
      BY <1>2, Counts, InWithin
    <3> QED
      BY <3>1, <3>3, <3>4
  <2>6. pc_child[q] = "killed"
    BY <1>2, <2>2, <2>3, <2>4, <2>5 DEF TypeOK
  <2> QED
    BY <2>1, <2>6 DEF Broken
<1>4. CASE ChildFindsNoPath(q)
  <2>1. pc_child[q] = "open" /\ pc_child'[q] = "failed" /\ UNCHANGED pc_parent
    BY <1>2, <1>4 DEF ChildFindsNoPath, ChildGoes, TypeOK
  <2> QED
    BY <1>2, <2>1 DEF Before, Broken
<1>5. CASE OpenToWrite(q)
  <2>1. /\ fifo_path \in Run /\ pc_parent[q] = "open"
        /\ pc_parent'[q] = IF Readers(fifo_path) # {} THEN "write" ELSE "opening"
        /\ pc_child'[q] \in {pc_child[q], "read"} /\ q \notin Together(fifo_path, q)
    BY <1>2, <1>5 DEF OpenToWrite, TypeOK
  <2>2. pc_child[q] = "failed" => Readers(fifo_path) = {}
    <3>1. pc_child[q] = "failed" => q \notin Readers(fifo_path)
      BY <1>2, <2>1, Sizes DEF Ends, Readers
    <3> QED
      BY <2>1, <3>1 DEF Together
  <2> QED
    BY <2>1, <2>2 DEF Broken
<1>6. CASE OpenToRead(q)
  <2>1. /\ pc_child[q] = "open" /\ pc_child'[q] \in {"read", "opening"}
        /\ pc_parent'[q] \in {pc_parent[q], "write"}
    BY <1>2, <1>6 DEF OpenToRead, TypeOK
  <2> QED
    BY <1>2, <2>1 DEF Before, Broken
<1>7. CASE MakeFifo(q) \/ ParentFindsNoPath(q) \/ WriteReturns(q) \/ WriterDone(q) \/ Wait(q)
           \/ Unlink(q) \/ KillParent(q)
  <2>1. UNCHANGED pc_child \/ pc_child'[q] = "open"
    BY <1>2, <1>7 DEF MakeFifo, ParentFindsNoPath, WriteReturns, WriterDone, Wait, Unlink,
                      KillParent, ChildGoes, TypeOK
  <2>2. \/ pc_parent[q] \in {"write", "close", "wait", "unlink"}
           /\ pc_parent'[q] \in {"write", "close", "wait", "unlink", "done"}
        \/ pc_parent'[q] \in {"open", "failed", "killed"}
    BY <1>2, <1>7 DEF MakeFifo, ParentFindsNoPath, WriteReturns, WriterDone, Wait, Unlink,
                      KillParent, ParentGoes, TypeOK
  <2> QED
    BY <2>1, <2>2 DEF Broken
<1>8. CASE Transfer(q)
  BY <1>8 DEF Transfer, Broken
<1>9. CASE Read(q) \/ ReaderDone(q) \/ KillChild(q)
  <2>1. /\ UNCHANGED pc_parent
        /\ \/ pc_child[q] \in {"read", "close"} /\ pc_child'[q] \in {"read", "close", "done"}
           \/ pc_child'[q] = "killed"
    BY <1>2, <1>9 DEF Read, ReaderDone, KillChild, ChildGoes, TypeOK
  <2> QED
    BY <2>1 DEF Broken
<1> QED
  BY <1>3, <1>4, <1>5, <1>6, <1>7, <1>8, <1>9 DEF Step, ParentStep, ChildStep

(* In a run that shares no FIFO, the writer is ended by SIGPIPE only when   *)
(* its own reader was killed: a reader that has read all, or that found no  *)
(* path, never breaks the pipe.                                             *)
THEOREM OnlyAKilledReaderBreaksThePipe ==
  SafeSpec => [](\A r \in Run \ crossed : pc_parent[r] = "broken" => pc_child[r] = "killed")
<1> DEFINE Breaks == \A r \in Run \ crossed : Broken(r)
<1>1. Init => Breaks
  BY DEF Init, Broken
<1>2. ASSUME IInv, Breaks, [Next]_vars PROVE Breaks'
  <2>1. ASSUME NEW q \in Run, Step(q), NEW r \in Run, r \notin crossed'
        PROVE  Broken(r)'
    <3>1. CASE r = q
      <4>1. crossed \subseteq crossed'
        BY <2>1 DEF Step, ParentStep, ChildStep, MakeFifo, OpenToWrite, OpenToRead,
               ParentFindsNoPath, ChildFindsNoPath, Transfer, WriteReturns, BrokenPipe,
               WriterDone, Wait, Unlink, Read, ReaderDone, KillParent, KillChild
      <4>2. Broken(q)
        BY <1>2, <2>1, <3>1, <4>1
      <4> QED
        BY <1>2, <2>1, <3>1, <4>2, OwnStepBreaks
    <3>2. CASE r # q
      <4>1. UNCHANGED <<pc_parent[r], pc_child[r]>> /\ r \notin crossed
        BY <1>2, <2>1, <3>2, OtherRun DEF IInv
      <4> QED
        BY <1>2, <4>1 DEF Broken
    <3> QED
      BY <3>1, <3>2
  <2>2. CASE UNCHANGED vars
    BY <1>2, <2>2 DEF vars, Broken
  <2> QED
    BY <1>2, <2>1, <2>2 DEF Next, Step
<1>3. Breaks => \A r \in Run \ crossed : pc_parent[r] = "broken" => pc_child[r] = "killed"
  BY DEF Broken
<1>4. SafeSpec => []Breaks
  <2> HIDE DEF Breaks
  <2> QED
    BY <1>1, <1>2, InvariantHolds, PTL DEF SafeSpec
<1> QED
  BY <1>3, <1>4, PTL

-----------------------------------------------------------------------------
(* Progress: what UndisturbedRunEnds needs besides fairness                 *)

\* When a process of run r can go on by itself: the guards of its actions.
ParentCanStep(r) ==
  \/ pc_parent[r] \in {"mkfifo", "open", "close", "unlink"}
  \/ /\ pc_parent[r] = "write"
     /\ \/ moved[r] > 0
        \/ Readers(write_fd[r]) = {}
        \/ Len(pipe[write_fd[r]]) < PipeSize
  \/ pc_parent[r] = "wait" /\ pc_child[r] \in {"done", "failed", "killed"}

ChildCanStep(r) ==
  \/ pc_child[r] \in {"open", "close"}
  \/ pc_child[r] = "read" /\ pipe[read_fd[r]] # <<>>

\* How many more places the two processes of a run can go to.
ParentPlaces(pc) == CASE pc = "mkfifo" -> 7
                      [] pc = "open" -> 6
                      [] pc = "opening" -> 5
                      [] pc = "write" -> 4
                      [] pc = "close" -> 3
                      [] pc = "wait" -> 2
                      [] pc = "unlink" -> 1
                      [] pc \in {"done", "failed", "broken", "killed"} -> 0

ChildPlaces(pc) == CASE pc = "unborn" -> 5
                     [] pc = "open" -> 4
                     [] pc = "opening" -> 3
                     [] pc = "read" -> 2
                     [] pc = "close" -> 1
                     [] pc \in {"done", "failed", "killed"} -> 0

\* How often a run's reads and writes can still move bytes, at the most; a
\* write that has moved some has to return.
Reads(r) == round * message_size - Out(r)
Writes(r) == 2 * (round * message_size - In(r)) + (IF moved[r] > 0 THEN 1 ELSE 0)

StepCounts ==
  \A r \in Run : /\ ParentPlaces(pc_parent[r]) \in Nat /\ ChildPlaces(pc_child[r]) \in Nat
                 /\ Reads(r) \in Nat /\ Writes(r) \in Nat

\* Run r has no more to do of any kind, or less to do of one.
NoMore(r) ==
  /\ ParentPlaces(pc_parent'[r]) <= ParentPlaces(pc_parent[r])
  /\ ChildPlaces(pc_child'[r]) <= ChildPlaces(pc_child[r])
  /\ Reads(r)' <= Reads(r) /\ Writes(r)' <= Writes(r)

Less(r) ==
  \/ ParentPlaces(pc_parent'[r]) < ParentPlaces(pc_parent[r])
  \/ ChildPlaces(pc_child'[r]) < ChildPlaces(pc_child[r])
  \/ Reads(r)' < Reads(r) \/ Writes(r)' < Writes(r)

StepSpent == (\A r \in Run : NoMore(r)) /\ \E r \in Run : Less(r)

\* Where the loops are when they have not ended, and when they have.
Course ==
  \A r \in Run :
    /\ pc_child[r] \in {"unborn", "open", "opening", "read"} => Len(received[r]) < round
    /\ Len(received[r]) <= round /\ (Len(received[r]) = round => ptr_reader[r] = 0)
    /\ pc_parent[r] \in {"close", "wait", "unlink", "done"} => i_writer[r] = round
    /\ pc_child[r] = "unborn" => pc_parent[r] \in {"mkfifo", "killed"}

\* An open that waits waits because the FIFO is not open at its other end.
Meet ==
  \A q, r \in Run : /\ pc_parent[q] = "opening" => read_fd[r] # write_fd[q]
                    /\ pc_child[q] = "opening" => write_fd[r] # read_fd[q]

LEMMA CoursePreserved ==
  ASSUME TypeOK, Ends, Course, NEW q \in Run, Step(q)
  PROVE  Course'
<1>1. CASE Read(q)
  <2>1. PICK n \in Nat \ {0}, frame \in [Position -> Int], rest \in Seq(Int) :
          ReadTo(q, n, frame, rest)
    BY <1>1, ReadMeans
  <2> DEFINE whole == ptr_reader[q] + n = message_size
  <2>2. /\ pc_child[q] = "read"
        /\ received'[q] = IF whole THEN Append(received[q], frame) ELSE received[q]
        /\ ptr_reader'[q] = IF whole THEN 0 ELSE ptr_reader[q] + n
        /\ pc_child'[q] = IF Len(received'[q]) = round THEN "close" ELSE "read"
        /\ \A r \in Run \ {q} : UNCHANGED <<ptr_reader[r], pc_child[r], received[r]>>
        /\ UNCHANGED <<pc_parent, i_writer>>
    BY <2>1 DEF ReadTo, TypeOK, writing
  <2>3. /\ received[q] \in Seq([Position -> Int]) /\ Len(received[q]) \in Nat
        /\ Len(received[q]) < round /\ round \in Nat
    <3>1. received[q] \in Seq([Position -> Int])
      BY DEF TypeOK
    <3>2. Len(received[q]) < round
      BY <2>2 DEF Course
    <3> QED
      BY <3>1, <3>2, Sizes
  <2>4. Len(received'[q]) = IF whole THEN Len(received[q]) + 1 ELSE Len(received[q])
    BY <2>2, <2>3
  <2> HIDE DEF whole
  <2>5. Len(received'[q]) <= round /\ (Len(received'[q]) = round => ptr_reader'[q] = 0)
    BY <2>2, <2>3, <2>4
  <2>6. pc_child'[q] # "close" => Len(received'[q]) < round
    BY <2>2, <2>3, <2>4
  <2> QED
    BY <2>2, <2>5, <2>6 DEF Course
<1>2. CASE WriteReturns(q)
  <2>1. /\ pc_parent[q] = "write"
        /\ pc_parent' = [pc_parent EXCEPT ![q] = IF i_writer[q] + 1 < round THEN "write" ELSE "close"]
        /\ i_writer' = [i_writer EXCEPT ![q] = @ + 1] /\ UNCHANGED <<pc_child, reading>>
    BY <1>2 DEF WriteReturns, ParentGoes
  <2>2. i_writer[q] \in Nat /\ i_writer[q] < round /\ round \in Nat
    BY <2>1, Sizes DEF TypeOK, Ends
  <2>3. pc_parent'[q] = "close" => i_writer'[q] = round
    BY <2>1, <2>2 DEF TypeOK
  <2> QED
    BY <2>1, <2>3 DEF Course, TypeOK, reading
<1>3. CASE OpenToWrite(q)
  <2>1. /\ pc_parent[q] = "open" /\ UNCHANGED <<i_writer, reading>>
        /\ pc_parent' \in {[pc_parent EXCEPT ![q] = "write"], [pc_parent EXCEPT ![q] = "opening"]}
        /\ \A r \in Run : pc_child'[r] = pc_child[r] \/ (pc_child[r] = "opening" /\ pc_child'[r] = "read")
    BY <1>3 DEF OpenToWrite, writing
  <2> QED
    BY <2>1, ZenonT(40) DEF Course, TypeOK, reading
<1>4. CASE OpenToRead(q)
  <2>1. /\ pc_child[q] = "open" /\ UNCHANGED <<i_writer, reading>>
        /\ pc_child' \in {[pc_child EXCEPT ![q] = "read"], [pc_child EXCEPT ![q] = "opening"]}
        /\ \A r \in Run : \/ pc_parent'[r] = pc_parent[r]
                          \/ pc_parent[r] = "opening" /\ pc_parent'[r] = "write"
    BY <1>4 DEF OpenToRead, writing
  <2> QED
    BY <2>1 DEF Course, TypeOK, reading
<1>5. CASE MakeFifo(q) \/ ParentFindsNoPath(q) \/ ChildFindsNoPath(q)
  BY <1>5, ZenonT(40) DEF MakeFifo, ParentFindsNoPath, ChildFindsNoPath, ParentGoes, ChildGoes, writing,
              reading, Course, TypeOK
<1>6. CASE Wait(q) \/ Unlink(q) \/ Transfer(q)
  BY <1>6 DEF Wait, Unlink, Transfer, ParentGoes, writing, reading, Course, TypeOK
<1>7. CASE BrokenPipe(q) \/ WriterDone(q) \/ KillParent(q)
  <2>1. /\ UNCHANGED <<pc_child, i_writer, reading>>
        /\ \/ \E to \in {"broken", "killed"} : pc_parent' = [pc_parent EXCEPT ![q] = to]
           \/ pc_parent[q] = "close" /\ pc_parent' = [pc_parent EXCEPT ![q] = "wait"]
        /\ pc_parent'[q] = "broken" => pc_parent[q] = "write"
    BY <1>7 DEF BrokenPipe, WriterDone, KillParent, ParentGoes, writing, TypeOK
  <2> QED
    BY <2>1 DEF Course, TypeOK, reading
<1>8. CASE ReaderDone(q) \/ KillChild(q)
  <2>1. /\ UNCHANGED <<pc_parent, i_writer, reading>>
        /\ \E to \in {"done", "killed"} : pc_child' = [pc_child EXCEPT ![q] = to]
    BY <1>8 DEF ReaderDone, KillChild, ChildGoes, writing
  <2> QED
    BY <2>1 DEF Course, TypeOK, reading
<1> QED
  BY <1>1, <1>2, <1>3, <1>4, <1>5, <1>6, <1>7, <1>8 DEF Step, ParentStep, ChildStep

\* A step that opens nothing leaves nobody else waiting in an open.
LEMMA ClosesOrKeeps ==
  ASSUME TypeOK, NEW q \in Run, Step(q), ~OpenToWrite(q), ~OpenToRead(q), NEW r \in Run
  PROVE  /\ pc_parent'[r] = "opening" => pc_parent[r] = "opening" /\ write_fd'[r] = write_fd[r]
         /\ pc_child'[r] = "opening" => pc_child[r] = "opening" /\ read_fd'[r] = read_fd[r]
         /\ write_fd'[r] \in {None, write_fd[r]} /\ read_fd'[r] \in {None, read_fd[r]}
<1> USE DEF ParentGoes, ChildGoes, TypeOK, fds
<1>1. CASE MakeFifo(q) \/ ParentFindsNoPath(q) \/ ChildFindsNoPath(q) \/ Wait(q) \/ Unlink(q)
  BY <1>1 DEF MakeFifo, ParentFindsNoPath, ChildFindsNoPath, Wait, Unlink
<1>2. CASE Transfer(q) \/ WriteReturns(q)
  BY <1>2 DEF Transfer, WriteReturns
<1>3. CASE BrokenPipe(q) \/ WriterDone(q) \/ KillParent(q)
  BY <1>3 DEF BrokenPipe, WriterDone, KillParent
<1>4. CASE ReaderDone(q) \/ KillChild(q)
  BY <1>4 DEF ReaderDone, KillChild
<1>5. CASE Read(q)
  <2>1. /\ UNCHANGED <<pc_parent, write_fd, read_fd>>
        /\ \E to \in {"close", "read"} : pc_child' = [pc_child EXCEPT ![q] = to]
    BY <1>5 DEF Read
  <2> QED
    BY <2>1
<1> QED
  BY <1>1, <1>2, <1>3, <1>4, <1>5 DEF Step, ParentStep, ChildStep

LEMMA MeetPreserved ==
  ASSUME TypeOK, Ends, Meet, NEW q \in Run, Step(q)
  PROVE  Meet'
<1>1. CASE OpenToWrite(q)
  <2> DEFINE f == fifo_path
  <2>1. /\ f \in Run /\ pc_parent[q] = "open" /\ write_fd' = [write_fd EXCEPT ![q] = f]
        /\ pc_parent' = [pc_parent EXCEPT ![q] = IF Readers(f) # {} THEN "write" ELSE "opening"]
        /\ pc_child' = [r \in Run |-> IF r \in Readers(f) /\ pc_child[r] = "opening"
                                      THEN "read" ELSE pc_child[r]]
        /\ read_fd' = read_fd
    BY <1>1 DEF OpenToWrite, TypeOK
  <2>2. ASSUME NEW p \in Run, NEW r \in Run, pc_parent'[p] = "opening"
        PROVE  read_fd'[r] # write_fd'[p]
    <3>1. CASE p = q
      BY <2>1, <2>2, <3>1 DEF TypeOK, Readers
    <3>2. CASE p # q
      BY <2>1, <2>2, <3>2 DEF TypeOK, Meet
    <3> QED
      BY <3>1, <3>2
  <2>3. ASSUME NEW p \in Run, NEW r \in Run, pc_child'[p] = "opening"
        PROVE  write_fd'[r] # read_fd'[p]
    <3>1. pc_child[p] = "opening" /\ read_fd[p] # f
      BY <2>1, <2>3 DEF Readers
    <3>2. write_fd'[r] = f \/ write_fd'[r] = write_fd[r]
      BY <2>1 DEF TypeOK
    <3> QED
      BY <2>1, <3>1, <3>2 DEF Meet
  <2> QED
    BY <2>2, <2>3 DEF Meet
<1>2. CASE OpenToRead(q)
  <2> DEFINE f == fifo_path
  <2>1. /\ f \in Run /\ pc_child[q] = "open" /\ read_fd' = [read_fd EXCEPT ![q] = f]
        /\ pc_child' = [pc_child EXCEPT ![q] = IF Writers(f) # {} THEN "read" ELSE "opening"]
        /\ pc_parent' = [r \in Run |-> IF r \in Writers(f) /\ pc_parent[r] = "opening"
                                       THEN "write" ELSE pc_parent[r]]
        /\ write_fd' = write_fd
    BY <1>2 DEF OpenToRead, TypeOK
  <2>2. ASSUME NEW p \in Run, NEW r \in Run, pc_child'[p] = "opening"
        PROVE  write_fd'[r] # read_fd'[p]
    <3>1. CASE p = q
      BY <2>1, <2>2, <3>1 DEF TypeOK, Writers
    <3>2. CASE p # q
      BY <2>1, <2>2, <3>2 DEF TypeOK, Meet
    <3> QED
      BY <3>1, <3>2
  <2>3. ASSUME NEW p \in Run, NEW r \in Run, pc_parent'[p] = "opening"
        PROVE  read_fd'[r] # write_fd'[p]
    <3>1. pc_parent[p] = "opening" /\ write_fd[p] # f
      BY <2>1, <2>3 DEF Writers
    <3>2. read_fd'[r] = f \/ read_fd'[r] = read_fd[r]
      BY <2>1 DEF TypeOK
    <3> QED
      BY <2>1, <3>1, <3>2 DEF Meet
  <2> QED
    BY <2>2, <2>3 DEF Meet
<1>3. CASE ~OpenToWrite(q) /\ ~OpenToRead(q)
  <2>1. \A r \in Run : /\ pc_parent'[r] = "opening" => pc_parent[r] = "opening"
                       /\ pc_child'[r] = "opening" => pc_child[r] = "opening"
    BY <1>3, ClosesOrKeeps
  <2>2. \A r \in Run : /\ write_fd'[r] \in {None, write_fd[r]} /\ read_fd'[r] \in {None, read_fd[r]}
                       /\ pc_parent'[r] = "opening" => write_fd'[r] = write_fd[r]
                       /\ pc_child'[r] = "opening" => read_fd'[r] = read_fd[r]
    BY <1>3, ClosesOrKeeps
  <2>3. \A r \in Run : /\ pc_parent[r] = "opening" => write_fd[r] # None
                       /\ pc_child[r] = "opening" => read_fd[r] # None
    BY DEF Ends
  <2> QED
    BY <2>1, <2>2, <2>3 DEF Meet
<1> QED
  BY <1>1, <1>2, <1>3

LEMMA CourseHolds == SafeSpec => [](IInv /\ Course /\ Meet)
<1>1. Init => Course /\ Meet
  <2> SUFFICES ASSUME Init PROVE Course /\ Meet
    OBVIOUS
  <2>1. \A r \in Run : Len(received[r]) = 0
    BY DEF Init
  <2> QED
    BY <2>1, Sizes DEF Init, Course, Meet
<1>2. IInv /\ Course /\ Meet /\ [Next]_vars => Course' /\ Meet'
  <2>1. IInv /\ Course /\ Meet /\ Next => Course' /\ Meet'
    BY CoursePreserved, MeetPreserved DEF IInv, Next, Step
  <2>2. Course /\ Meet /\ UNCHANGED vars => Course' /\ Meet'
    BY DEF vars, fds, writing, reading, Course, Meet
  <2> QED
    BY <2>1, <2>2
<1> QED
  BY <1>1, <1>2, InvariantHolds, PTL DEF SafeSpec

(* A run has not read more than its frames.                                 *)
LEMMA OutWithin ==
  ASSUME TypeOK, Ends, Course, NEW r \in Run
  PROVE  /\ Out(r) <= round * message_size
         /\ Len(received[r]) < round => Out(r) < round * message_size
<1>1. /\ Len(received[r]) \in Nat /\ ptr_reader[r] \in Nat /\ ptr_reader[r] < message_size
      /\ Len(received[r]) <= round /\ (Len(received[r]) = round => ptr_reader[r] = 0)
  BY Counts DEF TypeOK, Ends, Course
<1>2. round * message_size \in Nat /\ Len(received[r]) * message_size \in Nat
  BY <1>1, Sizes, NextFrame
<1>3. CASE Len(received[r]) = round
  BY <1>1, <1>2, <1>3 DEF Out
<1>4. CASE Len(received[r]) < round
  <2>1. Len(received[r]) + 1 <= round /\ Len(received[r]) + 1 \in Nat
    BY <1>1, <1>4, Sizes
  <2>2. (Len(received[r]) + 1) * message_size <= round * message_size
    BY <2>1, Sizes, MoreFrames
  <2>3. (Len(received[r]) + 1) * message_size = Len(received[r]) * message_size + message_size
    BY <1>1, Sizes, NextFrame
  <2> QED
    BY <1>1, <1>2, <2>2, <2>3, Sizes, SMTT(30) DEF Out
<1> QED
  BY <1>1, <1>3, <1>4, Sizes

LEMMA StuckFor ==
  ASSUME IInv, Course, Meet, NEW r \in Run, pc_parent[r] = "broken" => pc_child[r] = "killed",
         Undisturbed(r), ~Killed(r), "failed" \notin {pc_parent[r], pc_child[r]},
         ~ParentCanStep(r), ~ChildCanStep(r)
  PROVE  pc_parent[r] = "done" /\ pc_child[r] = "done" /\ AllMatch(received[r])
           /\ Len(received[r]) = round
<1>1. /\ pc_parent[r] \in {"opening", "write", "wait", "done"}
      /\ pc_child[r] \in {"unborn", "opening", "read", "done"}
      /\ pc_parent[r] = "write" => ~(moved[r] > 0) /\ ~(Len(pipe[write_fd[r]]) < PipeSize)
      /\ pc_parent[r] = "wait" => pc_child[r] # "done"
      /\ pc_child[r] = "read" => pipe[read_fd[r]] = <<>>
  <2>1. pc_parent[r] # "broken" /\ pc_parent[r] # "killed" /\ pc_child[r] # "killed"
    BY DEF Killed
  <2> QED
    BY <2>1 DEF IInv, TypeOK, ParentCanStep, ChildCanStep
<1>2. TypeOK /\ Ends /\ Before(r) /\ During(r) /\ After(r) /\ AllMatch(received[r])
  BY DEF IInv, Undisturbed, Quietly, Quiet
<1>3. /\ r \notin cut /\ (None \in {write_fd[r], read_fd[r]} \/ write_fd[r] = read_fd[r])
      /\ In(r) \in Nat /\ Out(r) \in Nat /\ round * message_size \in Nat
  BY <1>2, Counts, InWithin DEF Undisturbed
<1>4. pc_child[r] # "unborn"
  BY <1>1 DEF Course
<1>5. pc_child[r] # "opening"
  <2> SUFFICES ASSUME pc_child[r] = "opening" PROVE FALSE
    OBVIOUS
  <2>1. pc_parent[r] = "opening"
    BY <1>1, <1>2 DEF Before
  <2>2. write_fd[r] # None /\ read_fd[r] # None
    BY <1>2, <2>1 DEF Ends
  <2> QED
    BY <1>3, <2>1, <2>2 DEF Meet
<1>6. CASE pc_child[r] = "read"
  <2>1. pc_parent[r] # "opening"
    BY <1>2, <1>6 DEF Before
  <2>2. pc_parent[r] # "write"
    <3> SUFFICES ASSUME pc_parent[r] = "write" PROVE FALSE
      OBVIOUS
    <3>1. write_fd[r] # None
      BY <1>2 DEF Ends
    <3>2. write_fd[r] = read_fd[r]
      BY <1>2, <1>6, <3>1 DEF During
    <3>3. Len(pipe[write_fd[r]]) = 0
      BY <1>1, <1>6, <3>2
    <3> QED
      BY <1>1, <3>3, Sizes
  <2>3. In(r) = round * message_size
    <3>1. i_writer[r] = round /\ moved[r] = 0
      BY <1>1, <1>2, <2>1, <2>2 DEF Course, Ends
    <3> QED
      BY <1>3, <3>1 DEF In
  <2>4. Out(r) = In(r)
    <3>1. Out(r) + Len(pipe[read_fd[r]]) = In(r) /\ Len(pipe[read_fd[r]]) = 0
      BY <1>1, <1>2, <1>3, <1>6 DEF During
    <3> QED
      BY <1>3, <3>1
  <2>5. Out(r) < round * message_size
    BY <1>2, <1>6, OutWithin DEF Course
  <2> QED
    BY <1>3, <2>3, <2>4, <2>5
<1>7. CASE pc_child[r] = "done"
  <2>1. pc_parent[r] # "opening"
    BY <1>2, <1>7 DEF Before
  <2>2. pc_parent[r] # "write"
    <3> SUFFICES ASSUME pc_parent[r] = "write" PROVE FALSE
      OBVIOUS
    <3>1. i_writer[r] < round /\ moved[r] < message_size
      BY <1>1, <1>2, Sizes DEF TypeOK, Ends
    <3>2. In(r) < round * message_size
      BY <1>2, <3>1, InWithin
    <3>3. In(r) = round * message_size
      BY <1>2, <1>7 DEF After
    <3> QED
      BY <1>3, <3>2, <3>3
  <2>3. pc_parent[r] = "done"
    BY <1>1, <1>7, <2>1, <2>2
  <2> QED
    BY <1>2, <1>7, <2>3 DEF Ends
<1> QED
  BY <1>1, <1>4, <1>5, <1>6, <1>7

(* A run that is undisturbed, of which nobody was killed and that found its *)
(* path never comes to a stop before it has ended and every frame has       *)
(* arrived: its writer and its reader do not wait for one another, neither  *)
(* in open nor in the loops, whatever the other runs do.                    *)
THEOREM UndisturbedRunStopsOnlyAtItsEnd ==
  SafeSpec => [](\A r \in Run :
    Undisturbed(r) /\ ~Killed(r) /\ "failed" \notin {pc_parent[r], pc_child[r]}
      => \/ ParentCanStep(r) \/ ChildCanStep(r)
         \/ /\ pc_parent[r] = "done" /\ pc_child[r] = "done"
            /\ AllMatch(received[r]) /\ Len(received[r]) = round)
<1>1. IInv /\ Course /\ Meet
        /\ (\A r \in Run \ crossed : pc_parent[r] = "broken" => pc_child[r] = "killed")
      => \A r \in Run :
           Undisturbed(r) /\ ~Killed(r) /\ "failed" \notin {pc_parent[r], pc_child[r]}
             => \/ ParentCanStep(r) \/ ChildCanStep(r)
                \/ /\ pc_parent[r] = "done" /\ pc_child[r] = "done"
                   /\ AllMatch(received[r]) /\ Len(received[r]) = round
  BY StuckFor DEF Undisturbed
<1> QED
  BY <1>1, CourseHolds, OnlyAKilledReaderBreaksThePipe, PTL

LEMMA StepsAreCounted == IInv /\ Course => StepCounts
<1> SUFFICES ASSUME IInv, Course, NEW r \in Run
             PROVE  /\ ParentPlaces(pc_parent[r]) \in Nat /\ ChildPlaces(pc_child[r]) \in Nat
                    /\ Reads(r) \in Nat /\ Writes(r) \in Nat
  BY DEF StepCounts
<1>1. /\ In(r) \in Nat /\ Out(r) \in Nat /\ round * message_size \in Nat
      /\ In(r) <= round * message_size /\ Out(r) <= round * message_size
  BY Counts, InWithin, OutWithin DEF IInv
<1>2. Reads(r) \in Nat /\ Writes(r) \in Nat
  BY <1>1 DEF Reads, Writes
<1>3. /\ pc_parent[r] \in {"mkfifo", "open", "opening", "write", "close", "wait", "unlink",
                           "done", "failed", "broken", "killed"}
      /\ pc_child[r] \in {"unborn", "open", "opening", "read", "close", "done", "failed", "killed"}
  BY DEF IInv, TypeOK
<1>4. ParentPlaces(pc_parent[r]) \in Nat
  BY <1>3 DEF ParentPlaces
<1>5. ChildPlaces(pc_child[r]) \in Nat
  BY <1>3 DEF ChildPlaces
<1> QED
  BY <1>2, <1>4, <1>5

\* How far there is to go from each place.
LEMMA ParentPlacesTable ==
  /\ ParentPlaces("mkfifo") = 7 /\ ParentPlaces("open") = 6 /\ ParentPlaces("opening") = 5
  /\ ParentPlaces("write") = 4 /\ ParentPlaces("close") = 3 /\ ParentPlaces("wait") = 2
  /\ ParentPlaces("unlink") = 1 /\ ParentPlaces("done") = 0 /\ ParentPlaces("failed") = 0
  /\ ParentPlaces("broken") = 0 /\ ParentPlaces("killed") = 0
BY DEF ParentPlaces

LEMMA ChildPlacesTable ==
  /\ ChildPlaces("unborn") = 5 /\ ChildPlaces("open") = 4 /\ ChildPlaces("opening") = 3
  /\ ChildPlaces("read") = 2 /\ ChildPlaces("close") = 1 /\ ChildPlaces("done") = 0
  /\ ChildPlaces("failed") = 0 /\ ChildPlaces("killed") = 0
BY DEF ChildPlaces

\* A step that moves no byte takes run q on, and nobody back.
LEMMA PlacesSpent ==
  ASSUME IInv, Course, NEW q \in Run,
         UNCHANGED <<i_writer, moved, ptr_reader, received>>,
         \A r \in Run : /\ ParentPlaces(pc_parent'[r]) <= ParentPlaces(pc_parent[r])
                        /\ ChildPlaces(pc_child'[r]) <= ChildPlaces(pc_child[r]),
         \/ ParentPlaces(pc_parent'[q]) < ParentPlaces(pc_parent[q])
         \/ ChildPlaces(pc_child'[q]) < ChildPlaces(pc_child[q])
  PROVE  StepSpent
<1>1. \A r \in Run : Reads(r)' = Reads(r) /\ Writes(r)' = Writes(r)
  BY DEF Reads, Writes, In, Out
<1>2. \A r \in Run : Reads(r) \in Nat /\ Writes(r) \in Nat
  BY StepsAreCounted DEF StepCounts
<1> QED
  BY <1>1, <1>2 DEF StepSpent, NoMore, Less

LEMMA OwnStepSpends ==
  ASSUME IInv, Course, NEW q \in Run, Step(q)
  PROVE  StepSpent
<1>0. /\ TypeOK /\ Ends
      /\ \A r \in Run : /\ ParentPlaces(pc_parent[r]) \in Nat /\ ChildPlaces(pc_child[r]) \in Nat
                        /\ Reads(r) \in Nat /\ Writes(r) \in Nat
      /\ In(q) \in Nat /\ Out(q) \in Nat /\ round * message_size \in Nat /\ moved[q] \in Nat
  BY StepsAreCounted, Counts, InWithin DEF StepCounts, IInv
<1>1. CASE OpenToWrite(q)
  <2>1. /\ pc_parent[q] = "open" /\ pc_parent'[q] \in {"write", "opening"}
        /\ \A r \in Run \ {q} : pc_parent'[r] = pc_parent[r]
        /\ \A r \in Run : pc_child'[r] = pc_child[r] \/ (pc_child[r] = "opening" /\ pc_child'[r] = "read")
        /\ UNCHANGED <<i_writer, moved, ptr_reader, received>>
    BY <1>0, <1>1 DEF OpenToWrite, TypeOK, writing, reading
  <2>2. ParentPlaces(pc_parent'[q]) < ParentPlaces(pc_parent[q])
    BY <2>1, ParentPlacesTable
  <2>3. \A r \in Run : ParentPlaces(pc_parent'[r]) <= ParentPlaces(pc_parent[r])
    BY <1>0, <2>1, ParentPlacesTable
  <2>4. \A r \in Run : ChildPlaces(pc_child'[r]) <= ChildPlaces(pc_child[r])
    BY <1>0, <2>1, ChildPlacesTable
  <2> QED
    BY <2>1, <2>2, <2>3, <2>4, PlacesSpent
<1>2. CASE OpenToRead(q)
  <2>1. /\ pc_child[q] = "open" /\ pc_child'[q] \in {"read", "opening"}
        /\ \A r \in Run \ {q} : pc_child'[r] = pc_child[r]
        /\ \A r \in Run : \/ pc_parent'[r] = pc_parent[r]
                          \/ pc_parent[r] = "opening" /\ pc_parent'[r] = "write"
        /\ UNCHANGED <<i_writer, moved, ptr_reader, received>>
    BY <1>0, <1>2 DEF OpenToRead, TypeOK, writing, reading
  <2>2. ChildPlaces(pc_child'[q]) < ChildPlaces(pc_child[q])
    BY <2>1, ChildPlacesTable
  <2>3. \A r \in Run : ChildPlaces(pc_child'[r]) <= ChildPlaces(pc_child[r])
    BY <1>0, <2>1, ChildPlacesTable
  <2>4. \A r \in Run : ParentPlaces(pc_parent'[r]) <= ParentPlaces(pc_parent[r])
    BY <1>0, <2>1, ParentPlacesTable
  <2> QED
    BY <2>1, <2>2, <2>3, <2>4, PlacesSpent
<1>3. CASE MakeFifo(q)
  <2>1. /\ pc_parent[q] = "mkfifo" /\ pc_parent'[q] = "open"
        /\ pc_child[q] = "unborn" /\ pc_child'[q] = "open"
        /\ \A r \in Run \ {q} : UNCHANGED <<pc_parent[r], pc_child[r]>>
        /\ UNCHANGED <<i_writer, moved, ptr_reader, received>>
    BY <1>0, <1>3 DEF MakeFifo, ParentGoes, ChildGoes, TypeOK, writing, reading
  <2> QED
    BY <1>0, <2>1, ParentPlacesTable, ChildPlacesTable, PlacesSpent
<1>4. CASE \/ ParentFindsNoPath(q) \/ BrokenPipe(q) \/ WriterDone(q) \/ Wait(q) \/ Unlink(q)
           \/ KillParent(q)
  <2>1. /\ UNCHANGED <<pc_child, i_writer, moved, ptr_reader, received>>
        /\ \A r \in Run \ {q} : pc_parent'[r] = pc_parent[r]
    BY <1>0, <1>4 DEF ParentFindsNoPath, BrokenPipe, WriterDone, Wait, Unlink, KillParent,
                      ParentGoes, TypeOK, writing, reading
  <2>2. \/ pc_parent[q] = "open" /\ pc_parent'[q] = "failed"
        \/ pc_parent[q] = "write" /\ pc_parent'[q] = "broken"
        \/ pc_parent[q] = "close" /\ pc_parent'[q] = "wait"
        \/ pc_parent[q] = "wait" /\ pc_parent'[q] = "unlink"
        \/ pc_parent[q] = "unlink" /\ pc_parent'[q] = "done"
        \/ /\ pc_parent[q] \in {"mkfifo", "open", "opening", "write", "close", "wait", "unlink"}
           /\ pc_parent'[q] = "killed"
    BY <1>0, <1>4 DEF ParentFindsNoPath, BrokenPipe, WriterDone, Wait, Unlink, KillParent,
                      ParentGoes, TypeOK
  <2>3. ParentPlaces(pc_parent'[q]) < ParentPlaces(pc_parent[q])
    BY <2>2, ParentPlacesTable
  <2>4. \A r \in Run : ParentPlaces(pc_parent'[r]) <= ParentPlaces(pc_parent[r])
    BY <1>0, <2>1, <2>2, ParentPlacesTable
  <2> QED
    BY <1>0, <2>1, <2>3, <2>4, PlacesSpent
<1>5. CASE ChildFindsNoPath(q) \/ ReaderDone(q) \/ KillChild(q)
  <2>1. /\ UNCHANGED <<pc_parent, i_writer, moved, ptr_reader, received>>
        /\ \A r \in Run \ {q} : pc_child'[r] = pc_child[r]
    BY <1>0, <1>5 DEF ChildFindsNoPath, ReaderDone, KillChild, ChildGoes, TypeOK, writing, reading
  <2>2. \/ pc_child[q] = "open" /\ pc_child'[q] = "failed"
        \/ pc_child[q] = "close" /\ pc_child'[q] = "done"
        \/ pc_child[q] \in {"open", "opening", "read", "close"} /\ pc_child'[q] = "killed"
    BY <1>0, <1>5 DEF ChildFindsNoPath, ReaderDone, KillChild, ChildGoes, TypeOK
  <2>3. ChildPlaces(pc_child'[q]) < ChildPlaces(pc_child[q])
    BY <2>2, ChildPlacesTable
  <2>4. \A r \in Run : ChildPlaces(pc_child'[r]) <= ChildPlaces(pc_child[r])
    BY <1>0, <2>1, <2>2, ChildPlacesTable
  <2> QED
    BY <1>0, <2>1, <2>3, <2>4, PlacesSpent
<1>6. CASE Transfer(q)
  <2>1. PICK n \in 1 .. Least(PipeSize - Len(pipe[write_fd[q]]), message_size - moved[q]) :
          /\ moved' = [moved EXCEPT ![q] = @ + n]
          /\ UNCHANGED <<pc_parent, pc_child, i_writer, ptr_reader, received>>
    BY <1>6 DEF Transfer, reading
  <2>2. n \in Nat \ {0}
    OBVIOUS
  <2>3. /\ moved'[q] = moved[q] + n /\ \A r \in Run \ {q} : moved'[r] = moved[r]
    BY <1>0, <2>1 DEF TypeOK
  <2>4. In(q)' = In(q) + n
    <3> DEFINE before == i_writer[q] * message_size
    <3>1. before \in Nat /\ In(q) = before + moved[q] /\ In(q)' = before + moved'[q]
      BY <1>0, <2>1, Counts DEF In
    <3> HIDE DEF before
    <3> QED
      BY <1>0, <2>2, <2>3, <3>1
  <2>5. Writes(q)' < Writes(q) /\ Writes(q)' <= Writes(q)
    <3> DEFINE whole == round * message_size
    <3>1. /\ Writes(q) = 2 * (whole - In(q)) + (IF moved[q] > 0 THEN 1 ELSE 0)
          /\ Writes(q)' = 2 * (whole - In(q)') + (IF moved'[q] > 0 THEN 1 ELSE 0)
      BY DEF Writes
    <3>2. whole \in Nat /\ In(q) \in Nat
      BY <1>0
    <3> HIDE DEF whole
    <3>3. 2 * (whole - In(q)') + 1 < 2 * (whole - In(q))
      BY <2>2, <2>4, <3>2
    <3>4. 2 * (whole - In(q)') \in Int /\ 2 * (whole - In(q)) \in Int
      BY <2>2, <2>4, <3>2
    <3> QED
      BY <3>1, <3>3, <3>4
  <2>6. \A r \in Run : Reads(r)' = Reads(r)
    BY <2>1 DEF Reads, Out
  <2>7. \A r \in Run \ {q} : Writes(r)' = Writes(r)
    BY <2>1, <2>3 DEF Writes, In
  <2> QED
    BY <1>0, <2>1, <2>5, <2>6, <2>7, SMTT(30) DEF StepSpent, NoMore, Less
<1>7. CASE WriteReturns(q)
  <2>1. /\ pc_parent[q] = "write" /\ moved[q] > 0 /\ moved[q] <= message_size
        /\ moved' = [moved EXCEPT ![q] = 0] /\ i_writer' = [i_writer EXCEPT ![q] = @ + 1]
        /\ pc_parent'[q] \in {"write", "close"}
        /\ \A r \in Run \ {q} : pc_parent'[r] = pc_parent[r]
        /\ UNCHANGED <<pc_child, ptr_reader, received>>
    BY <1>0, <1>7 DEF WriteReturns, ParentGoes, Ends, TypeOK, reading
  <2>2. /\ i_writer'[q] = i_writer[q] + 1 /\ moved'[q] = 0 /\ i_writer[q] \in Nat
        /\ \A r \in Run \ {q} : i_writer'[r] = i_writer[r] /\ moved'[r] = moved[r]
    BY <1>0, <2>1 DEF TypeOK
  <2>3. In(q)' >= In(q) /\ In(q)' \in Nat
    <3> DEFINE before == i_writer[q] * message_size
    <3>1. /\ before \in Nat /\ In(q) = before + moved[q] /\ (i_writer[q] + 1) * message_size = before + message_size
      BY <1>0, <2>2, Sizes, NextFrame DEF In
    <3>2. In(q)' = (i_writer[q] + 1) * message_size + 0
      BY <2>2 DEF In
    <3>3. moved[q] \in Nat /\ message_size \in Nat /\ moved[q] <= message_size
      BY <1>0, <2>1, Sizes
    <3> HIDE DEF before
    <3>4. In(q)' = before + message_size
      BY <3>1, <3>2, <3>3
    <3> QED
      BY <3>1, <3>3, <3>4
  <2>4. Writes(q)' < Writes(q) /\ Writes(q)' <= Writes(q)
    <3> DEFINE whole == round * message_size
    <3>1. /\ Writes(q) = 2 * (whole - In(q)) + 1 /\ Writes(q)' = 2 * (whole - In(q)') + 0
      BY <1>0, <2>1, <2>2 DEF Writes
    <3>2. whole \in Nat
      BY <1>0
    <3> HIDE DEF whole
    <3> QED
      BY <1>0, <2>3, <3>1, <3>2
  <2>5. \A r \in Run : Reads(r)' = Reads(r)
    BY <2>1 DEF Reads, Out
  <2>6. \A r \in Run \ {q} : Writes(r)' = Writes(r)
    BY <2>2 DEF Writes, In
  <2>7. \A r \in Run : ParentPlaces(pc_parent'[r]) <= ParentPlaces(pc_parent[r])
    BY <1>0, <2>1, ParentPlacesTable
  <2> QED
    BY <1>0, <2>1, <2>4, <2>5, <2>6, <2>7 DEF StepSpent, NoMore, Less
<1>8. CASE Read(q)
  <2>1. PICK n \in Nat \ {0}, frame \in [Position -> Int], rest \in Seq(Int) :
          ReadTo(q, n, frame, rest)
    BY <1>0, <1>8, ReadMeans
  <2> DEFINE whole == ptr_reader[q] + n = message_size
  <2>2. /\ pc_child[q] = "read" /\ pc_child'[q] \in {"read", "close"}
        /\ received'[q] = IF whole THEN Append(received[q], frame) ELSE received[q]
        /\ ptr_reader'[q] = IF whole THEN 0 ELSE ptr_reader[q] + n
        /\ \A r \in Run \ {q} : UNCHANGED <<ptr_reader[r], pc_child[r], received[r]>>
        /\ UNCHANGED <<pc_parent, i_writer, moved>>
    BY <1>0, <2>1 DEF ReadTo, TypeOK, writing
  <2>3. Out(q)' = Out(q) + n
    <3> DEFINE len == Len(received[q])
    <3>1. received[q] \in Seq([Position -> Int]) /\ len \in Nat /\ ptr_reader[q] \in Nat
      BY <1>0, Counts DEF TypeOK
    <3>2. Len(received'[q]) = IF whole THEN len + 1 ELSE len
      BY <2>2, <3>1
    <3>3. (len + 1) * message_size = len * message_size + message_size /\ len * message_size \in Nat
      BY <3>1, Sizes, NextFrame
    <3>4. Out(q) = len * message_size + ptr_reader[q]
      BY DEF Out
    <3>5. Out(q)' = Len(received'[q]) * message_size + ptr_reader'[q]
      BY DEF Out
    <3> HIDE DEF len
    <3>6. CASE whole
      <4>1. Out(q)' = (len + 1) * message_size + 0
        BY <2>2, <3>2, <3>5, <3>6
      <4> DEFINE before == len * message_size
      <4>2. before \in Nat /\ Out(q)' = before + message_size /\ Out(q) = before + ptr_reader[q]
        BY <3>3, <3>4, <4>1, Sizes
      <4>3. ptr_reader[q] + n = message_size
        BY <3>6
      <4> HIDE DEF before, whole
      <4> QED
        BY <3>1, <4>2, <4>3
    <3>7. CASE ~whole
      <4> DEFINE before == len * message_size
      <4>1. before \in Nat /\ Out(q)' = before + (ptr_reader[q] + n) /\ Out(q) = before + ptr_reader[q]
        BY <2>2, <3>2, <3>3, <3>4, <3>5, <3>7
      <4> HIDE DEF before
      <4> QED
        BY <3>1, <4>1
    <3> QED
      BY <3>6, <3>7
  <2>4. Reads(q)' < Reads(q) /\ Reads(q)' <= Reads(q)
    <3> DEFINE all == round * message_size
    <3>1. Reads(q) = all - Out(q) /\ Reads(q)' = all - Out(q)' /\ all \in Nat
      BY <1>0 DEF Reads
    <3> HIDE DEF all
    <3> QED
      BY <1>0, <2>3, <3>1, SMTT(30)
  <2>5. \A r \in Run : Writes(r)' = Writes(r)
    BY <2>2 DEF Writes, In
  <2>6. \A r \in Run \ {q} : Reads(r)' = Reads(r)
    BY <2>2 DEF Reads, Out
  <2>7. \A r \in Run : ChildPlaces(pc_child'[r]) <= ChildPlaces(pc_child[r])
    <3>1. ChildPlaces(pc_child'[q]) <= ChildPlaces(pc_child[q])
      BY <2>2, ChildPlacesTable
    <3>2. \A r \in Run \ {q} : ChildPlaces(pc_child'[r]) = ChildPlaces(pc_child[r])
      BY <2>2
    <3> QED
      BY <1>0, <3>1, <3>2, SMTT(30)
  <2>8. pc_parent' = pc_parent
    BY <2>2
  <2> QED
    BY <1>0, <2>4, <2>5, <2>6, <2>7, <2>8, SMTT(30) DEF StepSpent, NoMore, Less
<1> QED
  BY <1>1, <1>2, <1>3, <1>4, <1>5, <1>6, <1>7, <1>8 DEF Step, ParentStep, ChildStep

(* The step counts are natural numbers, and every step lowers one of a      *)
(* run's and raises none of any run's, the runs that share a FIFO and those *)
(* whose writes were cut included: no number of runs can keep one another   *)
(* going for ever.                                                          *)
THEOREM StepsRunOut == SafeSpec => []StepCounts /\ [][StepSpent]_vars
<1>1. IInv /\ Course /\ [Next]_vars => [StepSpent]_vars
  BY OwnStepSpends DEF Next, Step
<1> QED
  BY <1>1, StepsAreCounted, CourseHolds, PTL DEF SafeSpec
=============================================================================
