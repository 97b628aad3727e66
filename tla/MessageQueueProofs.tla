------------------------ MODULE MessageQueueProofs ------------------------
(***************************************************************************)
(* Proofs about the message queue, for any number and size of frames and   *)
(* any capacity of the queue.                                              *)
(***************************************************************************)
EXTENDS MessageQueueProperties, TLAPS

Frame == [Position -> Int]

(* Every variable holds a value of its C++ or kernel type. *)
TypeOK ==
  /\ pc_parent \in {"fork", "send", "wait", "rmid", "done", "killed"}
  /\ pc_child \in {"unborn", "receive", "done", "failed", "killed"}
  /\ i_writer \in 0 .. round
  /\ received \in Seq(Frame)
  /\ msgid \in Seq(Frame)
  /\ removed \in BOOLEAN

\* When the queue is removed, and whom that can disturb.
Life ==
  /\ pc_parent = "done" => removed
  /\ removed => pc_parent \in {"done", "killed"}
  /\ pc_parent \in {"rmid", "done"} => pc_child \in {"done", "killed"}
  /\ pc_child = "failed" => pc_parent = "killed"

\* What is sent and not received is in the queue, in order.
Content ==
  /\ pc_parent \in {"fork", "send"} => i_writer < round
  /\ removed => msgid = <<>>
  /\ ~removed => i_writer = Len(received) + Len(msgid)
  /\ \A n \in 1 .. Len(msgid) : msgid[n] = Generated(Len(received) + n - 1)

IInv == TypeOK /\ Life /\ Content

LEMMA SeedIsNat == round \in Nat \ {0} /\ generating_seed \in Nat
BY FramesAssumption DEF generating_seed

LEMMA GeneratedType == \A n \in Nat : Generated(n) \in Frame
BY SeedIsNat DEF Generated, Frame, Byte

-----------------------------------------------------------------------------

LEMMA InitEstablishes == Init => IInv
<1> SUFFICES ASSUME Init PROVE IInv
  OBVIOUS
<1>1. msgid = <<>> /\ msgid \in Seq(Frame) /\ received \in Seq(Frame) /\ Len(msgid) = 0
  BY DEF Init
<1>2. TypeOK
  <2>1. i_writer \in 0 .. round
    BY SeedIsNat DEF Init
  <2> QED
    BY <1>1, <2>1 DEF Init, TypeOK
<1>3. Content
  BY <1>1, SeedIsNat DEF Init, Content
<1> QED
  BY <1>2, <1>3 DEF Init, IInv, Life

LEMMA SendPreserves ==
  ASSUME IInv, Send
  PROVE  IInv' /\ Stream!Send
<1> USE DEF IInv, TypeOK, Life, Content
<1>1. /\ pc_parent = "send" /\ ~removed /\ i_writer \in Nat /\ i_writer < round
      /\ msgid' = Append(msgid, Generated(i_writer)) /\ Len(msgid) < MaxMessages
      /\ i_writer' = i_writer + 1
      /\ pc_parent' = IF i_writer' = round THEN "wait" ELSE "send"
      /\ UNCHANGED <<pc_child, received, removed>>
  BY DEF Send
<1>2. Generated(i_writer) \in Frame
  BY <1>1, GeneratedType
<1>3. /\ msgid' \in Seq(Frame) /\ Len(msgid') = Len(msgid) + 1
      /\ \A n \in 1 .. Len(msgid) : msgid'[n] = msgid[n]
      /\ msgid'[Len(msgid) + 1] = Generated(i_writer)
  BY <1>1, <1>2
<1>4. TypeOK' /\ Life'
  <2>1. i_writer' \in 0 .. round
    BY <1>1, SeedIsNat
  <2> QED
    BY <1>1, <1>3, <2>1
<1>5. i_writer = Len(received) + Len(msgid) /\ Len(received) \in Nat /\ Len(msgid) \in Nat
  BY <1>1
<1>6. Content'
  <2>1. \A n \in 1 .. Len(msgid') : msgid'[n] = Generated(Len(received) + n - 1)
    <3> SUFFICES ASSUME NEW n \in 1 .. Len(msgid')
                 PROVE  msgid'[n] = Generated(Len(received) + n - 1)
      OBVIOUS
    <3>1. CASE n \in 1 .. Len(msgid)
      BY <1>3, <3>1
    <3>2. CASE n = Len(msgid) + 1
      <4>1. Len(received) + n - 1 = i_writer
        BY <1>5, <3>2
      <4> QED
        BY <1>3, <3>2, <4>1
    <3> QED
      BY <1>3, <1>5, <3>1, <3>2
  <2>2. pc_parent' = "send" => i_writer' < round
    BY <1>1, SeedIsNat
  <2> QED
    BY <1>1, <1>3, <1>5, <2>1, <2>2
<1>7. Stream!Send
  BY <1>1, <1>5, QueueAssumption, SeedIsNat DEF Stream!Send
<1> QED
  BY <1>4, <1>6, <1>7

LEMMA ReceivePreserves ==
  ASSUME IInv, Receive
  PROVE  IInv' /\ Stream!Receive
<1> USE DEF IInv, TypeOK, Life, Content
<1>1. /\ pc_child = "receive" /\ ~removed /\ msgid # <<>>
      /\ received' = Append(received, Head(msgid)) /\ msgid' = Tail(msgid)
      /\ pc_child' \in {"done", "receive"}
      /\ UNCHANGED <<pc_parent, i_writer, removed>>
  BY DEF Receive
<1>2. /\ Len(msgid) \in Nat \ {0} /\ Head(msgid) = msgid[1] /\ msgid[1] \in Frame
      /\ Tail(msgid) \in Seq(Frame) /\ Len(Tail(msgid)) = Len(msgid) - 1
      /\ \A n \in 1 .. Len(Tail(msgid)) : Tail(msgid)[n] = msgid[n + 1]
  BY <1>1
<1>3. received' \in Seq(Frame) /\ Len(received') = Len(received) + 1 /\ Len(received) \in Nat
  BY <1>1, <1>2
<1>4. msgid[1] = Generated(Len(received))
  <2>1. msgid[1] = Generated(Len(received) + 1 - 1)
    BY <1>2
  <2>2. Len(received) + 1 - 1 = Len(received)
    BY <1>3
  <2> QED
    BY <2>1, <2>2
<1>5. TypeOK' /\ Life'
  BY <1>1, <1>2, <1>3
<1>6. Content'
  <2>1. \A n \in 1 .. Len(msgid') : msgid'[n] = Generated(Len(received') + n - 1)
    <3> SUFFICES ASSUME NEW n \in 1 .. Len(msgid')
                 PROVE  msgid'[n] = Generated(Len(received') + n - 1)
      OBVIOUS
    <3>1. msgid'[n] = msgid[n + 1] /\ n + 1 \in 1 .. Len(msgid)
      BY <1>1, <1>2
    <3>2. msgid[n + 1] = Generated(Len(received) + (n + 1) - 1)
      BY <3>1
    <3>3. Len(received) + (n + 1) - 1 = Len(received') + n - 1
      BY <1>3
    <3> QED
      BY <3>1, <3>2, <3>3
  <2> QED
    BY <1>1, <1>2, <1>3, <2>1
<1>7. Stream!Receive
  <2>1. /\ i_writer \in Nat /\ i_writer <= round
        /\ i_writer = Len(received) + Len(msgid)
    BY <1>1, SeedIsNat
  <2>2. Len(received) < i_writer /\ Len(received) \in 0 .. round - 1
    BY <1>2, <1>3, <2>1, SeedIsNat
  <2> QED
    BY <1>1, <1>2, <1>4, <2>2 DEF Stream!Receive
<1> QED
  BY <1>5, <1>6, <1>7

\* A step that moves no message neither breaks the invariant nor changes the stream.
LEMMA OthersPreserve ==
  ASSUME IInv, Fork \/ Wait \/ Remove \/ ReceiveFails \/ KillParent \/ KillChild \/ CleanUp
               \/ UNCHANGED vars
  PROVE  IInv' /\ UNCHANGED <<i_writer, received>>
<1> USE DEF IInv, TypeOK, Life, Content
<1>1. CASE Fork
  BY <1>1 DEF Fork
<1>2. CASE Wait
  BY <1>2 DEF Wait
<1>3. CASE Remove
  BY <1>3 DEF Remove
<1>4. CASE ReceiveFails
  BY <1>4 DEF ReceiveFails
<1>5. CASE KillParent
  BY <1>5 DEF KillParent
<1>6. CASE KillChild
  BY <1>6 DEF KillChild
<1>7. CASE CleanUp
  BY <1>7 DEF CleanUp
<1>8. CASE UNCHANGED vars
  BY <1>8 DEF vars
<1> QED
  BY <1>1, <1>2, <1>3, <1>4, <1>5, <1>6, <1>7, <1>8

LEMMA NextPreserves ==
  ASSUME IInv, [Next]_vars
  PROVE  IInv' /\ (Stream!Next \/ UNCHANGED <<i_writer, received>>)
BY SendPreserves, ReceivePreserves, OthersPreserve DEF Next, Parent, Child, Stream!Next

-----------------------------------------------------------------------------

(* The invariant holds of every behaviour: what is sent and not yet         *)
(* received is in the queue, in order, until the queue is removed.          *)
THEOREM InvariantHolds == SafeSpec => []IInv
BY InitEstablishes, NextPreserves, PTL DEF SafeSpec

(* Unless the parent is killed, the queue is removed after its last use,    *)
(* and never left behind.                                                   *)
THEOREM QueueAlwaysOutlivesItsUsers == SafeSpec => []QueueOutlivesItsUsers
<1>1. IInv => QueueOutlivesItsUsers
  BY DEF IInv, TypeOK, Life, QueueOutlivesItsUsers
<1> QED
  BY <1>1, InvariantHolds, PTL

(* The program delivers the frames whole and in order, and no more of them  *)
(* are under way than the queue holds, whoever is killed and whenever: it   *)
(* implements FrameStream.                                                  *)
THEOREM StreamImplemented == SafeSpec => ImplementsStream
<1>1. Init => Stream!Init
  BY DEF Init, Stream!Init
<1>2. IInv /\ [Next]_vars => [Stream!Next]_<<i_writer, received>>
  BY NextPreserves
<1> QED
  BY <1>1, <1>2, InvariantHolds, PTL
     DEF SafeSpec, ImplementsStream, Stream!SafeSpec, Stream!svars

-----------------------------------------------------------------------------
(* What the stream and the ends of the two processes have to do with each   *)
(* other: what RunEnds and SurvivorEndsIffItCan say that is not about time  *)

\* How far writer() and reader() have come, by the place they are at.
Rounds ==
  /\ AllMatch(received)
  /\ i_writer - Len(received) <= MaxMessages
  /\ pc_parent \in {"wait", "rmid", "done"} => i_writer = round
  /\ pc_child = "done" => Len(received) = round
  /\ pc_parent = "fork" => pc_child = "unborn"
  /\ pc_child = "unborn" => pc_parent \in {"fork", "killed"} /\ received = <<>>
  /\ pc_child = "receive" => Len(received) < round

LEMMA RoundsAtFirst == Init => Rounds
<1> SUFFICES ASSUME Init PROVE Rounds
  OBVIOUS
<1>1. received = <<>> /\ Len(received) = 0
  BY DEF Init
<1> QED
  BY <1>1, QueueAssumption DEF Init, Rounds, AllMatch

LEMMA RoundsPreserved == IInv /\ Rounds /\ [Next]_vars => Rounds'
<1> SUFFICES ASSUME IInv, Rounds, [Next]_vars PROVE Rounds'
  OBVIOUS
<1>0. /\ i_writer \in 0 .. round /\ received \in Seq(Frame) /\ Len(received) \in Nat
      /\ Len(msgid) \in Nat /\ MaxMessages \in Nat /\ round \in Nat
      /\ ~removed => i_writer = Len(received) + Len(msgid)
  BY QueueAssumption, SeedIsNat DEF IInv, TypeOK, Content
<1>1. CASE Send
  <2>1. /\ pc_parent = "send" /\ Len(msgid) < MaxMessages /\ i_writer' = i_writer + 1
        /\ pc_parent' = IF i_writer' = round THEN "wait" ELSE "send"
        /\ pc_child' = pc_child /\ received' = received
    BY <1>1 DEF Send
  <2>2. ~removed
    BY <2>1 DEF IInv, Life
  <2>3. i_writer' - Len(received') <= MaxMessages
    BY <1>0, <2>1, <2>2
  <2> QED
    BY <2>1, <2>3 DEF Rounds
<1>2. CASE Receive
  <2>1. /\ pc_child = "receive"
        /\ pc_child' = IF Len(received') = round THEN "done" ELSE "receive"
        /\ i_writer' = i_writer /\ pc_parent' = pc_parent
    BY <1>2 DEF Receive
  <2>2. received' = Append(received, Generated(Len(received)))
    <3>1. Stream!Receive
      BY <1>2, ReceivePreserves
    <3>2. Len(received) \in 0 .. round - 1
      BY <1>0, <3>1 DEF Stream!Receive
    <3> QED
      BY <3>1, <3>2 DEF Stream!Receive
  <2>3. /\ Len(received') = Len(received) + 1
        /\ \A n \in 1 .. Len(received) : received'[n] = received[n]
        /\ received'[Len(received) + 1] = Generated(Len(received))
    BY <1>0, <2>2
  <2>4. ASSUME NEW n \in 1 .. Len(received') PROVE received'[n] = Generated(n - 1)
    <3>1. CASE n \in 1 .. Len(received)
      BY <2>3, <3>1 DEF Rounds, AllMatch
    <3>2. CASE n = Len(received) + 1
      <4>1. n - 1 = Len(received)
        BY <1>0, <3>2
      <4> QED
        BY <2>3, <3>2, <4>1
    <3> QED
      BY <1>0, <2>3, <3>1, <3>2
  <2>5. i_writer' - Len(received') <= MaxMessages
    BY <1>0, <2>1, <2>3 DEF Rounds
  <2>6. pc_child' = "receive" => Len(received') < round
    <3>1. Len(received) < round
      BY <2>1 DEF Rounds
    <3> QED
      BY <1>0, <2>1, <2>3, <3>1
  <2>7. /\ pc_parent' \in {"wait", "rmid", "done"} => i_writer' = round
        /\ pc_child' = "done" => Len(received') = round
        /\ pc_parent' = "fork" => pc_child' = "unborn"
        /\ pc_child' = "unborn" => pc_parent' \in {"fork", "killed"} /\ received' = <<>>
    BY <2>1 DEF Rounds
  <2> QED
    BY <2>4, <2>5, <2>6, <2>7 DEF Rounds, AllMatch
<1>3. CASE Fork
  BY <1>0, <1>3, SeedIsNat DEF Fork, Rounds
<1>4. CASE Wait \/ Remove \/ ReceiveFails \/ KillParent \/ KillChild \/ CleanUp
             \/ UNCHANGED vars
  BY <1>4 DEF Wait, Remove, ReceiveFails, KillParent, KillChild, CleanUp, vars, Rounds
<1> QED
  BY <1>1, <1>2, <1>3, <1>4 DEF Next, Parent, Child

LEMMA RoundsHold == SafeSpec => [](IInv /\ Rounds)
BY InvariantHolds, RoundsAtFirst, RoundsPreserved, PTL DEF SafeSpec

(* A reader that ends by itself has got all the frames, each as it was      *)
(* generated, for any number of frames and any capacity.                    *)
THEOREM ReaderEndsWithAllFrames ==
  SafeSpec => [](pc_child = "done" => received = [n \in 1 .. round |-> Generated(n - 1)])
<1>1. IInv /\ Rounds
        => (pc_child = "done" => received = [n \in 1 .. round |-> Generated(n - 1)])
  <2> SUFFICES ASSUME IInv, Rounds, pc_child = "done"
               PROVE  received = [n \in 1 .. round |-> Generated(n - 1)]
    OBVIOUS
  <2>1. Len(received) = round /\ received \in Seq(Frame)
    BY DEF IInv, TypeOK, Rounds
  <2>2. received = [n \in 1 .. Len(received) |-> received[n]]
    BY <2>1
  <2> QED
    BY <2>1, <2>2 DEF Rounds, AllMatch
<1> QED
  BY <1>1, RoundsHold, PTL

(* A writer whose reader was killed never ends by itself if what the reader *)
(* has not got does not fit into the queue, for any capacity: nobody tells  *)
(* it that the reader is gone.  A reader whose writer was killed before it  *)
(* had sent all never ends but by a kill or for want of the queue, which    *)
(* only the user removes.                                                   *)
THEOREM SurvivorNeverEndsIfItCannot ==
  SafeSpec =>
    /\ [](pc_child = "killed" /\ round - Len(received) > MaxMessages
            => [](pc_parent # "done"))
    /\ [](pc_parent = "killed" /\ pc_child = "receive" /\ i_writer < round
            => [](pc_child \in {"receive", "killed"} \/ (pc_child = "failed" /\ removed)))
<1> DEFINE Stuck == pc_child = "killed" /\ round - Len(received) > MaxMessages
           Ended == pc_child \in {"receive", "killed"} \/ (pc_child = "failed" /\ removed)
           Left == pc_parent = "killed" /\ i_writer < round /\ Ended
           Waits == pc_parent = "killed" /\ pc_child = "receive" /\ i_writer < round
<1>1. IInv /\ Rounds /\ Stuck => pc_parent # "done"
  BY QueueAssumption, SeedIsNat DEF IInv, TypeOK, Rounds
<1>2. Rounds /\ Stuck /\ [Next]_vars => Stuck'
  BY DEF Next, Parent, Child, Fork, Send, Receive, ReceiveFails, Wait, Remove, KillParent,
         KillChild, CleanUp, vars, Rounds
<1>3. IInv /\ Left /\ [Next]_vars => Left'
  <2> SUFFICES ASSUME IInv, Left, [Next]_vars PROVE Left'
    OBVIOUS
  <2>1. CASE Receive
    <3>1. /\ ~removed /\ msgid # <<>> /\ received' = Append(received, Head(msgid))
          /\ pc_child' = IF Len(received') = round THEN "done" ELSE "receive"
          /\ UNCHANGED <<pc_parent, i_writer>>
      BY <2>1 DEF Receive
    <3>2. /\ received \in Seq(Frame) /\ msgid \in Seq(Frame) /\ i_writer \in 0 .. round
          /\ i_writer = Len(received) + Len(msgid)
      BY <3>1 DEF IInv, TypeOK, Content
    <3>3. Len(received') = Len(received) + 1 /\ Len(msgid) > 0
      BY <3>1, <3>2
    <3>4. Len(received') # round
      BY <3>2, <3>3, SeedIsNat
    <3> QED
      BY <3>1, <3>4
  <2>2. CASE ~Receive
    BY <2>2 DEF Next, Parent, Child, Fork, Send, ReceiveFails, Wait, Remove, KillParent,
                KillChild, CleanUp, vars
  <2> QED
    BY <2>1, <2>2
<1>4. (Left => Ended) /\ (Waits => Left)
  OBVIOUS
<1> HIDE DEF Stuck, Ended, Left, Waits
<1>5. SafeSpec => [](Stuck => [](pc_parent # "done")) /\ [](Waits => []Ended)
  BY <1>1, <1>2, <1>3, <1>4, RoundsHold, PTL DEF SafeSpec
<1> QED
  BY <1>5 DEF Stuck, Waits, Ended

-----------------------------------------------------------------------------
(* Progress: what RunEnds needs besides fairness                            *)

\* When a process can go on by itself: the guards of its actions.
ParentCanStep ==
  \/ pc_parent \in {"fork", "rmid"}
  \/ pc_parent = "send" /\ Len(msgid) < MaxMessages
  \/ pc_parent = "wait" /\ pc_child \in {"done", "failed", "killed"}

ChildCanStep == pc_child = "receive" /\ (removed \/ msgid # <<>>)

\* How many more steps the two processes, and the user who cleans up, can take.
ParentSteps == CASE pc_parent = "fork" -> round + 3
                 [] pc_parent = "send" -> round - i_writer + 2
                 [] pc_parent = "wait" -> 2
                 [] pc_parent = "rmid" -> 1
                 [] pc_parent \in {"done", "killed"} -> 0

ChildSteps == CASE pc_child = "unborn" -> round + 2
                [] pc_child = "receive" -> round - Len(received) + 1
                [] pc_child \in {"done", "failed", "killed"} -> 0

UserSteps == IF removed THEN 0 ELSE 1

StepCounts == ParentSteps \in Nat /\ ChildSteps \in Nat /\ UserSteps \in Nat

\* A step after which somebody has fewer steps to take and nobody has more.
StepSpent ==
  /\ ParentSteps' <= ParentSteps /\ ChildSteps' <= ChildSteps /\ UserSteps' <= UserSteps
  /\ ParentSteps' < ParentSteps \/ ChildSteps' < ChildSteps \/ UserSteps' < UserSteps

\* Both processes are over: nothing but ipcrm is left to do for the queue.
BothOver == pc_parent \in {"done", "killed"} /\ pc_child \in {"unborn", "done", "failed", "killed"}

LEMMA StuckFor ==
  ASSUME IInv, Rounds, ~ParentCanStep, ~ChildCanStep
  PROVE  \/ BothOver
         \/ pc_parent = "send" /\ pc_child = "killed" /\ Len(msgid) = MaxMessages
         \/ pc_parent = "killed" /\ pc_child = "receive" /\ ~removed /\ msgid = <<>>
<1>1. /\ pc_parent \in {"fork", "send", "wait", "rmid", "done", "killed"}
      /\ pc_child \in {"unborn", "receive", "done", "failed", "killed"}
      /\ i_writer \in 0 .. round /\ Len(received) \in Nat /\ Len(msgid) \in Nat
      /\ round \in Nat /\ MaxMessages \in Nat \ {0}
      /\ (Len(msgid) = 0 <=> msgid = <<>>)
      /\ ~removed => i_writer = Len(received) + Len(msgid)
  BY QueueAssumption, SeedIsNat DEF IInv, TypeOK, Content
<1>2. /\ pc_parent \in {"send", "wait", "done", "killed"}
      /\ pc_parent = "send" => ~(Len(msgid) < MaxMessages)
      /\ pc_parent = "wait" => pc_child \in {"unborn", "receive"}
      /\ pc_child = "receive" => ~removed /\ msgid = <<>>
  BY <1>1 DEF ParentCanStep, ChildCanStep
<1>3. /\ pc_parent \in {"send", "wait"} => ~removed
      /\ pc_parent = "done" => removed /\ pc_child \in {"done", "killed"}
      /\ pc_child = "failed" => pc_parent = "killed"
      /\ pc_parent = "send" => i_writer < round
      /\ pc_parent = "wait" => i_writer = round
      /\ pc_child = "done" => Len(received) = round
      /\ i_writer - Len(received) <= MaxMessages
      /\ pc_parent \in {"send", "wait"} => pc_child # "unborn"
      /\ pc_child = "receive" => Len(received) < round
  BY DEF IInv, Life, Content, Rounds
<1>4. CASE pc_parent = "send"
  <2>1. Len(msgid) = MaxMessages
    BY <1>1, <1>2, <1>3, <1>4
  <2>2. pc_child \notin {"receive", "unborn", "failed"}
    BY <1>1, <1>2, <1>3, <1>4, <2>1
  <2>3. pc_child # "done"
    BY <1>1, <1>3, <1>4
  <2> QED
    BY <1>1, <1>4, <2>1, <2>2, <2>3
<1>5. CASE pc_parent = "wait"
  <2>1. pc_child = "receive" /\ msgid = <<>>
    BY <1>2, <1>3, <1>5
  <2> QED
    BY <1>1, <1>3, <1>5, <2>1
<1>6. CASE pc_parent = "done"
  BY <1>3, <1>6 DEF BothOver
<1>7. CASE pc_parent = "killed"
  BY <1>1, <1>2, <1>7 DEF BothOver
<1> QED
  BY <1>2, <1>4, <1>5, <1>6, <1>7

(* The two processes never wait for one another: when neither can go on,    *)
(* both are over, or the user killed the one that the other waits for: the  *)
(* reader, and the writer's queue is full, or the writer, and the reader's  *)
(* queue is empty.                                                          *)
THEOREM StuckOnlyForAKilledProcess ==
  SafeSpec => [](~ParentCanStep /\ ~ChildCanStep
                   => \/ BothOver
                      \/ pc_parent = "send" /\ pc_child = "killed" /\ Len(msgid) = MaxMessages
                      \/ /\ pc_parent = "killed" /\ pc_child = "receive"
                         /\ ~removed /\ msgid = <<>>)
BY StuckFor, RoundsHold, PTL

LEMMA StepsAreCounted == IInv /\ Rounds => StepCounts
<1> SUFFICES ASSUME IInv, Rounds PROVE StepCounts
  OBVIOUS
<1>1. /\ i_writer \in 0 .. round /\ Len(received) \in Nat /\ round \in Nat
      /\ pc_parent \in {"fork", "send", "wait", "rmid", "done", "killed"}
      /\ pc_child \in {"unborn", "receive", "done", "failed", "killed"}
      /\ pc_child = "receive" => Len(received) < round
  BY SeedIsNat DEF IInv, TypeOK, Rounds
<1> QED
  BY <1>1 DEF StepCounts, ParentSteps, ChildSteps, UserSteps

LEMMA StepSpends == IInv /\ Rounds /\ [Next]_vars => StepSpent \/ UNCHANGED vars
<1> SUFFICES ASSUME IInv, Rounds, Next, ~UNCHANGED vars PROVE StepSpent
  OBVIOUS
<1>0. /\ i_writer \in 0 .. round /\ Len(received) \in Nat /\ round \in Nat /\ round > 0
      /\ StepCounts
      /\ pc_parent \in {"fork", "send", "wait", "rmid", "done", "killed"}
      /\ pc_child \in {"unborn", "receive", "done", "failed", "killed"}
      /\ removed \in BOOLEAN
  BY SeedIsNat, StepsAreCounted DEF IInv, TypeOK
<1> USE DEF ParentSteps, ChildSteps, UserSteps, StepSpent, StepCounts
<1>1. CASE Fork
  <2>1. pc_child = "unborn" /\ received = <<>> /\ Len(received) = 0
    BY <1>1 DEF Fork, Rounds
  <2> QED
    BY <1>0, <1>1, <2>1 DEF Fork
<1>2. CASE Send
  BY <1>0, <1>2, SMTT(30) DEF Send
<1>3. CASE Receive
  <2>1. Len(received') = Len(received) + 1
    BY <1>3 DEF Receive, IInv, TypeOK
  <2> QED
    BY <1>0, <1>3, <2>1, SMTT(30) DEF Receive
<1>4. CASE ReceiveFails
  BY <1>0, <1>4 DEF ReceiveFails, Rounds
<1>5. CASE Wait
  BY <1>0, <1>5 DEF Wait
<1>6. CASE Remove
  BY <1>0, <1>6 DEF Remove
<1>7. CASE KillParent
  <2>1. pc_parent # "killed"
    BY <1>7 DEF KillParent, vars
  <2> QED
    BY <1>0, <1>7, <2>1 DEF KillParent
<1>8. CASE KillChild
  BY <1>0, <1>8 DEF KillChild, Rounds
<1>9. CASE CleanUp
  BY <1>0, <1>9 DEF CleanUp
<1> QED
  BY <1>1, <1>2, <1>3, <1>4, <1>5, <1>6, <1>7, <1>8, <1>9 DEF Next, Parent, Child

(* The step counts are natural numbers, and every step that changes         *)
(* anything, a kill or a clean-up included, lowers one of them and raises   *)
(* none: the program cannot go on for ever, for any number of frames.       *)
THEOREM StepsRunOut == SafeSpec => []StepCounts /\ [][StepSpent]_vars
BY StepsAreCounted, StepSpends, RoundsHold, PTL DEF SafeSpec
=============================================================================
