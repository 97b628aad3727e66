------------------------- MODULE SharedFrameProofs -------------------------
(***************************************************************************)
(* Proofs about the shared frame, for any number of runs, frames and bytes *)
(* of a frame.  A run that meets no other on its semaphore keeps Turn and  *)
(* Content, whatever the other runs do and have left behind.               *)
(***************************************************************************)
EXTENDS SharedFrameProperties, FiniteSetTheorems, TLAPS

(* Every variable holds a value of its C++ or kernel type. *)
TypeOK ==
  /\ pc_writer \in [Run -> {"semget", "setval", "p", "fill", "v", "wait", "rmid",
                            "done", "failed"}]
  /\ pc_reader \in [Run -> {"unborn", "p", "copy", "v", "done", "failed"}]
  /\ i_writer \in [Run -> Nat] /\ i_reader \in [Run -> Nat]
  /\ todo_writer \in [Run -> SUBSET Position] /\ todo_reader \in [Run -> SUBSET Position]
  /\ shared_frame \in [Run -> [Position -> Int]]
  /\ local_frame \in [Run -> [Position -> Int]]
  /\ received \in [Run -> Seq([Position -> Int])]
  /\ write_sem \in [Run -> Nat \union {Removed}]
  /\ read_sem \in [Run -> Nat \union {Removed}]
  /\ read_semid \in [Run -> Run \union {None}]
  /\ keyed \in Run \union {None}
  /\ crossed \subseteq Run

\* Who has got a read semaphore; whoever created one uses it.
Keys ==
  /\ \A r \in Run : read_semid[r] = None <=> pc_writer[r] = "semget"
  /\ \A r \in Run : read_semid[r] # None => read_semid[read_semid[r]] = read_semid[r]
  /\ keyed # None => read_semid[keyed] = keyed /\ read_sem[keyed] # Removed
  /\ \A r \in Run : pc_writer[r] = "semget" => read_sem[r] # Removed

\* Where main, writer and reader of a run can be together.
Order ==
  \A r \in Run :
    /\ pc_writer[r] \in {"semget", "setval"} => pc_reader[r] = "unborn"
    /\ pc_reader[r] = "unborn" => /\ pc_writer[r] \in {"semget", "setval", "failed"}
                                  /\ i_writer[r] = 0 /\ i_reader[r] = 0
    /\ pc_writer[r] \in {"p", "fill", "v"} => i_writer[r] < round
    /\ pc_writer[r] \in {"rmid", "done"} => pc_reader[r] \in {"done", "failed"}
    /\ pc_writer[r] = "done" => write_sem[r] = Removed /\ ReadSem(r) = Removed
    /\ Len(received[r]) = i_reader[r]

\* Of the runs that have one semaphore, all but one are over, or have met.
Apart ==
  \A r \in Run : \A q \in Run \ {r} :
    read_semid[q] = read_semid[r] /\ read_semid[r] # None /\ ~Over(q) /\ ~Over(r)
      => r \in crossed

\* The turn of run r is in one place, and no semaphore of it is gone.
Turn(r) ==
  /\ write_sem[r] \in Nat /\ ReadSem(r) \in Nat
  /\ write_sem[r] + ReadSem(r) + One(WriterHolds(r)) + One(ReaderHolds(r)) = 1

\* What the frames of run r contain, depending on whose turn it is.
Content(r) ==
  /\ write_sem[r] = 1 \/ WriterHolds(r) => i_writer[r] = i_reader[r]
  /\ ReadSem(r) = 1 \/ ReaderHolds(r) =>
       /\ i_writer[r] = i_reader[r] + 1 /\ i_reader[r] < round
       /\ \A k \in Position : shared_frame[r][k] = Byte(generating_seed + i_reader[r])
  /\ WriterHolds(r) =>
       /\ \A k \in Position \ todo_writer[r] :
            shared_frame[r][k] = Byte(generating_seed + i_writer[r])
       /\ pc_writer[r] = "v" => todo_writer[r] = {}
  /\ ReaderHolds(r) =>
       /\ \A k \in Position \ todo_reader[r] :
            local_frame[r][k] = Byte(generating_seed + i_reader[r])
       /\ pc_reader[r] = "v" => todo_reader[r] = {}

Alone(r) == Started(r) /\ r \notin crossed

Shared == \A r \in Run : Alone(r) => Turn(r) /\ Content(r)

IInv == TypeOK /\ Keys /\ Order /\ Apart /\ Shared

Step(q) == WriterStep(q) \/ ReaderStep(q) \/ Interrupted(q)

LEMMA Seeds == /\ round \in Nat \ {0} /\ generating_seed \in Nat
               /\ \A n \in Nat : Byte(generating_seed + n) \in Int
BY FramesAssumption DEF generating_seed, Byte

LEMMA Gone == Removed \in Int /\ Removed < 0 /\ Removed \notin Nat
BY DEF Removed

(* What sem_p and sem_v make of the values of a family of semaphores.       *)
LEMMA TakeOne ==
  ASSUME NEW S, NEW sem \in [S -> Nat \union {Removed}], NEW s \in S, sem[s] > 0
  PROVE  /\ sem[s] \in Nat /\ sem[s] - 1 \in Nat
         /\ [sem EXCEPT ![s] = @ - 1] \in [S -> Nat \union {Removed}]
<1>1. sem[s] \in Nat \union {Removed}
  OBVIOUS
<1>2. sem[s] \in Nat
  BY <1>1, Gone
<1>3. sem[s] - 1 \in Nat
  BY <1>2
<1> QED
  BY <1>2, <1>3

LEMMA GiveOne ==
  ASSUME NEW S, NEW sem \in [S -> Nat \union {Removed}], NEW s \in S, sem[s] # Removed
  PROVE  /\ sem[s] \in Nat
         /\ [sem EXCEPT ![s] = @ + 1] \in [S -> Nat \union {Removed}]
<1>1. sem[s] \in Nat
  OBVIOUS
<1>2. sem[s] + 1 \in Nat
  BY <1>1
<1> QED
  BY <1>1, <1>2

-----------------------------------------------------------------------------
(* What holds of every run, shared semaphore or not *)

LEMMA InitEstablishes == Init => IInv
<1> SUFFICES ASSUME Init PROVE IInv
  OBVIOUS
<1>1. TypeOK
  BY DEF Init, TypeOK, Zeroed
<1>2. Keys
  BY RunAssumption DEF Init, Keys, Removed
<1>3. Order
  BY DEF Init, Order
<1>4. Shared
  BY DEF Init, Shared, Alone, Started
<1>5. Apart
  BY DEF Init, Apart
<1> QED
  BY <1>1, <1>2, <1>3, <1>4, <1>5 DEF IInv

LEMMA TypePreserved ==
  ASSUME TypeOK, Keys, Order, NEW q \in Run, Step(q)
  PROVE  TypeOK'
<1> USE DEF TypeOK, WriterGoes, ReaderGoes, P, V, ReadSem, writing, reading, keys
<1>0. pc_writer[q] # "semget" \/ pc_reader[q] # "unborn" => read_semid[q] \in Run
  BY DEF Keys, Order
<1>1. CASE OpenSemaphores(q)
  BY <1>1, RunAssumption DEF OpenSemaphores
<1>2. CASE Start(q)
  BY <1>2, <1>0 DEF Start
<1>3. CASE WriterP(q)
  <2>1. write_sem[q] > 0 /\ write_sem' = [write_sem EXCEPT ![q] = @ - 1]
    BY <1>3 DEF WriterP
  <2>2. write_sem' \in [Run -> Nat \union {Removed}]
    BY <2>1, TakeOne
  <2> QED
    BY <1>3, <2>2 DEF WriterP
<1>4. CASE Fill(q)
  <2>1. PICK k \in todo_writer[q] :
          /\ WriterGoes(q, "fill", IF todo_writer[q] = {k} THEN "v" ELSE "fill")
          /\ shared_frame' = [shared_frame EXCEPT ![q][k] = Byte(generating_seed + i_writer[q])]
          /\ todo_writer' = [todo_writer EXCEPT ![q] = @ \ {k}]
          /\ UNCHANGED <<i_writer, reading, write_sem, read_sem, keys>>
    BY <1>4 DEF Fill
  <2>2. shared_frame' \in [Run -> [Position -> Int]]
    BY <2>1, Seeds
  <2> QED
    BY <2>1, <2>2
<1>5. CASE WriterV(q)
  <2> DEFINE s == read_semid[q]
  <2>1. s \in Run /\ read_sem[s] # Removed /\ read_sem' = [read_sem EXCEPT ![s] = @ + 1]
    BY <1>5, <1>0 DEF WriterV
  <2>2. read_sem' \in [Run -> Nat \union {Removed}]
    BY <2>1, GiveOne
  <2> QED
    BY <1>5, <2>2, SMTT(30) DEF WriterV
<1>6. CASE ReaderP(q)
  <2> DEFINE s == read_semid[q]
  <2>1. s \in Run /\ read_sem[s] > 0 /\ read_sem' = [read_sem EXCEPT ![s] = @ - 1]
    BY <1>6, <1>0 DEF ReaderP
  <2>2. read_sem' \in [Run -> Nat \union {Removed}]
    BY <2>1, TakeOne
  <2> QED
    BY <1>6, <2>2 DEF ReaderP
<1>7. CASE Copy(q)
  BY <1>7, SMTT(30) DEF Copy
<1>8. CASE ReaderV(q)
  <2>1. write_sem[q] # Removed /\ write_sem' = [write_sem EXCEPT ![q] = @ + 1]
    BY <1>8 DEF ReaderV
  <2>2. write_sem' \in [Run -> Nat \union {Removed}]
    BY <2>1, GiveOne
  <2> QED
    BY <1>8, <2>2, SMTT(30) DEF ReaderV
<1>9. CASE Wait(q) \/ WriterFails(q) \/ ReaderFails(q) \/ Interrupted(q)
  BY <1>9 DEF Wait, WriterFails, ReaderFails, Interrupted, WriterInterrupted, ReaderInterrupted
<1>10. CASE Remove(q)
  BY <1>10, <1>0 DEF Remove
<1> QED
  BY <1>1, <1>2, <1>3, <1>4, <1>5, <1>6, <1>7, <1>8, <1>9, <1>10
     DEF Step, WriterStep, ReaderStep

LEMMA KeysPreserved ==
  ASSUME TypeOK, Keys, Order, NEW q \in Run, Step(q)
  PROVE  Keys'
<1> USE Gone DEF TypeOK, Keys, WriterGoes, ReaderGoes, P, V, ReadSem, writing, reading, keys
<1>0. pc_writer[q] # "semget" \/ pc_reader[q] # "unborn" => read_semid[q] \in Run
  BY DEF Order
<1>1. CASE OpenSemaphores(q)
  <2> DEFINE owner == IF keyed = None THEN q ELSE keyed
  <2>1. /\ owner \in Run /\ owner # None /\ keyed' = owner
        /\ read_semid' = [read_semid EXCEPT ![q] = owner]
        /\ pc_writer[q] = "semget" /\ pc_writer' = [pc_writer EXCEPT ![q] = "setval"]
        /\ UNCHANGED read_sem
    BY <1>1, RunAssumption DEF OpenSemaphores
  <2>2. read_semid'[owner] = owner /\ read_sem[owner] # Removed
    BY <2>1
  <2>3. \A r \in Run : read_semid[r] # q
    BY <2>1, RunAssumption
  <2> HIDE DEF owner
  <2> QED
    BY <2>1, <2>2, <2>3
<1>2. CASE Start(q)
  BY <1>2, <1>0 DEF Start
<1>3. CASE WriterP(q) \/ Fill(q)
  BY <1>3, ZenonT(40) DEF WriterP, Fill
<1>4. CASE WriterV(q)
  <2>1. read_semid[q] \in Run /\ read_sem[read_semid[q]] + 1 # Removed
    BY <1>4, <1>0, GiveOne DEF WriterV
  <2> QED
    BY <1>4, <2>1 DEF WriterV
<1>5. CASE ReaderP(q)
  <2>1. read_semid[q] \in Run /\ read_sem[read_semid[q]] > 0
    BY <1>5, <1>0 DEF ReaderP
  <2>2. read_sem[read_semid[q]] - 1 # Removed
    <3>1. read_sem[read_semid[q]] - 1 \in Nat
      BY <2>1, TakeOne
    <3> QED
      BY <3>1
  <2> QED
    BY <1>5, <2>1, <2>2 DEF ReaderP
<1>6. CASE Copy(q) \/ ReaderV(q)
  BY <1>6 DEF Copy, ReaderV
<1>7. CASE Wait(q) \/ WriterFails(q) \/ ReaderFails(q) \/ Interrupted(q)
  BY <1>7, ZenonT(40)
     DEF Wait, WriterFails, ReaderFails, Interrupted, WriterInterrupted, ReaderInterrupted
<1>8. CASE Remove(q)
  <2>1. /\ pc_writer[q] = "rmid" /\ pc_writer' = [pc_writer EXCEPT ![q] = "done"]
        /\ read_sem' = [read_sem EXCEPT ![read_semid[q]] = Removed]
        /\ keyed' = (IF keyed = read_semid[q] THEN None ELSE keyed)
        /\ UNCHANGED read_semid
    BY <1>8 DEF Remove
  <2>2. read_semid[read_semid[q]] = read_semid[q] /\ read_semid[q] # None
    BY <2>1
  <2> QED
    BY <2>1, <2>2, <1>0
<1> QED
  BY <1>1, <1>2, <1>3, <1>4, <1>5, <1>6, <1>7, <1>8 DEF Step, WriterStep, ReaderStep

LEMMA OrderPreserved ==
  ASSUME TypeOK, Keys, Order, NEW q \in Run, Step(q)
  PROVE  Order'
<1> USE Gone DEF TypeOK, Order, WriterGoes, ReaderGoes, P, V, ReadSem, writing, reading, keys
<1>0. /\ pc_writer[q] # "semget" \/ pc_reader[q] # "unborn" => read_semid[q] \in Run
      /\ \A r \in Run : pc_writer[r] = "done" => read_semid[r] \in Run
  BY DEF Keys
<1>1. CASE OpenSemaphores(q)
  BY <1>1 DEF OpenSemaphores
<1>2. CASE Start(q)
  BY <1>2, <1>0, Seeds DEF Start
<1>3. CASE WriterP(q)
  BY <1>3 DEF WriterP
<1>4. CASE Fill(q)
  BY <1>4, SMTT(30) DEF Fill
<1>5. CASE WriterV(q)
  <2> DEFINE s == read_semid[q]
  <2>1. /\ s \in Run /\ read_sem[s] # Removed /\ read_sem' = [read_sem EXCEPT ![s] = @ + 1]
        /\ i_writer' = [i_writer EXCEPT ![q] = @ + 1] /\ pc_writer[q] = "v"
        /\ pc_writer' = [pc_writer EXCEPT ![q] = IF i_writer[q] + 1 = round THEN "wait" ELSE "p"]
        /\ UNCHANGED <<pc_reader, i_reader, received, write_sem, read_semid>>
    BY <1>5, <1>0 DEF WriterV
  <2>2. \A r \in Run : pc_writer[r] = "done" => read_semid[r] # s
    BY <2>1
  <2>3. i_writer[q] < round /\ i_writer[q] \in Nat
    BY <2>1
  <2>4. pc_writer'[q] = "p" => i_writer'[q] < round
    BY <2>1, <2>3, Seeds
  <2>5. pc_writer'[q] \in {"wait", "p"} /\ pc_reader[q] # "unborn"
    BY <2>1, <1>0
  <2>6. \A r \in Run : pc_writer'[r] = "done" => r # q /\ pc_writer[r] = "done"
                                                /\ read_sem'[read_semid[r]] = read_sem[read_semid[r]]
    BY <2>1, <2>2, <2>5, <1>0
  <2> SUFFICES ASSUME NEW r \in Run
               PROVE  Order!(r)'
    OBVIOUS
  <2> QED
    BY <2>1, <2>4, <2>5, <2>6
<1>6. CASE ReaderP(q)
  BY <1>6, <1>0 DEF ReaderP
<1>7. CASE Copy(q)
  BY <1>7 DEF Copy
<1>8. CASE ReaderV(q)
  <2>1. /\ pc_reader[q] = "v" /\ write_sem' = [write_sem EXCEPT ![q] = @ + 1]
        /\ pc_reader' = [pc_reader EXCEPT ![q] = IF i_reader[q] + 1 = round THEN "done" ELSE "p"]
        /\ received' = [received EXCEPT ![q] = Append(@, local_frame[q])]
        /\ i_reader' = [i_reader EXCEPT ![q] = @ + 1]
        /\ UNCHANGED <<pc_writer, i_writer, read_sem, read_semid>>
    BY <1>8 DEF ReaderV
  <2>2. Len(received'[q]) = i_reader'[q]
    <3>1. received[q] \in Seq([Position -> Int])
      OBVIOUS
    <3>2. Len(Append(received[q], local_frame[q])) = Len(received[q]) + 1
      BY <3>1
    <3> QED
      BY <2>1, <3>2
  <2>3. pc_writer[q] # "done" /\ pc_reader'[q] \in {"done", "p"}
    BY <2>1
  <2> SUFFICES ASSUME NEW r \in Run
               PROVE  Order!(r)'
    OBVIOUS
  <2>4. CASE r = q
    BY <2>1, <2>2, <2>3, <2>4
  <2>5. CASE r # q
    BY <2>1, <2>5
  <2> QED
    BY <2>4, <2>5
<1>9. CASE Wait(q) \/ WriterFails(q) \/ ReaderFails(q) \/ Interrupted(q)
  BY <1>9 DEF Wait, WriterFails, ReaderFails, Interrupted, WriterInterrupted, ReaderInterrupted
<1>10. CASE Remove(q)
  BY <1>10, <1>0 DEF Remove
<1> QED
  BY <1>1, <1>2, <1>3, <1>4, <1>5, <1>6, <1>7, <1>8, <1>9, <1>10
     DEF Step, WriterStep, ReaderStep

-----------------------------------------------------------------------------
(* What holds of a run that meets no other *)

(* Who has met another run has done so for ever, who is over stays over,    *)
(* and who is over takes no step.                                           *)
LEMMA ForEver ==
  ASSUME TypeOK, Order, NEW q \in Run, Step(q)
  PROVE  /\ crossed \subseteq crossed'
         /\ ~Over(q)
         /\ \A r \in Run : Over(r) => Over(r)'
<1> USE DEF TypeOK, Order, WriterGoes, ReaderGoes, Over
<1>1. CASE OpenSemaphores(q)
  BY <1>1 DEF OpenSemaphores, reading
<1>2. CASE Start(q)
  BY <1>2 DEF Start, keys
<1>3. CASE WriterP(q) \/ WriterV(q) \/ Wait(q) \/ Remove(q) \/ WriterFails(q) \/ WriterInterrupted(q)
  BY <1>3 DEF WriterP, WriterV, Wait, Remove, WriterFails, WriterInterrupted, reading, keys
<1>4. CASE Fill(q)
  BY <1>4 DEF Fill, reading, keys
<1>5. CASE ReaderP(q) \/ ReaderV(q) \/ ReaderFails(q) \/ ReaderInterrupted(q)
  BY <1>5 DEF ReaderP, ReaderV, ReaderFails, ReaderInterrupted, writing, keys
<1>6. CASE Copy(q)
  BY <1>6 DEF Copy, writing, keys
<1> QED
  BY <1>1, <1>2, <1>3, <1>4, <1>5, <1>6 DEF Step, WriterStep, ReaderStep, Interrupted

LEMMA ApartPreserved ==
  ASSUME TypeOK, Keys, Order, Apart, NEW p \in Run, Step(p)
  PROVE  Apart'
<1> SUFFICES ASSUME NEW r \in Run, NEW q \in Run \ {r},
                    read_semid'[q] = read_semid'[r], read_semid'[r] # None,
                    ~Over(q)', ~Over(r)'
             PROVE  r \in crossed'
  BY DEF Apart
<1>1. ~Over(q) /\ ~Over(r) /\ crossed \subseteq crossed'
  BY ForEver
<1>2. CASE OpenSemaphores(p)
  <2> DEFINE owner == IF keyed = None THEN p ELSE keyed
             users == {u \in Run : read_semid[u] = owner /\ ~Over(u)}
  <2>1. /\ read_semid' = [read_semid EXCEPT ![p] = owner]
        /\ crossed' = IF users = {} THEN crossed ELSE crossed \union users \union {p}
    BY <1>2 DEF OpenSemaphores
  <2>2. CASE r # p /\ q # p
    BY <1>1, <2>1, <2>2 DEF TypeOK, Apart
  <2>3. CASE q = p \/ r = p
    <3>1. q \in users \/ r \in users
      BY <1>1, <2>1, <2>3 DEF TypeOK
    <3>2. r = p \/ r \in users
      BY <1>1, <2>1, <2>3 DEF TypeOK
    <3> QED
      BY <2>1, <3>1, <3>2
  <2> QED
    BY <2>2, <2>3
<1>3. CASE ~OpenSemaphores(p)
  <2>1. UNCHANGED read_semid
    BY <1>3 DEF Step, WriterStep, ReaderStep, Interrupted, Start, WriterP, Fill, WriterV, ReaderP,
                Copy, ReaderV, Wait, Remove, WriterFails, ReaderFails, WriterInterrupted,
                ReaderInterrupted, keys
  <2> QED
    BY <1>1, <2>1 DEF Apart
<1> QED
  BY <1>2, <1>3

(* Another run's step leaves all that belongs to r alone.                   *)
LEMMA OtherRun ==
  ASSUME TypeOK, Keys, Order, Apart, NEW q \in Run, Step(q), NEW r \in Run \ {q},
         Started(r)', r \notin crossed'
  PROVE  /\ UNCHANGED <<pc_writer[r], pc_reader[r], i_writer[r], i_reader[r], todo_writer[r],
                        todo_reader[r], shared_frame[r], local_frame[r], received[r],
                        write_sem[r], read_semid[r]>>
         /\ UNCHANGED ReadSem(r)
<1> USE DEF TypeOK, WriterGoes, ReaderGoes, P, V, ReadSem, writing, reading, keys
<1>1. /\ UNCHANGED <<pc_writer[r], pc_reader[r], i_writer[r], i_reader[r], todo_writer[r],
                     todo_reader[r], shared_frame[r], local_frame[r], received[r],
                     write_sem[r], read_semid[r]>>
      /\ \/ UNCHANGED read_sem
         \/ /\ pc_writer[q] # "semget" /\ UNCHANGED read_semid
            /\ \E n : read_sem' = [read_sem EXCEPT ![read_semid[q]] = n]
  <2>1. CASE OpenSemaphores(q)
    BY <2>1 DEF OpenSemaphores
  <2>2. CASE Start(q)
    BY <2>2 DEF Start
  <2>3. CASE WriterP(q)
    BY <2>3 DEF WriterP
  <2>4. CASE Fill(q)
    BY <2>4 DEF Fill
  <2>5. CASE WriterV(q)
    BY <2>5 DEF WriterV
  <2>6. CASE ReaderP(q)
    BY <2>6 DEF ReaderP, Order
  <2>7. CASE Copy(q)
    BY <2>7 DEF Copy
  <2>8. CASE ReaderV(q)
    BY <2>8 DEF ReaderV
  <2>9. CASE Wait(q) \/ WriterFails(q) \/ ReaderFails(q) \/ Interrupted(q)
    BY <2>9 DEF Wait, WriterFails, ReaderFails, Interrupted, WriterInterrupted, ReaderInterrupted
  <2>10. CASE Remove(q)
    BY <2>10 DEF Remove
  <2> QED
    BY <2>1, <2>2, <2>3, <2>4, <2>5, <2>6, <2>7, <2>8, <2>9, <2>10
       DEF Step, WriterStep, ReaderStep
<1>2. read_semid[r] \in Run /\ ~Over(r)
  BY <1>1 DEF Keys, Order, Started, Over
<1>3. CASE UNCHANGED read_sem
  BY <1>1, <1>3
<1>4. CASE /\ pc_writer[q] # "semget" /\ UNCHANGED read_semid
           /\ \E n : read_sem' = [read_sem EXCEPT ![read_semid[q]] = n]
  <2>1. read_semid[q] # read_semid[r]
    <3>1. ~Over(q) /\ r \notin crossed
      BY ForEver
    <3> QED
      BY <1>2, <3>1, RunAssumption DEF Apart
  <2> QED
    BY <1>1, <1>2, <1>4, <2>1
<1> QED
  BY <1>1, <1>3, <1>4

(* A run's own step moves its turn on, and the bytes with it.               *)
LEMMA OwnStep ==
  ASSUME IInv, NEW q \in Run, Step(q), Alone(q)'
  PROVE  Turn(q)' /\ Content(q)'
<1> DEFINE s == read_semid[q]
<1> USE Gone DEF IInv, TypeOK, ReadSem, writing, reading, keys, One, WriterHolds, ReaderHolds,
                 WriterGoes, ReaderGoes, P, V
<1>1. CASE Start(q)
  <2>1. s \in Run
    BY <1>1 DEF Start, Keys
  <2>2. /\ pc_writer'[q] = "p" /\ pc_reader'[q] = "p" /\ write_sem'[q] = 1
        /\ ReadSem(q)' = 0 /\ i_writer'[q] = 0 /\ i_reader'[q] = 0
    BY <1>1, <2>1 DEF Start, Order
  <2> QED
    BY <2>2 DEF Turn, Content
<1>2. CASE ~Start(q)
  <2>0. ~Over(q)
    BY ForEver
  <2>1. Started(q) /\ s \in Run
    BY <1>2, <2>0
       DEF Alone, Started, Keys, Order, Step, WriterStep, ReaderStep, Interrupted, OpenSemaphores,
                WriterP, Fill, WriterV, ReaderP, Copy, ReaderV, Wait, Remove, WriterFails,
                ReaderFails, WriterInterrupted, ReaderInterrupted
  <2>2. Turn(q) /\ Content(q)
    BY <2>1, ForEver DEF Alone, Shared
  <2>3. CASE WriterP(q)
    <3>1. /\ pc_writer[q] = "p" /\ pc_writer'[q] = "fill" /\ write_sem[q] > 0
          /\ write_sem'[q] = write_sem[q] - 1 /\ todo_writer'[q] = Position
          /\ UNCHANGED <<pc_reader, i_writer, i_reader, read_sem, read_semid>>
      BY <2>3 DEF WriterP
    <3>2. write_sem[q] = 1 /\ ReadSem(q) = 0 /\ ~ReaderHolds(q)
      BY <2>2, <3>1, SMTT(30) DEF Turn
    <3> QED
      BY <2>2, <3>1, <3>2 DEF Turn, Content
  <2>4. CASE Fill(q)
    <3>1. PICK k \in todo_writer[q] :
            /\ pc_writer[q] = "fill"
            /\ pc_writer'[q] = (IF todo_writer[q] = {k} THEN "v" ELSE "fill")
            /\ shared_frame' = [shared_frame EXCEPT ![q][k] = Byte(generating_seed + i_writer[q])]
            /\ todo_writer'[q] = todo_writer[q] \ {k}
            /\ UNCHANGED <<reading, i_writer, write_sem, read_sem, keys>>
      BY <2>4 DEF Fill
    <3>2. write_sem[q] = 0 /\ ReadSem(q) = 0 /\ ~ReaderHolds(q)
      BY <2>2, <3>1, SMTT(30) DEF Turn
    <3>3. \A j \in Position \ todo_writer'[q] :
            shared_frame'[q][j] = Byte(generating_seed + i_writer[q])
      BY <2>2, <3>1 DEF Content
    <3>4. pc_writer'[q] = "v" => todo_writer'[q] = {}
      BY <3>1
    <3> QED
      BY <2>2, <3>1, <3>2, <3>3, <3>4 DEF Turn, Content
  <2>5. CASE WriterV(q)
    <3>1. /\ pc_writer[q] = "v" /\ pc_writer'[q] \in {"wait", "p"}
          /\ read_sem' = [read_sem EXCEPT ![s] = @ + 1] /\ i_writer'[q] = i_writer[q] + 1
          /\ UNCHANGED <<reading, shared_frame, write_sem, keys>>
      BY <2>5 DEF WriterV
    <3>2. ReadSem(q)' = ReadSem(q) + 1
      BY <2>1, <3>1
    <3>3. write_sem[q] = 0 /\ ReadSem(q) = 0 /\ ~ReaderHolds(q)
      BY <2>2, <3>1, SMTT(30) DEF Turn
    <3>4. i_writer[q] = i_reader[q] /\ i_writer[q] < round
      BY <2>2, <3>1 DEF Content, Order
    <3>5. \A k \in Position : shared_frame[q][k] = Byte(generating_seed + i_reader[q])
      BY <2>2, <3>1, <3>4 DEF Content
    <3> QED
      BY <3>1, <3>2, <3>3, <3>4, <3>5 DEF Turn, Content
  <2>6. CASE ReaderP(q)
    <3>1. /\ pc_reader[q] = "p" /\ pc_reader'[q] = "copy"
          /\ read_sem[s] > 0 /\ read_sem' = [read_sem EXCEPT ![s] = @ - 1]
          /\ todo_reader'[q] = Position
          /\ UNCHANGED <<writing, i_reader, write_sem, keys>>
      BY <2>6 DEF ReaderP
    <3>2. ReadSem(q)' = ReadSem(q) - 1
      BY <2>1, <3>1
    <3>3. write_sem[q] = 0 /\ ReadSem(q) = 1 /\ ~WriterHolds(q)
      BY <2>2, <3>1 DEF Turn
    <3> QED
      BY <2>2, <3>1, <3>2, <3>3 DEF Turn, Content
  <2>7. CASE Copy(q)
    <3>1. PICK k \in todo_reader[q] :
            /\ pc_reader[q] = "copy"
            /\ pc_reader'[q] = (IF todo_reader[q] = {k} THEN "v" ELSE "copy")
            /\ local_frame' = [local_frame EXCEPT ![q][k] = shared_frame[q][k]]
            /\ todo_reader'[q] = todo_reader[q] \ {k}
            /\ UNCHANGED <<writing, i_reader, write_sem, read_sem, keys>>
      BY <2>7 DEF Copy
    <3>2. write_sem[q] = 0 /\ ReadSem(q) = 0 /\ ~WriterHolds(q)
      BY <2>2, <3>1, SMTT(30) DEF Turn
    <3>3. shared_frame[q][k] = Byte(generating_seed + i_reader[q])
      BY <2>2, <3>1 DEF Content
    <3>4. \A j \in Position \ todo_reader'[q] :
            local_frame'[q][j] = Byte(generating_seed + i_reader[q])
      BY <2>2, <3>1, <3>3 DEF Content
    <3>5. pc_reader'[q] = "v" => todo_reader'[q] = {}
      BY <3>1
    <3> QED
      BY <2>2, <3>1, <3>2, <3>4, <3>5 DEF Turn, Content
  <2>8. CASE ReaderV(q)
    <3>1. /\ pc_reader[q] = "v" /\ pc_reader'[q] \in {"done", "p"}
          /\ write_sem'[q] = write_sem[q] + 1 /\ i_reader'[q] = i_reader[q] + 1
          /\ UNCHANGED <<writing, read_sem, keys>>
      BY <2>8 DEF ReaderV
    <3>2. write_sem[q] = 0 /\ ReadSem(q) = 0 /\ ~WriterHolds(q)
      <4>1. /\ write_sem[q] \in Nat /\ ReadSem(q) \in Nat
            /\ write_sem[q] + ReadSem(q) + One(WriterHolds(q)) + 1 = 1
        BY <2>2, <3>1 DEF Turn
      <4>2. One(WriterHolds(q)) = 0 \/ One(WriterHolds(q)) = 1
        OBVIOUS
      <4>3. One(WriterHolds(q)) = 0 => ~WriterHolds(q)
        OBVIOUS
      <4> QED
        BY <4>1, <4>2, <4>3
    <3>3. i_writer[q] = i_reader[q] + 1
      BY <2>2, <3>1 DEF Content
    <3> QED
      BY <3>1, <3>2, <3>3 DEF Turn, Content
  <2>9. CASE Wait(q) \/ WriterFails(q) \/ ReaderFails(q) \/ Interrupted(q)
    BY <2>9, <2>2, <2>1, SMTT(30) DEF Wait, WriterFails, ReaderFails, Interrupted, WriterInterrupted,
                  ReaderInterrupted, Turn, Content, Started, Order
  <2>10. ~OpenSemaphores(q) /\ ~Remove(q)
    BY DEF OpenSemaphores, Remove, Alone, Started, Over, Order
  <2> QED
    BY <1>2, <2>3, <2>4, <2>5, <2>6, <2>7, <2>8, <2>9, <2>10 DEF Step, WriterStep, ReaderStep
<1> QED
  BY <1>1, <1>2

LEMMA SharedPreserved ==
  ASSUME IInv, NEW q \in Run, Step(q)
  PROVE  Shared'
<1> SUFFICES ASSUME NEW r \in Run, Alone(r)' PROVE Turn(r)' /\ Content(r)'
  BY DEF Shared
<1>1. CASE r = q
  BY <1>1, OwnStep
<1>2. CASE r # q
  <2>1. /\ UNCHANGED <<pc_writer[r], pc_reader[r], i_writer[r], i_reader[r], todo_writer[r],
                       todo_reader[r], shared_frame[r], local_frame[r], received[r],
                       write_sem[r], read_semid[r]>>
        /\ UNCHANGED ReadSem(r)
    BY <1>2, OtherRun DEF Alone, IInv
  <2>2. Alone(r)
    BY <2>1, ForEver DEF Alone, Started, Over, IInv
  <2>3. Turn(r) /\ Content(r)
    BY <2>2 DEF IInv, Shared
  <2> QED
    BY <2>1, <2>3 DEF Turn, Content, WriterHolds, ReaderHolds, One
<1> QED
  BY <1>1, <1>2

LEMMA NextPreserves == IInv /\ [Next]_vars => IInv'
<1> SUFFICES ASSUME IInv, [Next]_vars PROVE IInv'
  OBVIOUS
<1>1. CASE UNCHANGED vars
  BY <1>1 DEF vars, writing, reading, keys, IInv, TypeOK, Keys, Order, Apart, Shared, Alone,
              Started, Over, Turn, Content, ReadSem, One, WriterHolds, ReaderHolds
<1>2. ASSUME NEW q \in Run, Step(q) PROVE IInv'
  BY <1>2, TypePreserved, KeysPreserved, OrderPreserved, ApartPreserved, SharedPreserved DEF IInv
<1> QED
  BY <1>1, <1>2 DEF Next, Step

-----------------------------------------------------------------------------

(* The invariant holds of every behaviour: the variables keep their types,  *)
(* and a run that is alone on its read semaphore keeps one turn and the     *)
(* bytes that go with it, whatever the other runs do and have left there.   *)
THEOREM InvariantHolds == SafeSpec => []IInv
BY InitEstablishes, NextPreserves, PTL DEF SafeSpec

(* The turns of writer() and reader() alternate in every run that meets no  *)
(* other, for any number of runs and whatever failed ones have left behind. *)
THEOREM TurnsAlwaysAlternate == SafeSpec => []TurnsAlternate
<1>1. IInv => TurnsAlternate
  BY DEF IInv, Shared, Alone, Turn, TurnsAlternate
<1> QED
  BY <1>1, InvariantHolds, PTL

(* A run whose main() has ended has removed both semaphores and waited for  *)
(* its child, for any number of runs.                                       *)
THEOREM NothingEverLeftBehind == SafeSpec => []NothingLeftBehind
<1>1. IInv => NothingLeftBehind
  BY DEF IInv, Keys, Order, NothingLeftBehind
<1> QED
  BY <1>1, InvariantHolds, PTL

-----------------------------------------------------------------------------
(* The frames of a run are a stream *)

LEMMA OnlyVMoves ==
  ASSUME TypeOK, NEW q \in Run, Step(q), NEW r \in Run
  PROVE  \/ UNCHANGED <<i_writer[r], received[r]>>
         \/ r = q /\ (WriterV(q) \/ ReaderV(q))
BY DEF TypeOK, Step, WriterStep, ReaderStep, Interrupted, OpenSemaphores, Start, WriterP, Fill,
       WriterV, ReaderP, Copy, ReaderV, Wait, Remove, WriterFails, ReaderFails,
       WriterInterrupted, ReaderInterrupted, writing, reading

LEMMA StepMaps ==
  ASSUME IInv, NEW q \in Run, Step(q), NEW r \in Run, r \notin crossed'
  PROVE  Stream(r)!Next \/ UNCHANGED <<i_writer[r], received[r]>>
<1> SUFFICES ASSUME r = q, WriterV(q) \/ ReaderV(q)
             PROVE  Stream(q)!Next
  BY OnlyVMoves DEF IInv
<1>1. Alone(q)
  BY ForEver DEF IInv, Alone, Started, Order, WriterV, ReaderV, WriterGoes, ReaderGoes
<1>2. /\ Turn(q) /\ Content(q)
      /\ i_writer[q] \in Nat /\ i_reader[q] \in Nat
      /\ Len(received[q]) = i_reader[q]
  BY <1>1 DEF IInv, Shared, TypeOK, Order
<1>3. CASE WriterV(q)
  <2>1. /\ pc_writer[q] = "v" /\ i_writer'[q] = i_writer[q] + 1 /\ UNCHANGED received
    BY <1>3 DEF WriterV, WriterGoes, IInv, TypeOK, reading
  <2>2. i_writer[q] = i_reader[q] /\ i_writer[q] < round
    BY <1>2, <2>1 DEF Content, WriterHolds, IInv, Order
  <2>3. Stream(q)!Send
    BY <1>2, <2>1, <2>2 DEF Stream!Send
  <2> QED
    BY <2>3 DEF Stream!Next
<1>4. CASE ReaderV(q)
  <2>1. /\ pc_reader[q] = "v" /\ received'[q] = Append(received[q], local_frame[q])
        /\ UNCHANGED i_writer
    BY <1>4 DEF ReaderV, ReaderGoes, IInv, TypeOK, writing
  <2>2. /\ i_writer[q] = i_reader[q] + 1 /\ i_reader[q] < round
        /\ \A k \in Position : local_frame[q][k] = Byte(generating_seed + i_reader[q])
    BY <1>2, <2>1 DEF Content, ReaderHolds
  <2>3. local_frame[q] = Generated(i_reader[q])
    BY <2>2 DEF IInv, TypeOK, Generated
  <2>4. [i \in 0 .. round - 1 |-> Generated(i)][i_reader[q]] = Generated(i_reader[q])
    BY <1>2, <2>2, Seeds
  <2>5. Stream(q)!Receive
    BY <1>2, <2>1, <2>2, <2>3, <2>4 DEF Stream!Receive
  <2> QED
    BY <2>5 DEF Stream!Next
<1> QED
  BY <1>3, <1>4

(* A run that meets no other delivers every frame once, whole and in        *)
(* order, with at most one under way: it implements FrameStream, for any    *)
(* number of frames of any size, whatever the other runs do.                *)
THEOREM StreamImplemented == SafeSpec => ImplementsStream
<1>1. Init => \A r \in Run : Stream(r)!Init
  BY DEF Init, Stream!Init
<1>2. IInv /\ [Next]_vars
        => [\A r \in Run :
              r \in crossed' \/ Stream(r)!Next \/ UNCHANGED <<i_writer[r], received[r]>>]_vars
  BY StepMaps DEF Next, Step
<1> QED
  BY <1>1, <1>2, InvariantHolds, PTL DEF SafeSpec, ImplementsStream

-----------------------------------------------------------------------------
(* What a run that has met no other has read *)

ReadRight ==
  \A r \in Run : /\ r \notin crossed => AllMatch(received[r])
                 /\ pc_reader[r] = "done" => Len(received[r]) = round

LEMMA AppendMatches ==
  ASSUME NEW r \in Run, TypeOK, AllMatch(received[r]), Stream(r)!Receive, i_writer[r] <= round
  PROVE  AllMatch(received'[r])
<1> DEFINE old == received[r]
           new == received'[r]
<1>1. old \in Seq([Position -> Int]) /\ Len(old) \in Nat /\ i_writer[r] \in Nat /\ round \in Nat
  BY Seeds DEF TypeOK
<1>2. Len(old) \in 0 .. round - 1
  BY <1>1 DEF Stream!Receive
<1>3. new = Append(old, Generated(Len(old)))
  BY <1>2 DEF Stream!Receive
<1>4. Len(new) = Len(old) + 1 /\ new[Len(old) + 1] = Generated(Len(old))
      /\ \A n \in 1 .. Len(old) : new[n] = old[n]
  BY <1>1, <1>3
<1>5. \A n \in 1 .. Len(old) : old[n] = Generated(n - 1)
  BY DEF AllMatch
<1> HIDE DEF old, new
<1>6. ASSUME NEW n \in 1 .. Len(new) PROVE new[n] = Generated(n - 1)
  <2>1. CASE n \in 1 .. Len(old)
    BY <1>4, <1>5, <2>1
  <2>2. CASE n = Len(old) + 1
    <3>1. n - 1 = Len(old)
      BY <1>1, <2>2
    <3> QED
      BY <1>4, <2>2, <3>1
  <2> QED
    BY <1>1, <1>4, <2>1, <2>2
<1> QED
  BY <1>6 DEF AllMatch, new

LEMMA ReadRightAtFirst == Init => ReadRight
<1> SUFFICES ASSUME Init PROVE ReadRight
  OBVIOUS
<1>1. \A r \in Run : received[r] = <<>> /\ Len(received[r]) = 0 /\ pc_reader[r] = "unborn"
  BY DEF Init
<1> QED
  BY <1>1 DEF ReadRight, AllMatch

LEMMA ReadRightPreserved == IInv /\ ReadRight /\ [Next]_vars => ReadRight'
<1> SUFFICES ASSUME IInv, ReadRight, [Next]_vars PROVE ReadRight'
  OBVIOUS
<1>1. CASE UNCHANGED vars
  BY <1>1 DEF vars, writing, reading, keys, ReadRight, AllMatch
<1>2. ASSUME NEW q \in Run, Step(q), NEW r \in Run
      PROVE  /\ r \notin crossed' => AllMatch(received'[r])
             /\ pc_reader'[r] = "done" => Len(received'[r]) = round
  <2>1. ASSUME r \notin crossed' PROVE AllMatch(received'[r])
    <3>1. r \notin crossed
      BY <1>2, <2>1, ForEver DEF IInv
    <3>2. AllMatch(received[r])
      BY <3>1 DEF ReadRight
    <3>3. Stream(r)!Next \/ UNCHANGED <<i_writer[r], received[r]>>
      BY <1>2, <2>1, StepMaps
    <3>4. CASE Stream(r)!Receive
      <4>1. i_writer[r] <= round
        <5>1. Stream(r)!Receive => received'[r] # received[r]
          <6>1. \A f : Append(received[r], f) # received[r]
            <7>1. \A f : Len(Append(received[r], f)) = Len(received[r]) + 1 /\ Len(received[r]) \in Nat
              BY DEF IInv, TypeOK
            <7> QED
              BY <7>1
          <6> QED
            BY <6>1 DEF Stream!Receive
        <5>2. ReaderV(q) /\ r = q
          BY <1>2, <3>4, <5>1, OnlyVMoves DEF IInv, WriterV, reading
        <5>3. Alone(r)
          BY <3>1, <5>2 DEF IInv, Order, Alone, Started, Over, ReaderV, ReaderGoes
        <5>4. i_writer[r] = i_reader[r] + 1 /\ i_reader[r] < round
          BY <5>2, <5>3 DEF IInv, Shared, Content, ReaderHolds, ReaderV, ReaderGoes
        <5> QED
          BY <5>4, Seeds DEF IInv, TypeOK
      <4> QED
        BY <3>2, <3>4, <4>1, AppendMatches DEF IInv
    <3>5. CASE Stream(r)!Send \/ UNCHANGED received[r]
      <4>1. received'[r] = received[r]
        BY <3>5 DEF Stream!Send
      <4> QED
        BY <3>2, <4>1
    <3> QED
      BY <3>3, <3>4, <3>5 DEF Stream!Next
  <2>2. ASSUME pc_reader'[r] = "done" PROVE Len(received'[r]) = round
    <3>1. CASE ReaderV(q) /\ r = q
      <4>1. /\ pc_reader'[r] = IF i_reader[r] + 1 = round THEN "done" ELSE "p"
            /\ received'[r] = Append(received[r], local_frame[r])
            /\ Len(received[r]) = i_reader[r] /\ received[r] \in Seq([Position -> Int])
        BY <3>1 DEF ReaderV, ReaderGoes, IInv, TypeOK, Order
      <4>2. Len(received'[r]) = i_reader[r] + 1
        BY <4>1
      <4> QED
        BY <2>2, <4>1, <4>2
    <3>2. CASE ~(ReaderV(q) /\ r = q)
      <4>1. received'[r] = received[r]
        BY <1>2, <3>2, OnlyVMoves DEF IInv, WriterV, reading
      <4>2. pc_reader[r] = "done"
        BY <1>2, <2>2, <3>2
           DEF IInv, TypeOK, Step, WriterStep, ReaderStep, Interrupted, OpenSemaphores, Start,
               WriterP, Fill, WriterV, ReaderP, Copy, ReaderV, Wait, Remove, WriterFails,
               ReaderFails, WriterInterrupted, ReaderInterrupted, ReaderGoes, reading
      <4> QED
        BY <4>1, <4>2 DEF ReadRight
    <3> QED
      BY <3>1, <3>2
  <2> QED
    BY <2>1, <2>2
<1> QED
  BY <1>1, <1>2 DEF Next, Step, ReadRight

(* FrameCheckPasses is violated by runs that meet on a semaphore; it holds  *)
(* of every run that meets no other, however many there are, and a reader   *)
(* that ends its loop has got as many frames as there are.                  *)
THEOREM AloneTheFrameCheckPasses ==
  SafeSpec => [](\A r \in Run : /\ r \notin crossed => AllMatch(received[r])
                               /\ pc_reader[r] = "done" => Len(received[r]) = round)
<1>1. ReadRight => \A r \in Run : /\ r \notin crossed => AllMatch(received[r])
                                 /\ pc_reader[r] = "done" => Len(received[r]) = round
  BY DEF ReadRight
<1> QED
  BY <1>1, InvariantHolds, ReadRightAtFirst, ReadRightPreserved, PTL DEF SafeSpec

-----------------------------------------------------------------------------
(* Progress: what RunEnds needs besides fairness                            *)

\* When a process of run r can go on by itself: the guards of its actions.
WriterCanStep(r) ==
  \/ pc_writer[r] \in {"semget", "setval", "v", "rmid"}
  \/ pc_writer[r] = "p" /\ write_sem[r] > 0
  \/ pc_writer[r] = "fill" /\ todo_writer[r] # {}
  \/ pc_writer[r] = "wait" /\ pc_reader[r] \in {"done", "failed"}

ReaderCanStep(r) ==
  \/ pc_reader[r] = "p" /\ (ReadSem(r) > 0 \/ ReadSem(r) = Removed)
  \/ pc_reader[r] = "copy" /\ todo_reader[r] # {}
  \/ pc_reader[r] = "v" /\ write_sem[r] # Removed

\* How many more places a writer and a reader can go to from the place they
\* are at, with n frames not yet handed over.
WriterPlaces(pc, n) == CASE pc = "semget" -> 3 * n + 5
                         [] pc = "setval" -> 3 * n + 4
                         [] pc = "p" -> 3 * n + 3
                         [] pc = "fill" -> 3 * n + 2
                         [] pc = "v" -> 3 * n + 1
                         [] pc = "wait" -> 2
                         [] pc = "rmid" -> 1
                         [] pc \in {"done", "failed"} -> 0

ReaderPlaces(pc, n) == CASE pc = "unborn" -> 3 * n + 4
                         [] pc = "p" -> 3 * n + 3
                         [] pc = "copy" -> 3 * n + 2
                         [] pc = "v" -> 3 * n + 1
                         [] pc \in {"done", "failed"} -> 0

\* How many more bytes they can write and copy, with todo of the current frame.
WriterBytes(pc, n, todo) ==
  CASE pc \in {"semget", "setval", "p"} -> n * message_size
    [] pc \in {"fill", "v"} -> (n - 1) * message_size + todo
    [] pc \in {"wait", "rmid", "done", "failed"} -> 0

ReaderBytes(pc, n, todo) ==
  CASE pc \in {"unborn", "p"} -> n * message_size
    [] pc \in {"copy", "v"} -> (n - 1) * message_size + todo
    [] pc \in {"done", "failed"} -> 0

WriterToGo(r) == WriterPlaces(pc_writer[r], round - i_writer[r])
ReaderToGo(r) == ReaderPlaces(pc_reader[r], round - i_reader[r])
ToFill(r) == WriterBytes(pc_writer[r], round - i_writer[r], Cardinality(todo_writer[r]))
ToCopy(r) == ReaderBytes(pc_reader[r], round - i_reader[r], Cardinality(todo_reader[r]))

StepCounts ==
  \A r \in Run : WriterToGo(r) \in Nat /\ ReaderToGo(r) \in Nat
                   /\ ToFill(r) \in Nat /\ ToCopy(r) \in Nat

\* Run r has no more to do of any kind, or less to do of one.
NoMore(r) == /\ WriterToGo(r)' <= WriterToGo(r) /\ ReaderToGo(r)' <= ReaderToGo(r)
             /\ ToFill(r)' <= ToFill(r) /\ ToCopy(r)' <= ToCopy(r)

Less(r) == \/ WriterToGo(r)' < WriterToGo(r) \/ ReaderToGo(r)' < ReaderToGo(r)
           \/ ToFill(r)' < ToFill(r) \/ ToCopy(r)' < ToCopy(r)

StepSpent == (\A r \in Run : NoMore(r)) /\ \E r \in Run : Less(r)

\* How far the loops have come, by the place they are at.
Course ==
  \A r \in Run :
    /\ pc_writer[r] \in {"wait", "rmid", "done"} => i_writer[r] = round
    /\ pc_reader[r] \in {"p", "copy", "v"} => i_reader[r] < round
    /\ pc_reader[r] = "done" => i_reader[r] = round
    /\ pc_writer[r] = "fill" => todo_writer[r] # {}
    /\ pc_reader[r] = "copy" => todo_reader[r] # {}
    /\ write_sem[r] = Removed => pc_writer[r] = "done"

\* Another run's step moves neither of r's processes.
LEMMA OwnOnly ==
  ASSUME TypeOK, NEW q \in Run, Step(q), NEW r \in Run \ {q}
  PROVE  UNCHANGED <<pc_writer[r], pc_reader[r], i_writer[r], i_reader[r], todo_writer[r],
                     todo_reader[r], write_sem[r]>>
<1> USE DEF TypeOK, WriterGoes, ReaderGoes, P, V, writing, reading
<1>1. CASE OpenSemaphores(q) \/ Start(q)
  BY <1>1 DEF OpenSemaphores, Start
<1>2. CASE WriterP(q) \/ Fill(q) \/ WriterV(q)
  BY <1>2 DEF WriterP, Fill, WriterV
<1>3. CASE ReaderP(q) \/ Copy(q) \/ ReaderV(q)
  BY <1>3 DEF ReaderP, Copy, ReaderV
<1>4. CASE Wait(q) \/ Remove(q) \/ WriterFails(q) \/ ReaderFails(q) \/ Interrupted(q)
  BY <1>4 DEF Wait, Remove, WriterFails, ReaderFails, Interrupted, WriterInterrupted,
              ReaderInterrupted
<1> QED
  BY <1>1, <1>2, <1>3, <1>4 DEF Step, WriterStep, ReaderStep

(* The positions that are still to do.                                      *)
LEMMA Todo ==
  /\ message_size \in Nat \ {0} /\ Position # {}
  /\ Cardinality(Position) = message_size /\ Cardinality({}) = 0
  /\ \A S \in SUBSET Position :
       Cardinality(S) \in Nat /\ \A k \in S : Cardinality(S \ {k}) = Cardinality(S) - 1
<1>1. message_size \in Nat \ {0} /\ Position = 0 .. message_size - 1
  BY FramesAssumption DEF Position
<1>2. IsFiniteSet(Position) /\ Cardinality(Position) = message_size
  BY <1>1, FS_Interval
<1>3. 0 \in Position
  BY <1>1
<1>4. ASSUME NEW S \in SUBSET Position
      PROVE  Cardinality(S) \in Nat /\ \A k \in S : Cardinality(S \ {k}) = Cardinality(S) - 1
  <2>1. IsFiniteSet(S)
    BY <1>2, FS_Subset
  <2> QED
    BY <2>1, FS_CardinalityType, FS_RemoveElement
<1> QED
  BY <1>1, <1>2, <1>3, <1>4, FS_EmptySet

LEMMA CoursePreserved ==
  ASSUME IInv, Course, NEW q \in Run, Step(q), NEW r \in Run
  PROVE  Course!(r)'
<1> USE DEF IInv
<1>1. CASE r # q
  BY <1>1, OwnOnly DEF Course
<1>2. CASE r = q
  <2> USE Seeds, Gone DEF Course, TypeOK, WriterGoes, ReaderGoes, P, V, writing, reading
  <2>1. CASE OpenSemaphores(q)
    BY <1>2, <2>1 DEF OpenSemaphores
  <2>2. CASE Start(q)
    <3>1. pc_reader[q] = "unborn" /\ i_reader[q] = 0
      BY <2>2 DEF Start, Order
    <3> QED
      BY <1>2, <2>2, <3>1 DEF Start
  <2>3. CASE WriterP(q)
    <3>1. write_sem[q] - 1 # Removed
      <4>1. write_sem[q] - 1 \in Nat
        BY <2>3, TakeOne DEF WriterP
      <4> QED
        BY <4>1
    <3> QED
      BY <1>2, <2>3, <3>1, Todo DEF WriterP
  <2>4. CASE Fill(q)
    BY <1>2, <2>4 DEF Fill
  <2>5. CASE WriterV(q)
    BY <1>2, <2>5 DEF WriterV
  <2>6. CASE ReaderP(q)
    BY <1>2, <2>6, Todo DEF ReaderP
  <2>7. CASE Copy(q)
    BY <1>2, <2>7 DEF Copy
  <2>8. CASE ReaderV(q)
    <3>1. write_sem[q] + 1 # Removed /\ pc_writer[q] # "done"
      BY <2>8, GiveOne DEF ReaderV, Order
    <3>2. i_reader[q] < round /\ i_reader[q] \in Nat
      BY <2>8 DEF ReaderV
    <3> QED
      BY <1>2, <2>8, <3>1, <3>2 DEF ReaderV
  <2>9. CASE Wait(q) \/ Remove(q) \/ WriterFails(q) \/ ReaderFails(q)
    BY <1>2, <2>9 DEF Wait, Remove, WriterFails, ReaderFails
  <2>10. CASE Interrupted(q)
    BY <1>2, <2>10 DEF Interrupted, WriterInterrupted, ReaderInterrupted
  <2> QED
    BY <2>1, <2>2, <2>3, <2>4, <2>5, <2>6, <2>7, <2>8, <2>9, <2>10
       DEF Step, WriterStep, ReaderStep
<1> QED
  BY <1>1, <1>2

LEMMA CourseHolds == SafeSpec => [](IInv /\ ReadRight /\ Course)
<1>1. Init => Course
  BY Gone DEF Init, Course
<1>2. IInv /\ Course /\ [Next]_vars => Course'
  <2>1. IInv /\ Course /\ Next => Course'
    BY CoursePreserved DEF Next, Step, Course
  <2>2. Course /\ UNCHANGED vars => Course'
    BY DEF vars, writing, reading, Course
  <2> QED
    BY <2>1, <2>2
<1> QED
  BY <1>1, <1>2, InvariantHolds, ReadRightAtFirst, ReadRightPreserved, PTL DEF SafeSpec

LEMMA StuckFor ==
  ASSUME IInv, Course, NEW r \in Run, r \notin crossed,
         "failed" \notin {pc_writer[r], pc_reader[r]}, ~WriterCanStep(r), ~ReaderCanStep(r)
  PROVE  pc_writer[r] = "done" /\ pc_reader[r] = "done"
<1>1. /\ pc_writer[r] \in {"p", "wait", "done"} /\ pc_reader[r] \in {"unborn", "p", "v", "done"}
      /\ pc_writer[r] = "p" => ~(write_sem[r] > 0)
      /\ pc_writer[r] = "wait" => pc_reader[r] # "done"
      /\ pc_reader[r] = "p" => ~(ReadSem(r) > 0)
      /\ pc_reader[r] = "v" => write_sem[r] = Removed
  BY DEF IInv, TypeOK, Course, WriterCanStep, ReaderCanStep
<1>2. pc_reader[r] # "unborn"
  BY <1>1 DEF IInv, Order
<1>3. pc_reader[r] # "v"
  BY <1>1 DEF IInv, Order, Course
<1>4. CASE pc_writer[r] = "done"
  BY <1>1, <1>2, <1>3, <1>4 DEF IInv, Order
<1>5. CASE pc_writer[r] # "done"
  <2>1. Turn(r) /\ Content(r)
    BY <1>1, <1>2, <1>5 DEF IInv, Shared, Alone, Started, Over
  <2>2. /\ write_sem[r] \in Nat /\ ReadSem(r) \in Nat /\ write_sem[r] + ReadSem(r) = 1
        /\ ~WriterHolds(r) /\ ~ReaderHolds(r)
    BY <1>1, <1>2, <1>3, <2>1 DEF Turn, One, WriterHolds, ReaderHolds
  <2>3. write_sem[r] = 1 => i_writer[r] = i_reader[r]
    BY <2>1 DEF Content
  <2>4. ReadSem(r) = 1 => i_reader[r] < round
    BY <2>1 DEF Content
  <2>5. /\ pc_reader[r] = "p" => i_reader[r] < round
        /\ pc_reader[r] = "done" => i_reader[r] = round
        /\ pc_writer[r] = "wait" => i_writer[r] = round
        /\ i_reader[r] \in Nat /\ round \in Nat
    BY Seeds DEF Course, IInv, TypeOK
  <2>6. pc_writer[r] = "p" => ReadSem(r) = 1
    BY <1>1, <2>2
  <2>7. pc_reader[r] = "p" => write_sem[r] = 1
    BY <1>1, <2>2
  <2> QED
    BY <1>1, <1>2, <1>3, <1>5, <2>2, <2>3, <2>4, <2>5, <2>6, <2>7
<1> QED
  BY <1>4, <1>5

(* In a run that meets no other the turn is never lost: as long as          *)
(* neither process has failed one of them can go on, or both have ended and *)
(* every frame has arrived, for any number of other runs.                   *)
THEOREM AloneStopsOnlyAtItsEnd ==
  SafeSpec => [](\A r \in Run :
    r \notin crossed /\ "failed" \notin {pc_writer[r], pc_reader[r]}
      => \/ WriterCanStep(r) \/ ReaderCanStep(r)
         \/ /\ pc_writer[r] = "done" /\ pc_reader[r] = "done"
            /\ AllMatch(received[r]) /\ Len(received[r]) = round)
<1>1. IInv /\ ReadRight /\ Course
        => \A r \in Run :
             r \notin crossed /\ "failed" \notin {pc_writer[r], pc_reader[r]}
               => \/ WriterCanStep(r) \/ ReaderCanStep(r)
                  \/ /\ pc_writer[r] = "done" /\ pc_reader[r] = "done"
                     /\ AllMatch(received[r]) /\ Len(received[r]) = round
  BY StuckFor DEF ReadRight
<1> QED
  BY <1>1, CourseHolds, PTL

\* What there is to do at each place.
LEMMA WriterTable ==
  \A n, t : /\ WriterPlaces("semget", n) = 3 * n + 5 /\ WriterPlaces("setval", n) = 3 * n + 4
            /\ WriterPlaces("p", n) = 3 * n + 3 /\ WriterPlaces("fill", n) = 3 * n + 2
            /\ WriterPlaces("v", n) = 3 * n + 1 /\ WriterPlaces("wait", n) = 2
            /\ WriterPlaces("rmid", n) = 1 /\ WriterPlaces("done", n) = 0
            /\ WriterPlaces("failed", n) = 0
            /\ \A pc \in {"semget", "setval", "p"} : WriterBytes(pc, n, t) = n * message_size
            /\ \A pc \in {"fill", "v"} : WriterBytes(pc, n, t) = (n - 1) * message_size + t
            /\ \A pc \in {"wait", "rmid", "done", "failed"} : WriterBytes(pc, n, t) = 0
BY DEF WriterPlaces, WriterBytes

LEMMA ReaderTable ==
  \A n, t : /\ ReaderPlaces("unborn", n) = 3 * n + 4 /\ ReaderPlaces("p", n) = 3 * n + 3
            /\ ReaderPlaces("copy", n) = 3 * n + 2 /\ ReaderPlaces("v", n) = 3 * n + 1
            /\ ReaderPlaces("done", n) = 0 /\ ReaderPlaces("failed", n) = 0
            /\ \A pc \in {"unborn", "p"} : ReaderBytes(pc, n, t) = n * message_size
            /\ \A pc \in {"copy", "v"} : ReaderBytes(pc, n, t) = (n - 1) * message_size + t
            /\ \A pc \in {"done", "failed"} : ReaderBytes(pc, n, t) = 0
BY DEF ReaderPlaces, ReaderBytes

\* The frames and the bytes that are still to come are numbers.
LEMMA LeftOver ==
  ASSUME IInv, Course, NEW r \in Run
  PROVE  /\ pc_writer[r] \in {"semget", "setval"} => i_writer[r] = 0
         /\ pc_writer[r] \in {"semget", "setval", "p", "fill", "v"}
              => round - i_writer[r] \in Nat \ {0} /\ (round - i_writer[r]) - 1 \in Nat
         /\ pc_reader[r] \in {"unborn", "p", "copy", "v"}
              => round - i_reader[r] \in Nat \ {0} /\ (round - i_reader[r]) - 1 \in Nat
         /\ Cardinality(todo_writer[r]) \in Nat /\ Cardinality(todo_reader[r]) \in Nat
         /\ i_writer[r] \in Nat /\ i_reader[r] \in Nat /\ round \in Nat \ {0}
<1>1. /\ i_writer[r] \in Nat /\ i_reader[r] \in Nat /\ round \in Nat \ {0}
      /\ todo_writer[r] \in SUBSET Position /\ todo_reader[r] \in SUBSET Position
  BY Seeds DEF IInv, TypeOK
<1>2. Cardinality(todo_writer[r]) \in Nat /\ Cardinality(todo_reader[r]) \in Nat
  BY <1>1, Todo
<1>3. pc_writer[r] \in {"semget", "setval"} => i_writer[r] = 0
  BY DEF IInv, Order
<1>4. pc_writer[r] \in {"semget", "setval", "p", "fill", "v"} => i_writer[r] < round
  BY <1>1, <1>3 DEF IInv, Order
<1>5. pc_reader[r] \in {"unborn", "p", "copy", "v"} => i_reader[r] < round
  BY <1>1 DEF IInv, Order, Course
<1> QED
  BY <1>1, <1>2, <1>3, <1>4, <1>5

LEMMA Products ==
  ASSUME NEW n \in Nat \ {0}, n - 1 \in Nat
  PROVE  /\ n * message_size \in Nat /\ (n - 1) * message_size \in Nat
         /\ n * message_size = (n - 1) * message_size + message_size
BY Todo

LEMMA StepsAreCounted == IInv /\ Course => StepCounts
<1> SUFFICES ASSUME IInv, Course, NEW r \in Run
             PROVE  WriterToGo(r) \in Nat /\ ReaderToGo(r) \in Nat
                      /\ ToFill(r) \in Nat /\ ToCopy(r) \in Nat
  BY DEF StepCounts
<1>1. /\ pc_writer[r] \in {"semget", "setval", "p", "fill", "v", "wait", "rmid", "done", "failed"}
      /\ pc_reader[r] \in {"unborn", "p", "copy", "v", "done", "failed"}
  BY DEF IInv, TypeOK
<1> DEFINE n == round - i_writer[r]
           m == round - i_reader[r]
           t == Cardinality(todo_writer[r])
           u == Cardinality(todo_reader[r])
<1>2. /\ pc_writer[r] \in {"semget", "setval", "p", "fill", "v"} => n \in Nat \ {0} /\ n - 1 \in Nat
      /\ pc_reader[r] \in {"unborn", "p", "copy", "v"} => m \in Nat \ {0} /\ m - 1 \in Nat
      /\ t \in Nat /\ u \in Nat
  BY LeftOver
<1>3. /\ WriterToGo(r) = WriterPlaces(pc_writer[r], n) /\ ReaderToGo(r) = ReaderPlaces(pc_reader[r], m)
      /\ ToFill(r) = WriterBytes(pc_writer[r], n, t) /\ ToCopy(r) = ReaderBytes(pc_reader[r], m, u)
  BY DEF WriterToGo, ReaderToGo, ToFill, ToCopy
<1> HIDE DEF n, m, t, u
<1>4. WriterPlaces(pc_writer[r], n) \in Nat
  BY <1>1, <1>2, WriterTable
<1>5. ReaderPlaces(pc_reader[r], m) \in Nat
  BY <1>1, <1>2, ReaderTable
<1>6. WriterBytes(pc_writer[r], n, t) \in Nat
  <2>1. CASE pc_writer[r] \in {"wait", "rmid", "done", "failed"}
    BY <2>1, WriterTable
  <2>2. CASE pc_writer[r] \in {"semget", "setval", "p", "fill", "v"}
    <3>1. n * message_size \in Nat /\ (n - 1) * message_size \in Nat
      BY <1>2, <2>2, Products
    <3>2. (n - 1) * message_size + t \in Nat
      BY <1>2, <3>1
    <3>3. WriterBytes(pc_writer[r], n, t) \in {n * message_size, (n - 1) * message_size + t}
      BY <2>2, WriterTable
    <3> QED
      BY <3>1, <3>2, <3>3
  <2> QED
    BY <1>1, <2>1, <2>2
<1>7. ReaderBytes(pc_reader[r], m, u) \in Nat
  <2>1. CASE pc_reader[r] \in {"done", "failed"}
    BY <2>1, ReaderTable
  <2>2. CASE pc_reader[r] \in {"unborn", "p", "copy", "v"}
    <3>1. m * message_size \in Nat /\ (m - 1) * message_size \in Nat
      BY <1>2, <2>2, Products
    <3>2. (m - 1) * message_size + u \in Nat
      BY <1>2, <3>1
    <3>3. ReaderBytes(pc_reader[r], m, u) \in {m * message_size, (m - 1) * message_size + u}
      BY <2>2, ReaderTable
    <3> QED
      BY <3>1, <3>2, <3>3
  <2> QED
    BY <1>1, <2>1, <2>2
<1> QED
  BY <1>3, <1>4, <1>5, <1>6, <1>7

\* What a step of writer() makes of its own counts, the reader standing still.
LEMMA WriterSpends ==
  ASSUME IInv, Course, NEW q \in Run,
         \/ OpenSemaphores(q) \/ WriterP(q) \/ Fill(q) \/ WriterV(q) \/ Wait(q) \/ Remove(q)
         \/ WriterFails(q) \/ WriterInterrupted(q)
  PROVE  /\ WriterToGo(q)' <= WriterToGo(q) /\ ToFill(q)' <= ToFill(q)
         /\ WriterToGo(q)' < WriterToGo(q) \/ ToFill(q)' < ToFill(q)
         /\ UNCHANGED <<pc_reader, i_reader, todo_reader>>
<1> DEFINE n == round - i_writer[q]
           t == Cardinality(todo_writer[q])
<1>1. /\ pc_writer[q] \in {"semget", "setval", "p", "fill", "v"}
           => n \in Nat \ {0} /\ n - 1 \in Nat
                /\ n * message_size \in Nat /\ (n - 1) * message_size \in Nat
                /\ n * message_size = (n - 1) * message_size + message_size
      /\ t \in Nat /\ message_size \in Nat
  BY LeftOver, Products, Todo
<1>2. WriterToGo(q) = WriterPlaces(pc_writer[q], n) /\ ToFill(q) = WriterBytes(pc_writer[q], n, t)
  BY DEF WriterToGo, ToFill
<1>3. /\ WriterToGo(q)' = WriterPlaces(pc_writer'[q], round - i_writer'[q])
      /\ ToFill(q)' = WriterBytes(pc_writer'[q], round - i_writer'[q], Cardinality(todo_writer'[q]))
  BY DEF WriterToGo, ToFill
<1>4. UNCHANGED <<pc_reader, i_reader, todo_reader>>
  BY DEF OpenSemaphores, WriterP, Fill, WriterV, Wait, Remove, WriterFails, WriterInterrupted, reading
<1>5. CASE OpenSemaphores(q) \/ Wait(q) \/ Remove(q)
  <2>1. /\ UNCHANGED <<i_writer, todo_writer>>
        /\ \/ pc_writer[q] = "semget" /\ pc_writer'[q] = "setval"
           \/ pc_writer[q] = "wait" /\ pc_writer'[q] = "rmid"
           \/ pc_writer[q] = "rmid" /\ pc_writer'[q] = "done"
    BY <1>5 DEF OpenSemaphores, Wait, Remove, WriterGoes, IInv, TypeOK
  <2>2. WriterToGo(q)' = WriterPlaces(pc_writer'[q], n) /\ ToFill(q)' = WriterBytes(pc_writer'[q], n, t)
    BY <1>3, <2>1
  <2> HIDE DEF n, t
  <2>3. WriterToGo(q)' < WriterToGo(q) /\ WriterToGo(q)' <= WriterToGo(q)
    BY <1>1, <1>2, <2>1, <2>2, WriterTable
  <2>4. ToFill(q)' <= ToFill(q)
    BY <1>1, <1>2, <2>1, <2>2, WriterTable
  <2> QED
    BY <1>4, <2>3, <2>4
<1>6. CASE WriterFails(q) \/ WriterInterrupted(q)
  <2>1. /\ UNCHANGED <<i_writer, todo_writer>>
        /\ pc_writer[q] \in {"setval", "v", "p"} /\ pc_writer'[q] = "failed"
    BY <1>6 DEF WriterFails, WriterInterrupted, WriterGoes, IInv, TypeOK
  <2>2. WriterToGo(q)' = WriterPlaces("failed", n) /\ ToFill(q)' = WriterBytes("failed", n, t)
    BY <1>3, <2>1
  <2> HIDE DEF n, t
  <2>3. WriterToGo(q)' = 0 /\ ToFill(q)' = 0
    BY <2>2, WriterTable
  <2>4. WriterToGo(q) \in Nat \ {0}
    BY <1>1, <1>2, <2>1, WriterTable
  <2>5. ToFill(q) \in Nat
    BY StepsAreCounted DEF StepCounts
  <2> QED
    BY <1>4, <2>3, <2>4, <2>5
<1>7. CASE WriterP(q)
  <2>1. /\ i_writer' = i_writer /\ todo_writer'[q] = Position
        /\ pc_writer[q] = "p" /\ pc_writer'[q] = "fill"
    BY <1>7 DEF WriterP, WriterGoes, IInv, TypeOK
  <2>2. /\ WriterToGo(q)' = WriterPlaces("fill", n)
        /\ ToFill(q)' = WriterBytes("fill", n, message_size)
    BY <1>3, <2>1, Todo
  <2> HIDE DEF n, t
  <2>3. WriterToGo(q) = 3 * n + 3 /\ WriterToGo(q)' = 3 * n + 2
    BY <1>2, <2>1, <2>2, WriterTable
  <2>4. ToFill(q) = n * message_size /\ ToFill(q)' = (n - 1) * message_size + message_size
    BY <1>2, <2>1, <2>2, WriterTable
  <2> QED
    BY <1>1, <1>4, <2>1, <2>3, <2>4
<1>8. CASE Fill(q)
  <2>1. PICK k \in todo_writer[q] :
          /\ i_writer' = i_writer /\ todo_writer'[q] = todo_writer[q] \ {k}
          /\ pc_writer[q] = "fill" /\ pc_writer'[q] \in {"fill", "v"}
    BY <1>8 DEF Fill, WriterGoes, IInv, TypeOK
  <2>2. Cardinality(todo_writer'[q]) = t - 1
    BY <2>1, Todo DEF IInv, TypeOK
  <2>3. /\ WriterToGo(q)' = WriterPlaces(pc_writer'[q], n)
        /\ ToFill(q)' = WriterBytes(pc_writer'[q], n, t - 1)
    BY <1>3, <2>1, <2>2
  <2> HIDE DEF n, t
  <2>4. WriterToGo(q) = 3 * n + 2 /\ WriterToGo(q)' \in {3 * n + 2, 3 * n + 1}
    BY <1>2, <2>1, <2>3, WriterTable
  <2>5. ToFill(q) = (n - 1) * message_size + t /\ ToFill(q)' = (n - 1) * message_size + (t - 1)
    BY <1>2, <2>1, <2>3, WriterTable
  <2> QED
    BY <1>1, <1>4, <2>1, <2>4, <2>5
<1>9. CASE WriterV(q)
  <2>1. /\ i_writer'[q] = i_writer[q] + 1 /\ todo_writer' = todo_writer
        /\ pc_writer[q] = "v"
        /\ pc_writer'[q] = IF i_writer[q] + 1 = round THEN "wait" ELSE "p"
    BY <1>9 DEF WriterV, WriterGoes, IInv, TypeOK
  <2>2. round - i_writer'[q] = n - 1
    BY <2>1, LeftOver
  <2>3. /\ WriterToGo(q)' = WriterPlaces(pc_writer'[q], n - 1)
        /\ ToFill(q)' = WriterBytes(pc_writer'[q], n - 1, t)
    BY <1>3, <2>1, <2>2
  <2> HIDE DEF n, t
  <2>4. WriterToGo(q) = 3 * n + 1 /\ WriterToGo(q)' \in {2, 3 * (n - 1) + 3}
    BY <1>2, <2>1, <2>3, WriterTable
  <2>5. ToFill(q) = (n - 1) * message_size + t /\ ToFill(q)' \in {0, (n - 1) * message_size}
    BY <1>2, <2>1, <2>3, WriterTable
  <2> QED
    BY <1>1, <1>4, <2>1, <2>4, <2>5
<1> QED
  BY <1>5, <1>6, <1>7, <1>8, <1>9

\* What a step of reader() makes of its own counts, the writer standing still.
LEMMA ReaderSpends ==
  ASSUME IInv, Course, NEW q \in Run,
         ReaderP(q) \/ Copy(q) \/ ReaderV(q) \/ ReaderFails(q) \/ ReaderInterrupted(q)
  PROVE  /\ ReaderToGo(q)' <= ReaderToGo(q) /\ ToCopy(q)' <= ToCopy(q)
         /\ ReaderToGo(q)' < ReaderToGo(q) \/ ToCopy(q)' < ToCopy(q)
         /\ UNCHANGED <<pc_writer, i_writer, todo_writer>>
<1> DEFINE n == round - i_reader[q]
           t == Cardinality(todo_reader[q])
<1>1. /\ n \in Nat \ {0} /\ n - 1 \in Nat
      /\ n * message_size \in Nat /\ (n - 1) * message_size \in Nat
      /\ n * message_size = (n - 1) * message_size + message_size
      /\ t \in Nat /\ message_size \in Nat
  <2>1. pc_reader[q] \in {"p", "copy", "v"}
    BY DEF ReaderP, Copy, ReaderV, ReaderFails, ReaderInterrupted, ReaderGoes
  <2> QED
    BY <2>1, LeftOver, Products, Todo
<1>2. ReaderToGo(q) = ReaderPlaces(pc_reader[q], n) /\ ToCopy(q) = ReaderBytes(pc_reader[q], n, t)
  BY DEF ReaderToGo, ToCopy
<1>3. /\ ReaderToGo(q)' = ReaderPlaces(pc_reader'[q], round - i_reader'[q])
      /\ ToCopy(q)' = ReaderBytes(pc_reader'[q], round - i_reader'[q], Cardinality(todo_reader'[q]))
  BY DEF ReaderToGo, ToCopy
<1>4. UNCHANGED <<pc_writer, i_writer, todo_writer>>
  BY DEF ReaderP, Copy, ReaderV, ReaderFails, ReaderInterrupted, writing
<1>5. CASE ReaderFails(q) \/ ReaderInterrupted(q)
  <2>1. /\ UNCHANGED <<i_reader, todo_reader>> /\ pc_reader[q] = "p" /\ pc_reader'[q] = "failed"
    BY <1>5 DEF ReaderFails, ReaderInterrupted, ReaderGoes, IInv, TypeOK
  <2>2. ReaderToGo(q)' = ReaderPlaces("failed", n) /\ ToCopy(q)' = ReaderBytes("failed", n, t)
    BY <1>3, <2>1
  <2> HIDE DEF n, t
  <2>3. ReaderToGo(q)' = 0 /\ ToCopy(q)' = 0
    BY <2>2, ReaderTable
  <2>4. ReaderToGo(q) = 3 * n + 3
    BY <1>2, <2>1, ReaderTable
  <2>5. ToCopy(q) = n * message_size
    BY <1>2, <2>1, ReaderTable
  <2> QED
    BY <1>1, <1>4, <2>3, <2>4, <2>5
<1>6. CASE ReaderP(q)
  <2>1. /\ i_reader' = i_reader /\ todo_reader'[q] = Position
        /\ pc_reader[q] = "p" /\ pc_reader'[q] = "copy"
    BY <1>6 DEF ReaderP, ReaderGoes, IInv, TypeOK
  <2>2. /\ ReaderToGo(q)' = ReaderPlaces("copy", n)
        /\ ToCopy(q)' = ReaderBytes("copy", n, message_size)
    BY <1>3, <2>1, Todo
  <2> HIDE DEF n, t
  <2>3. ReaderToGo(q) = 3 * n + 3 /\ ReaderToGo(q)' = 3 * n + 2
    BY <1>2, <2>1, <2>2, ReaderTable
  <2>4. ToCopy(q) = n * message_size /\ ToCopy(q)' = (n - 1) * message_size + message_size
    BY <1>2, <2>1, <2>2, ReaderTable
  <2> QED
    BY <1>1, <1>4, <2>3, <2>4
<1>7. CASE Copy(q)
  <2>1. PICK k \in todo_reader[q] :
          /\ i_reader' = i_reader /\ todo_reader'[q] = todo_reader[q] \ {k}
          /\ pc_reader[q] = "copy" /\ pc_reader'[q] \in {"copy", "v"}
    BY <1>7 DEF Copy, ReaderGoes, IInv, TypeOK
  <2>2. Cardinality(todo_reader'[q]) = t - 1
    BY <2>1, Todo DEF IInv, TypeOK
  <2>3. /\ ReaderToGo(q)' = ReaderPlaces(pc_reader'[q], n)
        /\ ToCopy(q)' = ReaderBytes(pc_reader'[q], n, t - 1)
    BY <1>3, <2>1, <2>2
  <2> HIDE DEF n, t
  <2>4. ReaderToGo(q) = 3 * n + 2 /\ ReaderToGo(q)' \in {3 * n + 2, 3 * n + 1}
    BY <1>2, <2>1, <2>3, ReaderTable
  <2>5. ToCopy(q) = (n - 1) * message_size + t /\ ToCopy(q)' = (n - 1) * message_size + (t - 1)
    BY <1>2, <2>1, <2>3, ReaderTable
  <2> QED
    BY <1>1, <1>4, <2>4, <2>5
<1>8. CASE ReaderV(q)
  <2>1. /\ i_reader'[q] = i_reader[q] + 1 /\ todo_reader' = todo_reader
        /\ pc_reader[q] = "v"
        /\ pc_reader'[q] = IF i_reader[q] + 1 = round THEN "done" ELSE "p"
    BY <1>8 DEF ReaderV, ReaderGoes, IInv, TypeOK
  <2>2. round - i_reader'[q] = n - 1
    BY <2>1, LeftOver
  <2>3. /\ ReaderToGo(q)' = ReaderPlaces(pc_reader'[q], n - 1)
        /\ ToCopy(q)' = ReaderBytes(pc_reader'[q], n - 1, t)
    BY <1>3, <2>1, <2>2
  <2> HIDE DEF n, t
  <2>4. ReaderToGo(q) = 3 * n + 1 /\ ReaderToGo(q)' \in {0, 3 * (n - 1) + 3}
    BY <1>2, <2>1, <2>3, ReaderTable
  <2>5. ToCopy(q) = (n - 1) * message_size + t /\ ToCopy(q)' \in {0, (n - 1) * message_size}
    BY <1>2, <2>1, <2>3, ReaderTable
  <2> QED
    BY <1>1, <1>4, <2>4, <2>5
<1> QED
  BY <1>5, <1>6, <1>7, <1>8

LEMMA StepSpends ==
  ASSUME IInv, Course, NEW q \in Run, Step(q)
  PROVE  StepSpent
<1>1. \A r \in Run \ {q} : /\ WriterToGo(r)' = WriterToGo(r) /\ ReaderToGo(r)' = ReaderToGo(r)
                           /\ ToFill(r)' = ToFill(r) /\ ToCopy(r)' = ToCopy(r)
  BY OwnOnly DEF WriterToGo, ReaderToGo, ToFill, ToCopy, IInv
<1>2. \A r \in Run : /\ WriterToGo(r) \in Nat /\ ReaderToGo(r) \in Nat
                     /\ ToFill(r) \in Nat /\ ToCopy(r) \in Nat
  BY StepsAreCounted DEF StepCounts
<1>3. NoMore(q) /\ Less(q)
  <2>1. CASE \/ OpenSemaphores(q) \/ WriterP(q) \/ Fill(q) \/ WriterV(q) \/ Wait(q) \/ Remove(q)
             \/ WriterFails(q) \/ WriterInterrupted(q)
    <3>1. ReaderToGo(q)' = ReaderToGo(q) /\ ToCopy(q)' = ToCopy(q)
      BY <2>1, WriterSpends DEF ReaderToGo, ToCopy
    <3> QED
      BY <1>2, <2>1, <3>1, WriterSpends DEF NoMore, Less
  <2>2. CASE ReaderP(q) \/ Copy(q) \/ ReaderV(q) \/ ReaderFails(q) \/ ReaderInterrupted(q)
    <3>1. WriterToGo(q)' = WriterToGo(q) /\ ToFill(q)' = ToFill(q)
      BY <2>2, ReaderSpends DEF WriterToGo, ToFill
    <3> QED
      BY <1>2, <2>2, <3>1, ReaderSpends DEF NoMore, Less
  <2>3. CASE Start(q)
    <3>1. /\ pc_writer[q] = "setval" /\ pc_writer'[q] = "p"
          /\ pc_reader[q] = "unborn" /\ pc_reader'[q] = "p"
          /\ UNCHANGED <<i_writer, i_reader, todo_writer, todo_reader>>
      BY <2>3 DEF Start, WriterGoes, ReaderGoes, IInv, TypeOK
    <3> DEFINE n == round - i_writer[q]
               m == round - i_reader[q]
    <3>2. n \in Nat /\ m \in Nat
      BY <3>1, LeftOver
    <3>3. /\ WriterToGo(q) = WriterPlaces("setval", n) /\ WriterToGo(q)' = WriterPlaces("p", n)
          /\ ReaderToGo(q) = ReaderPlaces("unborn", m) /\ ReaderToGo(q)' = ReaderPlaces("p", m)
      BY <3>1 DEF WriterToGo, ReaderToGo
    <3>4. ToFill(q)' = ToFill(q) /\ ToCopy(q)' = ToCopy(q)
      BY <3>1, WriterTable, ReaderTable DEF ToFill, ToCopy
    <3> HIDE DEF n, m
    <3>5. WriterToGo(q)' < WriterToGo(q) /\ WriterToGo(q)' <= WriterToGo(q)
      BY <3>2, <3>3, WriterTable
    <3>6. ReaderToGo(q)' <= ReaderToGo(q)
      BY <3>2, <3>3, ReaderTable
    <3> QED
      BY <1>2, <3>4, <3>5, <3>6 DEF NoMore, Less
  <2> QED
    BY <2>1, <2>2, <2>3 DEF Step, WriterStep, ReaderStep, Interrupted
<1>4. \A r \in Run \ {q} : NoMore(r)
  BY <1>1, <1>2 DEF NoMore
<1> QED
  BY <1>3, <1>4 DEF StepSpent

(* The step counts are natural numbers, and every step lowers one of a      *)
(* run's and raises none of any run's: runs that share a semaphore may      *)
(* spoil each other's frames or hang, but cannot keep each other going, for *)
(* any number of runs and frames.                                           *)
THEOREM StepsRunOut == SafeSpec => []StepCounts /\ [][StepSpent]_vars
<1>1. IInv /\ Course /\ [Next]_vars => [StepSpent]_vars
  BY StepSpends DEF Next, Step
<1> QED
  BY <1>1, StepsAreCounted, CourseHolds, PTL DEF SafeSpec
=============================================================================
