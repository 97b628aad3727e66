---------------------------- MODULE ThreadProofs ----------------------------
(***************************************************************************)
(* Proofs about the dorm, for any number of students and any limit, and    *)
(* about the threads that print under a mutex, for any number of them.     *)
(***************************************************************************)
EXTENDS DormProperties, PrinterState, FiniteSetTheorems, TLAPS

\* Where a student can be.
Point == {"unborn", "start", "studying", "look", "decide", "asleep", "complained"}

(* Every variable holds a value of its C++ type. *)
TypeOK ==
  /\ pc \in [Student -> Point]
  /\ waiting_count \in [Student -> Nat]
  /\ active_count \in Nat
  /\ created \in Nat /\ joined \in Nat /\ light \in {"on", "closed"}

\* While a student is in the loop it has not waited too long.
Patient == \A id \in Student : pc[id] # "complained" => waiting_count[id] <= wait_limit

IInv == TypeOK /\ CountIsRight /\ Patient

(* The students that study are finitely many. *)
LEMMA StudyingFinite == IsFiniteSet(Studying) /\ Cardinality(Studying) \in Nat
<1>1. IsFiniteSet(Student)
  BY DormAssumption, FS_Interval, 0 \in Int, person_number - 1 \in Int DEF Student
<1>2. Studying \subseteq Student
  BY DEF Studying
<1> QED
  BY <1>1, <1>2, FS_Subset, FS_CardinalityType

(* A student that begins to study is one more ... *)
LEMMA OneMore ==
  ASSUME NEW id \in Student, pc[id] # "studying", pc \in [Student -> Point],
         pc' = [pc EXCEPT ![id] = "studying"]
  PROVE  Cardinality(Studying') = Cardinality(Studying) + 1
<1>1. Studying' = Studying \union {id} /\ id \notin Studying
  BY DEF Studying
<1> QED
  BY <1>1, StudyingFinite, FS_AddElement

(* ... one that ends is one less, and so leaves a room that was not empty ... *)
LEMMA OneLess ==
  ASSUME NEW id \in Student, pc[id] = "studying", pc \in [Student -> Point],
         NEW to \in Point, to # "studying", pc' = [pc EXCEPT ![id] = to]
  PROVE  /\ Cardinality(Studying') = Cardinality(Studying) - 1
         /\ Cardinality(Studying) >= 1
<1>1. Studying' = Studying \ {id} /\ id \in Studying
  BY DEF Studying
<1>2. Cardinality(Studying') = Cardinality(Studying) - 1
  BY <1>1, StudyingFinite, FS_RemoveElement
<1>3. Cardinality(Studying) # 0
  BY <1>1, StudyingFinite, FS_EmptySet
<1> QED
  BY <1>2, <1>3, StudyingFinite

(* ... and all other steps of a student leave the number as it is. *)
LEMMA AsMany ==
  ASSUME NEW id \in Student, pc[id] # "studying", pc \in [Student -> Point],
         NEW to \in Point, to # "studying", pc' = [pc EXCEPT ![id] = to]
  PROVE  Studying' = Studying
BY DEF Studying

LEMMA InitEstablishes == Init => IInv
<1> SUFFICES ASSUME Init PROVE IInv
  OBVIOUS
<1>1. TypeOK /\ Patient
  BY DormAssumption DEF Init, TypeOK, Patient, Point
<1>2. Studying = {}
  BY DEF Init, Studying
<1> QED
  BY <1>1, <1>2, FS_EmptySet DEF Init, IInv, CountIsRight

LEMMA NextPreserves == IInv /\ [Next]_vars => IInv'
<1> SUFFICES ASSUME IInv, [Next]_vars PROVE IInv'
  OBVIOUS
<1> USE DEF IInv, TypeOK, CountIsRight, Patient, StudentGoes, main_vars, Point
<1>1. ASSUME NEW id \in Student, StartStudying(id) PROVE IInv'
  <2>1. Cardinality(Studying') = Cardinality(Studying) + 1
    BY <1>1, OneMore DEF StartStudying
  <2> QED
    BY <1>1, <2>1 DEF StartStudying
<1>2. ASSUME NEW id \in Student, StopStudying(id) PROVE IInv'
  <2>1. /\ Cardinality(Studying') = Cardinality(Studying) - 1
        /\ Cardinality(Studying) >= 1
    BY <1>2, OneLess DEF StopStudying
  <2> QED
    BY <1>2, <2>1 DEF StopStudying
<1>3. ASSUME NEW id \in Student, FallAsleep(id) PROVE IInv'
  <2>1. Studying' = Studying
    BY <1>3, AsMany DEF FallAsleep
  <2> QED
    BY <1>3, <2>1 DEF FallAsleep
<1>4. ASSUME NEW id \in Student, KeepWaiting(id) PROVE IInv'
  <2> DEFINE to == IF waiting_count'[id] > wait_limit THEN "complained"
                   ELSE IF is_studier(id) THEN "look" ELSE "decide"
  <2>1. /\ pc[id] = "look" /\ pc' = [pc EXCEPT ![id] = to]
        /\ waiting_count' = [waiting_count EXCEPT ![id] = @ + 1]
        /\ UNCHANGED <<active_count, created, joined, light>>
    BY <1>4 DEF KeepWaiting
  <2>0. waiting_count'[id] \in Nat
    BY <2>1
  <2>2. to \in {"complained", "look", "decide"}
        /\ (to # "complained" => waiting_count'[id] <= wait_limit)
    BY <2>0, DormAssumption
  <2> HIDE DEF to
  <2>3. Studying' = Studying
    BY <2>1, <2>2, AsMany
  <2> QED
    BY <2>1, <2>2, <2>3, DormAssumption
<1>5. ASSUME NEW id \in Student, Decide(id) PROVE IInv'
  <2>1. Studying' = Studying
    BY <1>5, AsMany DEF Decide
  <2> QED
    BY <1>5, <2>1 DEF Decide
<1>6. CASE CreateStudent
  <2>1. created \in Student
    BY <1>6, DormAssumption DEF CreateStudent, Student
  <2>2. Studying' = Studying
    BY <1>6, <2>1, AsMany DEF CreateStudent
  <2> QED
    BY <1>6, <2>1, <2>2 DEF CreateStudent
<1>7. CASE JoinStudent \/ CloseLight \/ UNCHANGED vars
  <2>1. Studying' = Studying
    BY <1>7 DEF JoinStudent, CloseLight, vars, Studying
  <2> QED
    BY <1>7, <2>1 DEF JoinStudent, CloseLight, vars
<1> QED
  BY <1>1, <1>2, <1>3, <1>4, <1>5, <1>6, <1>7 DEF Next, MainStep, StudentStep

(* The count and the patience of the students hold in every state. *)
THEOREM InvariantHolds == SafeSpec => []IInv
BY InitEstablishes, NextPreserves, PTL DEF SafeSpec

(* Of any number of students, active_count counts those that study: the     *)
(* two updates are in critical sections of their own, and no step of        *)
(* another student in between is lost.                                      *)
THEOREM CountAlwaysRight == SafeSpec => []CountIsRight
<1>1. IInv => CountIsRight
  BY DEF IInv
<1> QED
  BY <1>1, InvariantHolds, PTL

(* No student complains but after wait_limit + 1 looks, the last of them    *)
(* while another one studied.                                               *)
THEOREM ComplaintsHaveCause == SafeSpec => ComplaintHasCause
<1> DEFINE Cause(id) ==
      pc[id] # "complained" /\ pc'[id] = "complained" =>
        /\ waiting_count[id] = wait_limit
        /\ \E other \in Student \ {id} : pc[other] = "studying"
<1>1. IInv /\ [Next]_vars => [\A id \in Student : Cause(id)]_vars
  <2> SUFFICES ASSUME IInv, Next, NEW id \in Student,
                      pc[id] # "complained", pc'[id] = "complained"
               PROVE  /\ waiting_count[id] = wait_limit
                      /\ \E other \in Student \ {id} : pc[other] = "studying"
    OBVIOUS
  <2>1. KeepWaiting(id)
    BY DEF IInv, TypeOK, Next, MainStep, StudentStep, StartStudying, StopStudying,
           FallAsleep, KeepWaiting, Decide, CreateStudent, JoinStudent, CloseLight, StudentGoes
  <2>2. waiting_count[id] = wait_limit
    BY <2>1, DormAssumption DEF KeepWaiting, StudentGoes, IInv, TypeOK, Patient
  <2>3. Studying # {}
    BY <2>1, FS_EmptySet DEF KeepWaiting, IInv, CountIsRight
  <2>4. pc[id] = "look"
    BY <2>1 DEF KeepWaiting, StudentGoes
  <2> QED
    BY <2>2, <2>3, <2>4 DEF Studying
<1> QED
  BY <1>1, InvariantHolds, PTL DEF SafeSpec, ComplaintHasCause

\* Whom main has joined and what that means for the light.
Joining ==
  /\ joined <= person_number
  /\ \A id \in Student : id < joined => pc[id] \in {"asleep", "complained"}
  /\ light = "closed" => joined = person_number

LEMMA JoiningAtFirst == Init => Joining
BY DormAssumption DEF Init, Joining, Student

LEMMA JoiningPreserved == IInv /\ Joining /\ [Next]_vars => Joining'
<1> SUFFICES ASSUME IInv, Joining, [Next]_vars PROVE Joining'
  OBVIOUS
<1> USE DEF Joining, StudentGoes
<1>0. /\ pc = [id \in Student |-> pc[id]] /\ joined \in Nat /\ person_number \in Nat
      /\ created \in Nat /\ Student \subseteq Int
  BY DormAssumption DEF IInv, TypeOK, Student
<1>1. CASE JoinStudent
  BY <1>0, <1>1 DEF JoinStudent
<1>2. CASE CloseLight \/ UNCHANGED vars
  BY <1>2 DEF CloseLight, vars
<1>3. ASSUME NEW id \in Student, StudentStep(id) \/ CreateStudent PROVE Joining'
  <2>1. /\ UNCHANGED <<joined, light>>
        /\ \A other \in Student : pc[other] \in {"asleep", "complained"} => pc'[other] = pc[other]
    BY <1>0, <1>3
       DEF StudentStep, StartStudying, StopStudying, FallAsleep, KeepWaiting, Decide, CreateStudent,
           main_vars
  <2> QED
    BY <2>1
<1>4. \E id \in Student : TRUE
  BY DormAssumption DEF Student
<1> QED
  BY <1>1, <1>2, <1>3, <1>4 DEF Next, MainStep

(* When main closes the light nobody studies, nobody is about to and nobody *)
(* waits any more: every student is asleep or has complained, although      *)
(* is_everyone_sleeping() may have been true long before.                   *)
THEOREM LightClosedOnNobody ==
  SafeSpec => [](light = "closed" =>
                   /\ active_count = 0
                   /\ \A id \in Student : pc[id] \in {"asleep", "complained"})
<1>1. ASSUME IInv, Joining, light = "closed"
      PROVE  active_count = 0 /\ \A id \in Student : pc[id] \in {"asleep", "complained"}
  <2>1. \A id \in Student : pc[id] \in {"asleep", "complained"}
    BY <1>1, DormAssumption DEF Joining, Student
  <2>2. Studying = {}
    BY <2>1 DEF Studying
  <2> QED
    BY <1>1, <2>1, <2>2, FS_EmptySet DEF IInv, CountIsRight
<1> QED
  BY <1>1, InvariantHolds, JoiningAtFirst, JoiningPreserved, PTL DEF SafeSpec

-----------------------------------------------------------------------------
(* Progress: what LightIsClosed needs besides fairness.  Somebody can take  *)
(* a step until the light is closed, and every step lowers a number that    *)
(* is never raised again.                                                   *)

\* Whom main has created, and that it joins nobody before.
Creating ==
  /\ created <= person_number
  /\ \A id \in Student : pc[id] = "unborn" <=> created <= id
  /\ joined > 0 => created = person_number

\* When somebody can take its next step, by itself, by the guards of its actions:
\* a student in its loop is never held up, for a look finds the room empty or not.
StudentCanStep(id) == pc[id] \in {"start", "studying", "look", "decide"}

MainCanStep ==
  \/ created < person_number /\ pc[created] = "unborn"
  \/ created = person_number /\ joined < person_number /\ pc[joined] \in {"asleep", "complained"}
  \/ joined = person_number /\ light = "on"

\* How many more steps a student can take: four for each look it still has the
\* patience for, the look, a decision and the begin and end of its study ...
StudentStepsFrom(place, waits) ==
  LET looks == 4 * (wait_limit + 1 - waits)
  IN  CASE place = "unborn" -> looks + 4
        [] place = "decide" -> looks + 3
        [] place = "start" -> looks + 2
        [] place = "studying" -> looks + 1
        [] place = "look" -> looks
        [] place \in {"asleep", "complained"} -> 0

StudentSteps(id) == StudentStepsFrom(pc[id], waiting_count[id])

\* ... and main.
MainSteps == (person_number - created) + (person_number - joined) + (IF light = "on" THEN 1 ELSE 0)

DormStepCounts == MainSteps \in Nat /\ \A id \in Student : StudentSteps(id) \in Nat

\* A step after which somebody has fewer steps to take and nobody has more.
DormStepSpent ==
  /\ MainSteps' <= MainSteps
  /\ \A id \in Student : StudentSteps(id)' <= StudentSteps(id)
  /\ MainSteps' < MainSteps \/ \E id \in Student : StudentSteps(id)' < StudentSteps(id)

LEMMA CreatingAtFirst == Init => Creating
BY DormAssumption DEF Init, Creating, Student

LEMMA CreatingPreserved == IInv /\ Creating /\ [Next]_vars => Creating'
<1> SUFFICES ASSUME IInv, Creating, [Next]_vars PROVE Creating'
  OBVIOUS
<1> USE DEF Creating, StudentGoes, main_vars
<1>0. /\ pc \in [Student -> Point] /\ joined \in Nat /\ person_number \in Nat
      /\ created \in Nat /\ Student \subseteq Int
  BY DormAssumption DEF IInv, TypeOK, Student
<1>1. CASE CreateStudent
  <2>1. /\ created \in Student /\ created' = created + 1 /\ created < person_number
        /\ UNCHANGED joined
        /\ pc'[created] \in {"start", "look"}
        /\ \A id \in Student : id # created => pc'[id] = pc[id]
    BY <1>0, <1>1 DEF CreateStudent, Student
  <2> QED
    BY <1>0, <2>1
<1>2. CASE JoinStudent \/ CloseLight \/ UNCHANGED vars
  BY <1>0, <1>2 DEF JoinStudent, CloseLight, vars
<1>3. ASSUME NEW id \in Student, StudentStep(id) PROVE Creating'
  <2>1. /\ UNCHANGED <<created, joined>>
        /\ \A other \in Student : pc'[other] = "unborn" <=> pc[other] = "unborn"
    BY <1>0, <1>3
       DEF StudentStep, StartStudying, StopStudying, FallAsleep, KeepWaiting, Decide
  <2> QED
    BY <2>1
<1> QED
  BY <1>1, <1>2, <1>3 DEF Next, MainStep

(* The dorm is never deadlocked: until the light is closed main can go on   *)
(* or a student can, however many students there are.                       *)
THEOREM DormNeverDeadlocked ==
  SafeSpec => [](light # "closed" => MainCanStep \/ \E id \in Student : StudentCanStep(id))
<1>1. ASSUME IInv, Joining, Creating, light # "closed", ~MainCanStep
      PROVE  \E id \in Student : StudentCanStep(id)
  <2> USE <1>1, DormAssumption DEF IInv, TypeOK, Joining, Creating, MainCanStep
  <2>1. created = person_number
    BY DEF Student
  <2>2. joined \in Student
    BY <2>1 DEF Student
  <2>3. pc[joined] \notin {"asleep", "complained", "unborn"}
    BY <2>1, <2>2 DEF Student
  <2> QED
    BY <2>2, <2>3 DEF Point, StudentCanStep
<1> QED
  BY <1>1, InvariantHolds, JoiningAtFirst, JoiningPreserved, CreatingAtFirst, CreatingPreserved, PTL
     DEF SafeSpec

LEMMA StudentStepTable ==
  ASSUME NEW waits
  PROVE  LET looks == 4 * (wait_limit + 1 - waits)
         IN  /\ StudentStepsFrom("unborn", waits) = looks + 4
             /\ StudentStepsFrom("decide", waits) = looks + 3
             /\ StudentStepsFrom("start", waits) = looks + 2
             /\ StudentStepsFrom("studying", waits) = looks + 1
             /\ StudentStepsFrom("look", waits) = looks
             /\ StudentStepsFrom("asleep", waits) = 0
             /\ StudentStepsFrom("complained", waits) = 0
BY DEF StudentStepsFrom

LEMMA DormStepsAreCounted == IInv /\ Joining /\ Creating => DormStepCounts
<1> SUFFICES ASSUME IInv, Joining, Creating PROVE DormStepCounts
  OBVIOUS
<1> USE DormAssumption DEF IInv, TypeOK, Joining, Creating, Patient
<1>1. MainSteps \in Nat
  BY DEF MainSteps
<1>2. ASSUME NEW id \in Student PROVE StudentSteps(id) \in Nat
  <2>1. /\ waiting_count[id] \in Nat /\ pc[id] \in Point
        /\ pc[id] # "complained" => waiting_count[id] <= wait_limit
    OBVIOUS
  <2> QED
    BY <2>1, StudentStepTable DEF StudentSteps, Point
<1> QED
  BY <1>1, <1>2 DEF DormStepCounts

(* A step of a student spends its own steps and nobody else's.              *)
LEMMA StudentSpends ==
  ASSUME IInv, Joining, Creating, NEW id \in Student, StudentStep(id)
  PROVE  DormStepSpent
<1> USE DEF StudentGoes, main_vars
<1>0. /\ pc \in [Student -> Point] /\ waiting_count \in [Student -> Nat]
      /\ waiting_count[id] \in Nat /\ wait_limit \in Nat
      /\ pc[id] # "complained" => waiting_count[id] <= wait_limit
  BY DormAssumption DEF IInv, TypeOK, Patient
<1>1. /\ UNCHANGED main_vars
      /\ \A other \in Student \ {id} : pc'[other] = pc[other]
                                       /\ waiting_count'[other] = waiting_count[other]
  BY <1>0 DEF StudentStep, StartStudying, StopStudying, FallAsleep, KeepWaiting, Decide
<1>2. StudentSteps(id)' < StudentSteps(id) /\ StudentSteps(id)' <= StudentSteps(id)
  <2>1. \/ pc[id] = "start" /\ pc'[id] = "studying" /\ UNCHANGED waiting_count
        \/ pc[id] = "studying" /\ pc'[id] = "look" /\ UNCHANGED waiting_count
        \/ pc[id] = "look" /\ pc'[id] = "asleep" /\ UNCHANGED waiting_count
        \/ pc[id] = "look" /\ pc'[id] \in {"complained", "look", "decide"}
             /\ waiting_count'[id] = waiting_count[id] + 1
        \/ pc[id] = "decide" /\ pc'[id] \in {"start", "look"} /\ UNCHANGED waiting_count
    BY <1>0 DEF StudentStep, StartStudying, StopStudying, FallAsleep, KeepWaiting, Decide
  <2> QED
    BY <1>0, <2>1, StudentStepTable DEF StudentSteps
<1>3. /\ \A other \in Student : StudentSteps(other) \in Nat
      /\ MainSteps \in Nat
  BY DormStepsAreCounted DEF DormStepCounts
<1>4. ASSUME NEW other \in Student PROVE StudentSteps(other)' <= StudentSteps(other)
  <2>1. CASE other = id
    BY <1>2, <2>1
  <2>2. CASE other # id
    <3>1. StudentSteps(other)' = StudentSteps(other)
      BY <1>1, <2>2 DEF StudentSteps
    <3> QED
      BY <1>3, <3>1
  <2> QED
    BY <2>1, <2>2
<1>5. MainSteps' = MainSteps
  BY <1>1 DEF MainSteps
<1>6. MainSteps' <= MainSteps
  BY <1>3, <1>5
<1> QED
  BY <1>2, <1>4, <1>6 DEF DormStepSpent

(* A step of main spends its own, and a student's when it creates one.      *)
LEMMA MainSpends ==
  ASSUME IInv, Joining, Creating, MainStep
  PROVE  DormStepSpent
<1> USE DEF StudentGoes, main_vars
<1>0. /\ pc \in [Student -> Point] /\ waiting_count \in [Student -> Nat]
      /\ created \in Nat /\ joined \in Nat /\ person_number \in Nat /\ wait_limit \in Nat
      /\ Student \subseteq Int
  BY DormAssumption DEF IInv, TypeOK, Student
<1>1. \A id \in Student : StudentSteps(id) \in Nat
  BY DormStepsAreCounted DEF IInv, DormStepCounts
<1>2. CASE CreateStudent
  <2>1. PICK new \in Student : new = created
    BY <1>0, <1>2, DormAssumption DEF CreateStudent, Student
  <2>2. /\ pc[new] = "unborn" /\ pc'[new] \in {"start", "look"}
        /\ \A id \in Student \ {new} : pc'[id] = pc[id]
        /\ created' = created + 1 /\ UNCHANGED <<waiting_count, joined, light>>
    BY <1>0, <1>2, <2>1 DEF CreateStudent
  <2>3. StudentSteps(new)' <= StudentSteps(new)
    BY <1>0, <2>2, StudentStepTable DEF StudentSteps
  <2>4. \A id \in Student : StudentSteps(id)' <= StudentSteps(id)
    BY <1>1, <2>2, <2>3 DEF StudentSteps
  <2>5. MainSteps' < MainSteps /\ MainSteps' <= MainSteps
    BY <1>0, <2>2 DEF MainSteps
  <2> QED
    BY <2>4, <2>5 DEF DormStepSpent
<1>3. CASE JoinStudent \/ CloseLight
  <2>1. \A id \in Student : StudentSteps(id)' <= StudentSteps(id)
    BY <1>1, <1>3 DEF StudentSteps, JoinStudent, CloseLight
  <2>2. MainSteps' < MainSteps /\ MainSteps' <= MainSteps
    BY <1>0, <1>3 DEF MainSteps, JoinStudent, CloseLight
  <2> QED
    BY <2>1, <2>2 DEF DormStepSpent
<1> QED
  BY <1>2, <1>3 DEF MainStep

(* The steps that main and every student have left run out, though students *)
(* may be tempted again and again: each look at somebody who studies costs  *)
(* patience, and a student has patience for wait_limit of them.             *)
THEOREM DormStepsRunOut == SafeSpec => []DormStepCounts /\ [][DormStepSpent]_vars
<1>1. IInv /\ Joining /\ Creating /\ [Next]_vars => [DormStepSpent]_vars
  BY StudentSpends, MainSpends DEF Next
<1>2. IInv /\ Joining /\ Creating => DormStepCounts
  BY DormStepsAreCounted
<1> HIDE DEF DormStepCounts, DormStepSpent
<1> QED
  BY <1>1, <1>2, InvariantHolds, JoiningAtFirst, JoiningPreserved, CreatingAtFirst,
     CreatingPreserved, PTL DEF SafeSpec

-----------------------------------------------------------------------------
(* The threads that print under a mutex are another program: what its       *)
(* modules define keeps a name of its own here, but for PrinterState.       *)

VARIABLES i, mutex_output, cancels

Printers == INSTANCE OutputMutexProperties

(* Every variable holds a value of its type. *)
PrinterTypeOK ==
  /\ at \in [Printers!Caller -> {"unborn", "malloc", "create", "lock",
                               "write", "unlock", "cancel", "join", "free", "ended"}]
  /\ i \in 0 .. THREAD_COUNT
  /\ mutex_output \in Printers!Caller \union {Printers!None}
  /\ array_on_heap \subseteq Printers!Caller
  /\ cancels \subseteq Thread /\ cancelled \subseteq Thread

\* Whoever prints holds the mutex, and so does whoever died printing.
Held ==
  /\ \A c \in Printers!Caller : at[c] \in {"write", "unlock"} => mutex_output = c
  /\ \A t \in cancelled : mutex_output = t /\ at[t] = "ended"

\* What main's loop index tells: all from it on are unborn while main creates
\* threads, all before it are joined later on.
Joined ==
  /\ at[Main] \notin {"unborn", "malloc"}
  /\ \A t \in Thread : at[t] \notin {"create", "cancel", "join"}
  /\ at[Main] = "create" => \A t \in Thread : t >= i => at[t] = "unborn"
  /\ at[Main] # "create" => \A t \in Thread : t < i => at[t] = "ended"
  /\ at[Main] \in {"cancel", "join"} => i < THREAD_COUNT
  /\ at[Main] \in {"lock", "write", "unlock"} => i \in {0, THREAD_COUNT}
  /\ at[Main] \in {"free", "ended"} => i = THREAD_COUNT /\ cancelled = {}

\* Who has an array will free it, unless it was cancelled.
WillFree ==
  /\ at[Main] = "ended" => Main \notin array_on_heap
  /\ \A t \in Thread \intersect array_on_heap :
       at[t] \in {"lock", "write", "unlock", "free"} \/ t \in cancelled

PrinterIInv == PrinterTypeOK /\ Held /\ Joined /\ WillFree

LEMMA Callers ==
  /\ Printers!Main = Main /\ Printers!Thread = Thread
  /\ THREAD_COUNT \in Nat \ {0}
  /\ Main \in Printers!Caller /\ Main \notin Thread
  /\ Thread \subseteq Printers!Caller /\ Printers!None \notin Printers!Caller
  /\ \A c \in Printers!Caller : c = Main \/ c \in Thread
  /\ \A t \in Thread : t \in Nat /\ t < THREAD_COUNT
  /\ \A k \in 0 .. THREAD_COUNT : k < THREAD_COUNT => k \in Thread
BY ThreadAssumption
   DEF Main, Printers!Main, Thread, Printers!Thread, Printers!Caller, Printers!None

LEMMA PrinterInitEstablishes == Printers!Init => PrinterIInv
BY Callers DEF Printers!Init, PrinterIInv, PrinterTypeOK, Held, Joined, WillFree

LEMMA PrinterNextPreserves == PrinterIInv /\ [Printers!Next]_(Printers!vars) => PrinterIInv'
<1> SUFFICES ASSUME PrinterIInv, [Printers!Next]_(Printers!vars) PROVE PrinterIInv'
  OBVIOUS
<1> USE Callers DEF PrinterIInv, PrinterTypeOK, Held, Joined, WillFree, Printers!Goes
<1>1. ASSUME NEW c \in Printers!Caller, Printers!Lock(c) PROVE PrinterIInv'
  BY <1>1 DEF Printers!Lock
<1>2. ASSUME NEW c \in Printers!Caller, Printers!Write(c) PROVE PrinterIInv'
  BY <1>2 DEF Printers!Write
<1>3. ASSUME NEW t \in Thread, Printers!Cancelled(t) PROVE PrinterIInv'
  <2>1. cancelled = {} /\ mutex_output = t
    BY <1>3 DEF Printers!Cancelled
  <2>2. at[Main] \notin {"free", "ended"}
    BY <1>3 DEF Printers!Cancelled
  <2> QED
    BY <1>3, <2>1, <2>2 DEF Printers!Cancelled
<1>4. ASSUME NEW t \in Thread, Printers!Unlock(t, "free") PROVE PrinterIInv'
  BY <1>4 DEF Printers!Unlock
<1>5. CASE Printers!Unlock(Main, IF i = 0 THEN "cancel" ELSE "free")
  <2>1. cancelled = {} /\ mutex_output = Main
    BY <1>5 DEF Printers!Unlock
  <2> QED
    BY <1>5, <2>1 DEF Printers!Unlock
<1>6. ASSUME NEW t \in Thread, Printers!Malloc(t) PROVE PrinterIInv'
  BY <1>6 DEF Printers!Malloc
<1>7. ASSUME NEW t \in Thread, Printers!Free(t) PROVE PrinterIInv'
  BY <1>7 DEF Printers!Free
<1>8. CASE Printers!Free(Main)
  <2>1. /\ at[Main] = "free" /\ at' = [at EXCEPT ![Main] = "ended"]
        /\ array_on_heap' = array_on_heap \ {Main}
        /\ UNCHANGED <<i, mutex_output, cancels, cancelled>>
    BY <1>8 DEF Printers!Free
  <2>2. PrinterTypeOK' /\ Held'
    BY <2>1
  <2>3. Joined'
    BY <2>1
  <2>4. WillFree'
    BY <2>1
  <2> QED
    BY <2>2, <2>3, <2>4
<1>9. CASE Printers!Create
  <2>1. CASE i < THREAD_COUNT
    <3>1. /\ i \in Thread /\ at[i] = "unborn"
          /\ at' = [at EXCEPT ![i] = "malloc"] /\ i' = i + 1
      BY <1>9, <2>1 DEF Printers!Create
    <3> QED
      BY <1>9, <2>1, <3>1 DEF Printers!Create
  <2>2. CASE i = THREAD_COUNT
    BY <1>9, <2>2 DEF Printers!Create
  <2> QED
    BY <2>1, <2>2
<1>10. CASE Printers!Cancel
  BY <1>10 DEF Printers!Cancel
<1>11. CASE Printers!Join
  BY <1>11 DEF Printers!Join
<1>12. CASE UNCHANGED Printers!vars
  BY <1>12 DEF Printers!vars
<1> QED
  BY <1>1, <1>2, <1>3, <1>4, <1>5, <1>6, <1>7, <1>8, <1>9, <1>10, <1>11, <1>12
     DEF Printers!Next, Printers!MainStep, Printers!ThreadStep, Printers!Output

(* What holds in every state of the program, for any number of threads.     *)
THEOREM PrinterInvariantHolds == Printers!SafeSpec => []PrinterIInv
BY PrinterInitEstablishes, PrinterNextPreserves, PTL DEF Printers!SafeSpec

(* Of any number of threads one at most is cancelled in its write; main     *)
(* then never ends, and if it ends every array has been freed.              *)
THEOREM CancelledTakesTheMutexAlways == Printers!SafeSpec => []CancelledTakesTheMutex
<1>1. PrinterIInv => CancelledTakesTheMutex
  <2> SUFFICES ASSUME PrinterIInv PROVE CancelledTakesTheMutex
    OBVIOUS
  <2> USE Callers DEF PrinterIInv, PrinterTypeOK, Held, Joined, WillFree
  <2>1. cancelled = {} \/ cancelled = {mutex_output}
    OBVIOUS
  <2>2. Cardinality(cancelled) <= 1
    <3>1. CASE cancelled = {}
      BY <3>1, FS_EmptySet
    <3>2. CASE cancelled = {mutex_output}
      <4>1. Cardinality({mutex_output}) = 1
        BY FS_Singleton
      <4> QED
        BY <3>2, <4>1
    <3> QED
      BY <2>1, <3>1, <3>2
  <2>3. at[Main] = "ended" => cancelled = {} /\ array_on_heap = {}
    OBVIOUS
  <2> QED
    BY <2>2, <2>3 DEF CancelledTakesTheMutex
<1> QED
  BY <1>1, PrinterInvariantHolds, PTL

(* Once a thread has been cancelled in its write nobody prints any more,    *)
(* neither another thread nor main, and main never ends: the half of        *)
(* EndsUnlessCancelled that says what a cancellation costs.                 *)
THEOREM NobodyPrintsAfterwards ==
  Printers!SafeSpec
    => [](cancelled # {} => [](/\ at[Main] # "ended"
                               /\ \A c \in Printers!Caller : at[c] \notin {"write", "unlock"}))
<1> DEFINE Silent == /\ at[Main] # "ended"
                     /\ \A c \in Printers!Caller : at[c] \notin {"write", "unlock"}
<1>1. PrinterIInv /\ cancelled # {} => Silent
  BY Callers DEF PrinterIInv, PrinterTypeOK, Held, Joined
<1>2. cancelled # {} /\ [Printers!Next]_(Printers!vars) => (cancelled # {})'
  BY DEF Printers!Next, Printers!MainStep, Printers!ThreadStep, Printers!Output, Printers!Lock,
         Printers!Write, Printers!Unlock, Printers!Cancelled, Printers!Malloc, Printers!Free,
         Printers!Create, Printers!Cancel, Printers!Join, Printers!vars
<1> HIDE DEF Silent
<1>3. Printers!SafeSpec => [](cancelled # {} => []Silent)
  BY <1>1, <1>2, PrinterInvariantHolds, PTL DEF Printers!SafeSpec
<1> QED
  BY <1>3 DEF Silent

-----------------------------------------------------------------------------
(* Progress: what EndsUnlessCancelled needs besides fairness.               *)

\* Who holds the mutex prints under it or has died doing so, and main has created
\* every thread that its loop index has passed.
Holding ==
  /\ mutex_output # Printers!None => \/ at[mutex_output] \in {"write", "unlock"}
                                     \/ mutex_output \in cancelled
  /\ \A t \in Thread : at[t] = "unborn" => at[Main] = "create" /\ t >= i

\* When a caller can take its next step, by itself: the guards of its actions.
OutputCanStep(c) ==
  \/ at[c] = "lock" /\ mutex_output = Printers!None
  \/ at[c] \in {"write", "unlock"}

ThreadCanStep(t) == at[t] \in {"malloc", "free"} \/ OutputCanStep(t)

CreatorCanStep ==
  \/ at[Main] \in {"create", "free"}
  \/ at[Main] = "cancel" /\ i < THREAD_COUNT
  \/ at[Main] = "join" /\ at[i] = "ended"
  \/ OutputCanStep(Main)

\* How many more steps a thread can take ...
ThreadStepsFrom(place) ==
  CASE place = "unborn" -> 6
    [] place = "malloc" -> 5
    [] place = "lock" -> 4
    [] place = "write" -> 3
    [] place = "unlock" -> 2
    [] place = "free" -> 1
    [] place = "ended" -> 0

ThreadSteps(t) == ThreadStepsFrom(at[t])

\* ... and main: it prints before it cancels the first thread and after it has
\* joined the last one.
CreatorStepsFrom(place, index) ==
  LET printing == IF index = 0 THEN 2 * THREAD_COUNT + 4 ELSE 1
  IN  CASE place = "create" -> 3 * THREAD_COUNT - index + 8
        [] place = "lock" -> printing + 3
        [] place = "write" -> printing + 2
        [] place = "unlock" -> printing + 1
        [] place = "cancel" -> 2 * (THREAD_COUNT - index) + 4
        [] place = "join" -> 2 * (THREAD_COUNT - index) + 3
        [] place = "free" -> 1
        [] place = "ended" -> 0

CreatorSteps == CreatorStepsFrom(at[Main], i)

PrinterStepCounts == CreatorSteps \in Nat /\ \A t \in Thread : ThreadSteps(t) \in Nat

PrinterStepSpent ==
  /\ CreatorSteps' <= CreatorSteps
  /\ \A t \in Thread : ThreadSteps(t)' <= ThreadSteps(t)
  /\ CreatorSteps' < CreatorSteps \/ \E t \in Thread : ThreadSteps(t)' < ThreadSteps(t)

LEMMA HoldingAtFirst == Printers!Init => Holding
BY Callers DEF Printers!Init, Holding

LEMMA HoldingPreserved == PrinterIInv /\ Holding /\ [Printers!Next]_(Printers!vars) => Holding'
<1> SUFFICES ASSUME PrinterIInv, Holding, [Printers!Next]_(Printers!vars) PROVE Holding'
  OBVIOUS
<1> USE Callers DEF PrinterIInv, PrinterTypeOK, Held, Joined, Holding, Printers!Goes
<1>1. ASSUME NEW c \in Printers!Caller, Printers!Lock(c) PROVE Holding'
  BY <1>1 DEF Printers!Lock
<1>2. ASSUME NEW c \in Printers!Caller, Printers!Write(c) PROVE Holding'
  BY <1>2 DEF Printers!Write
<1>3. ASSUME NEW t \in Thread, Printers!Cancelled(t) PROVE Holding'
  BY <1>3 DEF Printers!Cancelled
<1>4. ASSUME NEW c \in Printers!Caller, NEW next \in {"free", "cancel"}, Printers!Unlock(c, next)
      PROVE  Holding'
  BY <1>4 DEF Printers!Unlock
<1>5. ASSUME NEW t \in Thread, Printers!Malloc(t) PROVE Holding'
  BY <1>5 DEF Printers!Malloc
<1>6. ASSUME NEW c \in Printers!Caller, Printers!Free(c) PROVE Holding'
  BY <1>6 DEF Printers!Free
<1>7. CASE Printers!Create
  <2>1. CASE i < THREAD_COUNT
    <3>1. PICK new \in Thread : new = i /\ new \in Int
      BY <2>1
    <3>2. /\ at[new] = "unborn" /\ at'[new] = "malloc" /\ at'[Main] = "create"
          /\ \A c \in Printers!Caller \ {new} : at'[c] = at[c]
          /\ i' = i + 1 /\ UNCHANGED <<mutex_output, cancelled>>
      BY <1>7, <2>1, <3>1 DEF Printers!Create
    <3>3. ASSUME NEW t \in Thread, at'[t] = "unborn" PROVE t >= i'
      BY <3>1, <3>2, <3>3
    <3>4. mutex_output # Printers!None /\ mutex_output \notin cancelled
            => at'[mutex_output] \in {"write", "unlock"}
      BY <3>2
    <3> QED
      BY <3>2, <3>3, <3>4
  <2>2. CASE i = THREAD_COUNT
    <3>1. /\ at[Main] = "create" /\ at' = [at EXCEPT ![Main] = "lock"]
          /\ UNCHANGED <<mutex_output, cancelled>>
      BY <1>7, <2>2 DEF Printers!Create
    <3>2. \A t \in Thread : at[t] # "unborn"
      BY <2>2
    <3> QED
      BY <3>1, <3>2
  <2> QED
    BY <2>1, <2>2
<1>8. CASE Printers!Cancel
  BY <1>8 DEF Printers!Cancel
<1>9. CASE Printers!Join
  BY <1>9 DEF Printers!Join
<1>10. CASE UNCHANGED Printers!vars
  BY <1>10 DEF Printers!vars
<1> QED
  BY <1>1, <1>2, <1>3, <1>4, <1>5, <1>6, <1>7, <1>8, <1>9, <1>10
     DEF Printers!Next, Printers!MainStep, Printers!ThreadStep, Printers!Output

(* If nobody can go on before main has ended, then a thread has died with   *)
(* the mutex, and somebody waits for it: main, which wants to print, or the *)
(* thread main wants to join.  Nothing else can stop the program, however   *)
(* many threads it has.                                                     *)
THEOREM StuckOnlyForADeadThreadsMutex ==
  Printers!SafeSpec
    => [](at[Main] # "ended" =>
            \/ CreatorCanStep
            \/ \E t \in Thread : ThreadCanStep(t)
            \/ \E waiter \in {Main, i} : at[waiter] = "lock" /\ mutex_output \in cancelled)
<1>1. PrinterIInv /\ Holding
        => (at[Main] # "ended" =>
              \/ CreatorCanStep
              \/ \E t \in Thread : ThreadCanStep(t)
              \/ \E waiter \in {Main, i} : at[waiter] = "lock" /\ mutex_output \in cancelled)
  <2> SUFFICES ASSUME PrinterIInv, Holding, at[Main] # "ended", ~CreatorCanStep,
                      \A t \in Thread : ~ThreadCanStep(t)
               PROVE  \E waiter \in {Main, i} : at[waiter] = "lock" /\ mutex_output \in cancelled
    OBVIOUS
  <2> USE Callers DEF PrinterIInv, PrinterTypeOK, Joined, Holding
  <2>1. at[Main] \in {"lock", "join"}
    BY DEF CreatorCanStep, OutputCanStep
  <2>2. PICK waiter \in Printers!Caller : waiter \in {Main, i} /\ at[waiter] = "lock"
    <3>1. CASE at[Main] = "lock"
      BY <3>1
    <3>2. CASE at[Main] = "join"
      <4>1. i \in Thread /\ at[i] \notin {"unborn", "ended"}
        BY <3>2 DEF CreatorCanStep
      <4> QED
        BY <4>1 DEF ThreadCanStep, OutputCanStep
    <3> QED
      BY <2>1, <3>1, <3>2
  <2>3. mutex_output # Printers!None
    BY <2>2 DEF CreatorCanStep, ThreadCanStep, OutputCanStep
  <2>4. at[mutex_output] \notin {"write", "unlock"}
    BY <2>3 DEF CreatorCanStep, ThreadCanStep, OutputCanStep
  <2> QED
    BY <2>2, <2>3, <2>4
<1> QED
  BY <1>1, PrinterInvariantHolds, HoldingAtFirst, HoldingPreserved, PTL DEF Printers!SafeSpec

LEMMA ThreadStepTable ==
  /\ ThreadStepsFrom("unborn") = 6
  /\ ThreadStepsFrom("malloc") = 5
  /\ ThreadStepsFrom("lock") = 4
  /\ ThreadStepsFrom("write") = 3
  /\ ThreadStepsFrom("unlock") = 2
  /\ ThreadStepsFrom("free") = 1
  /\ ThreadStepsFrom("ended") = 0
BY DEF ThreadStepsFrom

LEMMA CreatorStepTable ==
  ASSUME NEW index
  PROVE  LET printing == IF index = 0 THEN 2 * THREAD_COUNT + 4 ELSE 1
         IN  /\ CreatorStepsFrom("create", index) = 3 * THREAD_COUNT - index + 8
             /\ CreatorStepsFrom("lock", index) = printing + 3
             /\ CreatorStepsFrom("write", index) = printing + 2
             /\ CreatorStepsFrom("unlock", index) = printing + 1
             /\ CreatorStepsFrom("cancel", index) = 2 * (THREAD_COUNT - index) + 4
             /\ CreatorStepsFrom("join", index) = 2 * (THREAD_COUNT - index) + 3
             /\ CreatorStepsFrom("free", index) = 1
             /\ CreatorStepsFrom("ended", index) = 0
BY DEF CreatorStepsFrom

LEMMA PrinterStepsAreCounted == PrinterIInv => PrinterStepCounts
<1> SUFFICES ASSUME PrinterIInv PROVE PrinterStepCounts
  OBVIOUS
<1> USE Callers DEF PrinterIInv, PrinterTypeOK, Joined
<1>1. CreatorSteps \in Nat
  BY CreatorStepTable DEF CreatorSteps
<1>2. \A t \in Thread : ThreadSteps(t) \in Nat
  BY ThreadStepTable DEF ThreadSteps
<1> QED
  BY <1>1, <1>2 DEF PrinterStepCounts

(* A step of a thread spends its own steps and nobody else's.               *)
LEMMA ThreadSpends ==
  ASSUME PrinterIInv, NEW t \in Thread, Printers!ThreadStep(t)
  PROVE  PrinterStepSpent
<1>1. /\ at \in [Printers!Caller -> {"unborn", "malloc", "create", "lock", "write", "unlock",
                                   "cancel", "join", "free", "ended"}]
      /\ t \in Printers!Caller /\ t # Main
  BY Callers DEF PrinterIInv, PrinterTypeOK
<1>2. /\ UNCHANGED i
      /\ \A c \in Printers!Caller \ {t} : at'[c] = at[c]
      /\ \/ at[t] = "malloc" /\ at'[t] = "lock"
         \/ at[t] = "lock" /\ at'[t] = "write"
         \/ at[t] = "write" /\ at'[t] \in {"unlock", "ended"}
         \/ at[t] = "unlock" /\ at'[t] = "free"
         \/ at[t] = "free" /\ at'[t] = "ended"
  BY <1>1 DEF Printers!ThreadStep, Printers!Output, Printers!Lock, Printers!Write,
     Printers!Cancelled, Printers!Unlock, Printers!Malloc, Printers!Free, Printers!Goes
<1>3. /\ CreatorSteps \in Nat
      /\ \A other \in Thread : ThreadSteps(other) \in Nat
  BY PrinterStepsAreCounted DEF PrinterStepCounts
<1>4. CreatorSteps' = CreatorSteps /\ CreatorSteps' <= CreatorSteps
  BY <1>1, <1>2, <1>3, Callers DEF CreatorSteps
<1>5. ThreadSteps(t)' < ThreadSteps(t) /\ ThreadSteps(t)' <= ThreadSteps(t)
  BY <1>2, ThreadStepTable DEF ThreadSteps
<1>6. ASSUME NEW other \in Thread, other # t PROVE ThreadSteps(other)' <= ThreadSteps(other)
  <2>1. ThreadSteps(other)' = ThreadSteps(other)
    BY <1>2, <1>6, Callers DEF ThreadSteps
  <2> QED
    BY <1>3, <2>1
<1> QED
  BY <1>4, <1>5, <1>6 DEF PrinterStepSpent

(* A step of main spends its own, and a thread's when it creates one.       *)
LEMMA CreatorSpends ==
  ASSUME PrinterIInv, Printers!MainStep
  PROVE  PrinterStepSpent
<1>0. /\ at \in [Printers!Caller -> {"unborn", "malloc", "create", "lock", "write", "unlock",
                                   "cancel", "join", "free", "ended"}]
      /\ i \in 0 .. THREAD_COUNT
  BY DEF PrinterIInv, PrinterTypeOK
<1>1. /\ CreatorSteps \in Nat
      /\ \A t \in Thread : ThreadSteps(t) \in Nat
  BY PrinterStepsAreCounted DEF PrinterStepCounts
<1>2. CASE Printers!Create /\ i < THREAD_COUNT
  <2>1. PICK new \in Thread : new = i
    BY <1>0, <1>2, Callers
  <2>2. /\ at[new] = "unborn" /\ at'[new] = "malloc" /\ i' = i + 1
        /\ \A c \in Printers!Caller \ {new} : at'[c] = at[c]
        /\ at[Main] = "create"
    BY <1>0, <1>2, <2>1, Callers DEF Printers!Create, PrinterIInv, Joined
  <2>3. CreatorSteps' < CreatorSteps /\ CreatorSteps' <= CreatorSteps
    BY <1>0, <2>1, <2>2, Callers, CreatorStepTable DEF CreatorSteps
  <2>4. ThreadSteps(new)' <= ThreadSteps(new)
    BY <2>2, ThreadStepTable DEF ThreadSteps
  <2>5. ASSUME NEW t \in Thread, t # new PROVE ThreadSteps(t)' <= ThreadSteps(t)
    <3>1. ThreadSteps(t)' = ThreadSteps(t)
      BY <2>2, <2>5, Callers DEF ThreadSteps
    <3> QED
      BY <1>1, <3>1
  <2> QED
    BY <2>3, <2>4, <2>5 DEF PrinterStepSpent
<1>3. CASE ~(Printers!Create /\ i < THREAD_COUNT)
  <2>1. /\ \A t \in Thread : at'[t] = at[t]
        /\ \/ at[Main] = "create" /\ i = THREAD_COUNT /\ at'[Main] = "lock" /\ i' = 0
           \/ at[Main] = "lock" /\ at'[Main] = "write" /\ i' = i
           \/ at[Main] = "write" /\ at'[Main] = "unlock" /\ i' = i
           \/ at[Main] = "unlock" /\ i = 0 /\ at'[Main] = "cancel" /\ i' = i
           \/ at[Main] = "unlock" /\ i # 0 /\ at'[Main] = "free" /\ i' = i
           \/ at[Main] = "cancel" /\ at'[Main] = "join" /\ i' = i
           \/ at[Main] = "join" /\ i < THREAD_COUNT /\ i' = i + 1
                /\ at'[Main] = IF i + 1 < THREAD_COUNT THEN "cancel" ELSE "lock"
           \/ at[Main] = "free" /\ at'[Main] = "ended" /\ i' = i
    BY <1>0, <1>3, Callers
       DEF Printers!MainStep, Printers!Create, Printers!Output, Printers!Lock, Printers!Write,
           Printers!Unlock, Printers!Cancel, Printers!Join, Printers!Free, Printers!Goes,
           PrinterIInv, Joined
  <2>2. CreatorSteps' < CreatorSteps /\ CreatorSteps' <= CreatorSteps
    BY <1>0, <2>1, Callers, CreatorStepTable DEF CreatorSteps
  <2>3. ASSUME NEW t \in Thread PROVE ThreadSteps(t)' <= ThreadSteps(t)
    <3>1. ThreadSteps(t)' = ThreadSteps(t)
      BY <2>1 DEF ThreadSteps
    <3> QED
      BY <1>1, <3>1
  <2> QED
    BY <2>2, <2>3 DEF PrinterStepSpent
<1> QED
  BY <1>2, <1>3

(* The steps that main and every thread have left run out.                  *)
THEOREM PrinterStepsRunOut ==
  Printers!SafeSpec => []PrinterStepCounts /\ [][PrinterStepSpent]_(Printers!vars)
<1>1. PrinterIInv /\ [Printers!Next]_(Printers!vars) => [PrinterStepSpent]_(Printers!vars)
  BY ThreadSpends, CreatorSpends, Callers DEF Printers!Next
<1>2. PrinterIInv => PrinterStepCounts
  BY PrinterStepsAreCounted
<1> HIDE DEF PrinterStepCounts, PrinterStepSpent
<1> QED
  BY <1>1, <1>2, PrinterInvariantHolds, PTL DEF Printers!SafeSpec
=============================================================================
