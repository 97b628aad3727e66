---------------------------- MODULE ProcessProofs ----------------------------
(***************************************************************************)
(* Proofs about the exam, for any number of students and any numbers, and  *)
(* about the signals.                                                      *)
(***************************************************************************)
EXTENDS ExamProperties, SignalTable, WellFoundedInduction, TLAPS

-----------------------------------------------------------------------------
(* Induction.  The provers cannot apply a theorem to a predicate they are   *)
(* given as an operator, but to a set: the set where the predicate holds.   *)

(* Induction over the natural numbers, for a set instead of a predicate. *)
LEMMA SetInduction ==
  ASSUME NEW S, 0 \in S, \A n \in Nat : n \in S => n + 1 \in S
  PROVE  \A n \in Nat : n \in S
<1> DEFINE T == Nat \ S
<1>1. SUFFICES ASSUME T # {} PROVE FALSE
  OBVIOUS
<1>2. PICK x \in T : \A y \in T : <<y, x>> \notin OpToRel(<, Nat)
  <2>1. T \subseteq Nat
    OBVIOUS
  <2> HIDE DEF T
  <2> QED
    BY <1>1, <2>1, NatLessThanWellFounded, WFMin
<1>3. x \in Nat \ {0} /\ x - 1 \in Nat
  OBVIOUS
<1>4. <<x - 1, x>> \in OpToRel(<, Nat)
  BY <1>3 DEF OpToRel
<1>5. x - 1 \in S
  BY <1>2, <1>3, <1>4
<1> QED
  BY <1>3, <1>5

(* Two functions agree if they do so at 0 and from each argument to the next. *)
LEMMA Agree ==
  ASSUME NEW N \in Nat, NEW f, NEW g, f[0] = g[0],
         \A n \in 1 .. N : f[n - 1] = g[n - 1] => f[n] = g[n]
  PROVE  \A n \in 0 .. N : f[n] = g[n]
<1> DEFINE S == {n \in Nat : n <= N => f[n] = g[n]}
<1>1. 0 \in S
  OBVIOUS
<1>2. ASSUME NEW n \in Nat, n \in S PROVE n + 1 \in S
  <2> SUFFICES ASSUME n + 1 <= N PROVE f[n + 1] = g[n + 1]
    OBVIOUS
  <2>1. n + 1 \in 1 .. N /\ (n + 1) - 1 = n /\ f[n] = g[n]
    BY <1>2
  <2> QED
    BY <2>1
<1> HIDE DEF S
<1>3. \A n \in Nat : n \in S
  BY <1>1, <1>2, SetInduction
<1> QED
  BY <1>3 DEF S

-----------------------------------------------------------------------------
(* The three methods *)

Capacity == 2 ^ Width * 2 ^ Width

\* Numbers whose product is an answer.
Tasks == {t \in [number1 : Nat, number2 : Nat] : t.number1 * t.number2 < Capacity}

LEMMA Capacities == Capacity \in Nat \ {0} /\ \A n \in 0 .. Capacity - 1 : uint64(n) = n
<1> DEFINE M == 2 ^ Width
<1>1. M \in Int /\ M > 0
  BY ExamAssumption
<1> HIDE DEF M
<1>2. M * M \in Nat \ {0} /\ \A n \in 0 .. M * M - 1 : n % (M * M) = n
  <2>1. M * M \in Nat \ {0}
    BY <1>1
  <2> DEFINE C == M * M
  <2> HIDE DEF C
  <2>2. C \in Nat \ {0} => \A n \in 0 .. C - 1 : n % C = n
    OBVIOUS
  <2> QED
    BY <2>1, <2>2 DEF C
<1> QED
  BY <1>2 DEF Capacity, uint64, M

LEMMA Multiples ==
  ASSUME NEW t \in Tasks, NEW n \in 0 .. t.number1
  PROVE  /\ n * t.number2 \in 0 .. Capacity - 1 /\ uint64(n * t.number2) = n * t.number2
         /\ n # 0 => n * t.number2 = (n - 1) * t.number2 + t.number2
<1> DEFINE N == t.number1
           k == t.number2
<1>1. N \in Nat /\ k \in Nat /\ N * k < Capacity /\ n \in Nat /\ n <= N
  BY DEF Tasks
<1> HIDE DEF N, k
<1>2. n * k <= N * k /\ n * k \in Nat /\ N * k \in Nat /\ n * k = (n - 1) * k + k
  BY <1>1
<1>3. n * k \in 0 .. Capacity - 1
  BY <1>1, <1>2, Capacities
<1> QED
  BY <1>2, <1>3, Capacities DEF N, k

LEMMA SolutionA == \A t \in Tasks : solution_a(t) = t.number1 * t.number2
<1> SUFFICES ASSUME NEW t \in Tasks PROVE solution_a(t) = t.number1 * t.number2
  OBVIOUS
<1>1. t.number1 \in 0 .. t.number1
  BY DEF Tasks
<1> QED
  BY <1>1, Multiples DEF solution_a

LEMMA SolutionB == \A t \in Tasks : solution_b(t) = t.number1 * t.number2
<1> SUFFICES ASSUME NEW t \in Tasks PROVE solution_b(t) = t.number1 * t.number2
  OBVIOUS
<1> DEFINE N == t.number1
           k == t.number2
           Sums(f) == [n \in 0 .. N |-> IF n = 0 THEN 0 ELSE uint64(f[n - 1] + k)]
           sum == CHOOSE f : f = Sums(f)
           product == [n \in 0 .. N |-> n * k]
<1>1. N \in Nat /\ k \in Nat
  BY DEF Tasks
<1>2. \A n \in 0 .. N : uint64(n * k) = n * k /\ (n # 0 => n * k = (n - 1) * k + k)
  BY Multiples
<1>3. product = Sums(product)
  <2>1. ASSUME NEW n \in 0 .. N
        PROVE  n * k = IF n = 0 THEN 0 ELSE uint64(product[n - 1] + k)
    BY <1>1, <1>2
  <2> QED
    BY <2>1
<1>4. sum = Sums(sum)
  <2> HIDE DEF product, Sums
  <2> QED
    BY <1>3
<1> HIDE DEF sum
<1>5. \A n \in 0 .. N : sum[n] = product[n]
  <2>1. sum[0] = product[0]
    BY <1>1, <1>4
  <2>2. ASSUME NEW n \in 1 .. N, sum[n - 1] = product[n - 1] PROVE sum[n] = product[n]
    <3>1. sum[n] = uint64(sum[n - 1] + k)
      BY <1>1, <1>4
    <3>2. product[n - 1] = (n - 1) * k /\ product[n] = n * k
      BY <1>1
    <3> QED
      BY <1>1, <1>2, <2>2, <3>1, <3>2
  <2> HIDE DEF product
  <2> QED
    BY <1>1, <2>1, <2>2, Agree
<1>6. solution_b(t) = sum[N]
  BY DEF solution_b, sum
<1>7. N \in 0 .. N /\ product[N] = N * k
  BY <1>1
<1> QED
  BY <1>5, <1>6, <1>7

LEMMA CountedAdds ==
  ASSUME NEW from \in Nat, NEW times \in Nat, from + times < Capacity
  PROVE  Counted(from, times) = from + times
<1> DEFINE Counts(f) == [n \in 0 .. times |-> IF n = 0 THEN from ELSE uint64(f[n - 1] + 1)]
           count == CHOOSE f : f = Counts(f)
           plus == [n \in 0 .. times |-> from + n]
<1>2. \A n \in 0 .. times : uint64(from + n) = from + n
  BY Capacities
<1>3. plus = Counts(plus)
  <2>1. ASSUME NEW n \in 0 .. times
        PROVE  from + n = IF n = 0 THEN from ELSE uint64(plus[n - 1] + 1)
    BY <1>2
  <2> QED
    BY <2>1
<1>4. count = Counts(count)
  <2> HIDE DEF plus, Counts
  <2> QED
    BY <1>3
<1> HIDE DEF count
<1>5. \A n \in 0 .. times : count[n] = plus[n]
  <2>1. count[0] = plus[0]
    BY <1>4
  <2>2. ASSUME NEW n \in 1 .. times, count[n - 1] = plus[n - 1] PROVE count[n] = plus[n]
    <3>1. count[n] = uint64(count[n - 1] + 1)
      BY <1>4
    <3>2. plus[n - 1] = from + (n - 1) /\ plus[n] = from + n
      OBVIOUS
    <3> QED
      BY <1>2, <2>2, <3>1, <3>2
  <2> HIDE DEF plus
  <2> QED
    BY <2>1, <2>2, Agree
<1>6. Counted(from, times) = count[times]
  BY DEF Counted, count
<1> QED
  BY <1>5, <1>6

LEMMA SolutionC == \A t \in Tasks : solution_c(t) = t.number1 * t.number2
<1> SUFFICES ASSUME NEW t \in Tasks PROVE solution_c(t) = t.number1 * t.number2
  OBVIOUS
<1> DEFINE N == t.number1
           k == t.number2
           Rows(f) == [n \in 0 .. N |-> IF n = 0 THEN 0 ELSE Counted(f[n - 1], k)]
           rows == CHOOSE f : f = Rows(f)
           product == [n \in 0 .. N |-> n * k]
<1>1. N \in Nat /\ k \in Nat
  BY DEF Tasks
<1>2. \A n \in 1 .. N : Counted((n - 1) * k, k) = n * k
  <2> SUFFICES ASSUME NEW n \in 1 .. N PROVE Counted((n - 1) * k, k) = n * k
    OBVIOUS
  <2>1. n \in 0 .. N /\ n # 0 /\ n - 1 \in 0 .. N
    BY <1>1
  <2>2. /\ (n - 1) * k \in 0 .. Capacity - 1
        /\ n * k \in 0 .. Capacity - 1 /\ n * k = (n - 1) * k + k
    BY <2>1, Multiples
  <2>3. Counted((n - 1) * k, k) = (n - 1) * k + k
    BY <1>1, <2>2, CountedAdds, Capacities
  <2> QED
    BY <2>2, <2>3
<1>3. product = Rows(product)
  <2>1. ASSUME NEW n \in 0 .. N
        PROVE  n * k = IF n = 0 THEN 0 ELSE Counted(product[n - 1], k)
    BY <1>1, <1>2
  <2> QED
    BY <2>1
<1>4. rows = Rows(rows)
  <2> HIDE DEF product, Rows
  <2> QED
    BY <1>3
<1> HIDE DEF rows
<1>5. \A n \in 0 .. N : rows[n] = product[n]
  <2>1. rows[0] = product[0]
    BY <1>1, <1>4
  <2>2. ASSUME NEW n \in 1 .. N, rows[n - 1] = product[n - 1] PROVE rows[n] = product[n]
    <3>1. rows[n] = Counted(rows[n - 1], k)
      BY <1>1, <1>4
    <3>2. product[n - 1] = (n - 1) * k /\ product[n] = n * k
      BY <1>1
    <3> QED
      BY <1>2, <2>2, <3>1, <3>2
  <2> HIDE DEF product
  <2> QED
    BY <1>1, <2>1, <2>2, Agree
<1>6. solution_c(t) = rows[N]
  BY DEF solution_c, rows
<1>7. N \in 0 .. N /\ product[N] = N * k
  BY <1>1
<1> QED
  BY <1>5, <1>6, <1>7

(* The three methods multiply. *)
LEMMA SolutionsAgree ==
  ASSUME NEW t \in Tasks, NEW method \in 1 .. 3
  PROVE  Solution(method, t) = t.number1 * t.number2
BY SolutionA, SolutionB, SolutionC DEF Solution

-----------------------------------------------------------------------------
(* The invariant of the exam *)

MainPlace == {"professor", "wait_professor", "tutors", "wait_tutors", "students", "sleep",
              "terminate", "reap", "ended", "aborted"}
Place == {"unborn", "number1", "number2", "copy", "answer", "exec", "setup", "calculating",
          "print", "exited", "reaped"}
TaskType == [number1 : Nat, number2 : Nat]

(* Every variable holds a value of its type. *)
TypeOK ==
  /\ main_pc \in MainPlace /\ i \in Nat
  /\ pc \in [Process -> Place]
  /\ task \in TaskType /\ answer \in Nat
  /\ own_task \in [Tutor \union Student -> TaskType]
  /\ result \in [Student -> Int]
  /\ sigterm \subseteq Student

\* The child that the organizer's loop is at is one the loop is about.
Loop ==
  /\ main_pc \in {"professor", "wait_professor"} => i = Professor
  /\ main_pc \in {"tutors", "wait_tutors"} => i \in Tutor
  /\ main_pc \in {"students", "terminate"} => i \in Student

\* Until the professor is reaped there is no other child.
Alone ==
  pc[Professor] # "reaped" =>
    /\ main_pc \in {"professor", "wait_professor", "aborted"}
    /\ \A p \in Tutor \union Student : pc[p] = "unborn"
    /\ \A s \in Student : result[s] = None

\* What the professor has done of its work.
Professing ==
  /\ pc[Professor] \in {"unborn", "number1", "number2", "answer", "exited", "reaped"}
  /\ pc[Professor] \in {"number2", "answer", "exited", "reaped"} => task.number1 \in Number
  /\ pc[Professor] \in {"answer", "exited", "reaped"} => task.number2 \in Number
  /\ pc[Professor] \in {"exited", "reaped"} => answer = task.number1 * task.number2

\* Whoever calculates an answer, or has, has the professor's task.
SameTask ==
  /\ \A t \in Tutor : pc[t] = "answer" => own_task[t] = task
  /\ \A s \in Student : /\ pc[s] # "unborn" => own_task[s] = task
                        /\ result[s] \in {None, answer}

IInv == TypeOK /\ Loop /\ Alone /\ Professing /\ SameTask

LEMMA Children ==
  /\ Number \subseteq Nat /\ student_number \in Nat
  /\ Professor \in Process /\ Professor \notin Tutor \union Student
  /\ \A t \in Tutor : t \in Process /\ t \notin Student
  /\ \A s \in Student : s \in Process /\ s \notin Tutor
  /\ \A p \in Process : p = Professor \/ p \in Tutor \/ p \in Student
BY ExamAssumption DEF Number, Process, Professor, Tutor, Student

(* The numbers the professor may choose make a task. *)
LEMMA NumbersMakeTasks ==
  ASSUME NEW t \in TaskType, t.number1 \in Number, t.number2 \in Number
  PROVE  t \in Tasks
<1> DEFINE M == 2 ^ Width
           a == t.number1
           b == t.number2
<1>1. M \in Int /\ a \in Nat /\ b \in Nat /\ a < M /\ b < M
  BY ExamAssumption, Children DEF Number
<1> HIDE DEF M, a, b
<1>2. a * b <= a * (M - 1) /\ a * (M - 1) <= (M - 1) * (M - 1) /\ (M - 1) * (M - 1) < M * M
  BY <1>1
<1>3. a * b < M * M
  BY <1>1, <1>2
<1> QED
  BY <1>3 DEF a, b, M, Tasks, TaskType, Capacity

LEMMA InitEstablishes == Init => IInv
<1> SUFFICES ASSUME Init PROVE IInv
  OBVIOUS
<1>1. TypeOK
  BY Children DEF Init, TypeOK, MainPlace, Place, TaskType, NoTask, None, Professor
<1> QED
  BY <1>1, Children DEF Init, IInv, Loop, Alone, Professing, SameTask
(* A step of the organizer that changes at most the pc of one child. *)
LEMMA ChildGoes ==
  ASSUME IInv, Loop', main_pc' \in MainPlace, i' \in Nat, sigterm' \subseteq Student,
         pc[Professor] = "reaped",
         \/ pc' = pc
         \/ \E p \in Process : pc[p] = "exited" /\ pc' = [pc EXCEPT ![p] = "reaped"]
         \/ \E t \in Tutor : pc' = [pc EXCEPT ![t] = "copy"],
         UNCHANGED <<task, answer, own_task, result>>
  PROVE  IInv'
<1> USE Children
<1>1. /\ pc' \in [Process -> Place] /\ pc'[Professor] = "reaped"
      /\ \A s \in Student : pc'[s] # "unborn" => pc[s] # "unborn"
      /\ \A t \in Tutor : pc'[t] = "answer" => pc[t] = "answer"
  BY DEF IInv, TypeOK, Place
<1>2. TypeOK'
  BY <1>1 DEF IInv, TypeOK
<1>3. Alone' /\ Professing'
  BY <1>1 DEF IInv, Alone, Professing
<1>4. SameTask'
  BY <1>1 DEF IInv, SameTask
<1> QED
  BY <1>2, <1>3, <1>4 DEF IInv

(* The organizer's steps. *)
LEMMA OrganizerPreserves ==
  ASSUME IInv, MainStep
  PROVE  IInv'
<1>0. main_pc \notin {"professor", "wait_professor", "aborted"} => pc[Professor] = "reaped"
  BY DEF IInv, Alone
<1> USE Children DEF MainPlace, MainGoes, Goes, AfterChild, memory, exam
<1>1. CASE CloneProfessor
  BY <1>1 DEF CloneProfessor, Professor, IInv, TypeOK, Loop, Alone, Professing, SameTask, Place
<1>2. CASE WaitFor(i)
  <2>1. /\ pc[i] = "exited" /\ pc' = [pc EXCEPT ![i] = "reaped"]
        /\ UNCHANGED <<task, answer, own_task, result, sigterm>>
    BY <1>2 DEF WaitFor
  <2>2. CASE i = Professor
    <3>1. main_pc = "wait_professor" /\ main_pc' = "tutors" /\ i' \in Tutor /\ i' \in Nat
      BY <1>2, <2>2 DEF WaitFor, Tutor
    <3>2. /\ pc' \in [Process -> Place] /\ pc'[Professor] = "reaped"
          /\ \A p \in Tutor \union Student : pc'[p] = pc[p]
      BY <2>1, <2>2 DEF IInv, TypeOK, Place
    <3>3. TypeOK' /\ Loop' /\ Alone'
      BY <2>1, <3>1, <3>2 DEF IInv, TypeOK, Loop, Alone
    <3>4. Professing' /\ SameTask'
      BY <2>1, <2>2, <3>2 DEF IInv, Professing, SameTask
    <3> QED
      BY <3>3, <3>4 DEF IInv
  <2>3. CASE i # Professor
    <3>1. main_pc = "wait_tutors" /\ i \in 1 .. 3
      BY <1>2, <2>3 DEF WaitFor, IInv, Loop, Tutor
    <3>2. CASE i < 3
      <4>1. main_pc' = "wait_tutors" /\ i' = i + 1 /\ i' \in Nat /\ i' \in Tutor
        BY <1>2, <2>3, <3>1, <3>2 DEF WaitFor, Tutor
      <4>2. Loop' /\ sigterm' \subseteq Student
        BY <2>1, <4>1 DEF Loop, IInv, TypeOK
      <4> QED
        BY <1>0, <2>1, <3>1, <4>1, <4>2, ChildGoes DEF Tutor, Process
    <3>3. CASE i = 3
      <4>1. /\ main_pc' = IF student_number = 0 THEN "sleep" ELSE "students"
            /\ i' = 4 /\ i' \in Nat
        BY <1>2, <2>3, <3>1, <3>3 DEF WaitFor
      <4>2. Loop' /\ sigterm' \subseteq Student
        BY <2>1, <4>1 DEF Loop, Student, IInv, TypeOK
      <4> QED
        BY <1>0, <2>1, <3>1, <4>1, <4>2, ChildGoes DEF Tutor, Process
    <3> QED
      BY <3>1, <3>2, <3>3
  <2> QED
    BY <2>2, <2>3
<1>3. CASE CloneTutor
  <2>1. /\ main_pc = "tutors" /\ i \in Tutor /\ pc' \in {pc, [pc EXCEPT ![i] = "copy"]}
        /\ UNCHANGED <<task, answer, own_task, result, sigterm>>
    BY <1>3 DEF CloneTutor, IInv, Loop
  <2>2. main_pc' \in {"tutors", "wait_tutors", "aborted"} /\ i' \in Tutor /\ i' \in Nat
    BY <1>3, <2>1 DEF CloneTutor, Tutor
  <2>3. Loop' /\ sigterm' \subseteq Student
    BY <2>1, <2>2 DEF Loop, IInv, TypeOK
  <2> QED
    BY <1>0, <2>1, <2>2, <2>3, ChildGoes
<1>4. CASE ForkStudent
  <2>1. /\ main_pc = "students" /\ i \in Student /\ pc' = [pc EXCEPT ![i] = "exec"]
        /\ own_task' = [own_task EXCEPT ![i] = task]
        /\ UNCHANGED <<task, answer, result, sigterm>>
    BY <1>4 DEF ForkStudent, IInv, Loop
  <2>2. main_pc' \in {"students", "sleep"} /\ i' \in Nat /\ (main_pc' = "students" => i' \in Student)
    BY <1>4, <2>1 DEF ForkStudent, Student
  <2>3. /\ pc' \in [Process -> Place] /\ pc'[Professor] = "reaped"
        /\ own_task' \in [Tutor \union Student -> TaskType] /\ own_task'[i] = task
        /\ \A p \in (Tutor \union Student) \ {i} : pc'[p] = pc[p] /\ own_task'[p] = own_task[p]
    BY <1>0, <2>1 DEF IInv, TypeOK, Place
  <2>4. TypeOK' /\ Loop' /\ Alone' /\ Professing'
    BY <1>0, <2>1, <2>2, <2>3 DEF IInv, TypeOK, Loop, Alone, Professing
  <2>5. SameTask'
    BY <2>1, <2>3 DEF IInv, SameTask
  <2> QED
    BY <2>4, <2>5 DEF IInv
<1>5. CASE Sleep \/ Terminate \/ Reap \/ Finish
  <2>1. /\ main_pc \in {"sleep", "terminate", "reap"}
        /\ main_pc' \in {"terminate", "reap", "ended"} /\ i' \in Nat
        /\ main_pc' = "terminate" => i' \in Student
        /\ sigterm' \subseteq Student
        /\ \/ pc' = pc
           \/ \E p \in Process : pc[p] = "exited" /\ pc' = [pc EXCEPT ![p] = "reaped"]
        /\ UNCHANGED <<task, answer, own_task, result>>
    <3>1. CASE Sleep
      BY <3>1 DEF Sleep, Student, IInv, TypeOK
    <3>2. CASE Finish
      BY <3>2 DEF Finish, IInv, TypeOK
    <3>3. CASE Reap
      BY <3>3 DEF Reap, IInv, TypeOK
    <3>4. CASE Terminate
      <4>1. main_pc = "terminate" /\ i \in Student /\ i \in Nat
        BY <3>4 DEF Terminate, IInv, TypeOK, Loop
      <4>2. CASE i < 3 + student_number
        BY <3>4, <4>1, <4>2 DEF Terminate, Student, IInv, TypeOK
      <4>3. CASE ~(i < 3 + student_number)
        BY <3>4, <4>1, <4>3 DEF Terminate, IInv, TypeOK
      <4> QED
        BY <4>2, <4>3
    <3> QED
      BY <1>5, <3>1, <3>2, <3>3, <3>4
  <2>2. Loop'
    BY <2>1 DEF Loop
  <2> QED
    BY <1>0, <2>1, <2>2, ChildGoes
<1> QED
  BY <1>1, <1>2, <1>3, <1>4, <1>5 DEF MainStep

(* Those of the professor and the tutors. *)
LEMMA TeachersPreserve ==
  ASSUME IInv, ProfessorStep \/ \E t \in Tutor : TutorStep(t)
  PROVE  IInv'
<1> USE Children DEF IInv, TypeOK, Loop, Alone, Professing, SameTask, MainPlace, Place, TaskType,
        Goes, memory, exam
<1>1. CASE SetNumber("number1", "number2")
  BY <1>1 DEF SetNumber
<1>2. CASE SetNumber("number2", "answer")
  BY <1>2 DEF SetNumber
<1>3. CASE ProfessorAnswers
  <2>1. task \in Tasks
    BY <1>3, NumbersMakeTasks DEF ProfessorAnswers
  <2>2. answer' = task.number1 * task.number2 /\ answer' \in Nat
    BY <1>3, <2>1, SolutionA DEF ProfessorAnswers
  <2> QED
    BY <1>3, <2>2 DEF ProfessorAnswers
<1>4. ASSUME NEW t \in Tutor, CopyTask(t) PROVE IInv'
  BY <1>4 DEF CopyTask
<1>5. ASSUME NEW t \in Tutor, TutorAnswers(t) PROVE IInv'
  <2>1. pc[Professor] = "reaped" /\ own_task[t] = task
    BY <1>5 DEF TutorAnswers
  <2>2. task \in Tasks
    BY <2>1, NumbersMakeTasks
  <2>3. answer' = answer
    BY <1>5, <2>1, <2>2, SolutionsAgree DEF TutorAnswers, Tutor
  <2> QED
    BY <1>5, <2>3 DEF TutorAnswers
<1> QED
  BY <1>1, <1>2, <1>3, <1>4, <1>5 DEF ProfessorStep, TutorStep

(* Those of the students, and the end of the organizer. *)
LEMMA StudentsPreserve ==
  ASSUME IInv, \E s \in Student : StudentStep(s) \/ Calculate(s) \/ TakeSigterm(s)
  PROVE  IInv'
<1> USE Children DEF IInv, TypeOK, Loop, Alone, Professing, SameTask, MainPlace, Place, TaskType,
        Goes, memory, exam
<1>1. ASSUME NEW s \in Student, StudentStep(s) \/ TakeSigterm(s) PROVE IInv'
  <2>1. /\ pc[s] # "unborn"
        /\ \E to \in Place \ {"unborn"} : pc' = [pc EXCEPT ![s] = to]
        /\ sigterm' \subseteq sigterm
        /\ UNCHANGED <<main_pc, i, task, answer, own_task, result>>
    BY <1>1 DEF StudentStep, TakeSigterm, Exec, InstallHandler, PrintResult
  <2> QED
    BY <2>1
<1>2. ASSUME NEW s \in Student, Calculate(s) PROVE IInv'
  <2>1. pc[Professor] = "reaped" /\ own_task[s] = task
    BY <1>2 DEF Calculate
  <2>2. task \in Tasks
    BY <2>1, NumbersMakeTasks
  <2>3. result' = [result EXCEPT ![s] = answer]
    BY <1>2, <2>1, <2>2, SolutionsAgree DEF Calculate
  <2> QED
    BY <1>2, <2>1, <2>3 DEF Calculate
<1> QED
  BY <1>1, <1>2

LEMMA NextPreserves == IInv /\ [Next]_vars => IInv'
<1> SUFFICES ASSUME IInv, [Next]_vars PROVE IInv'
  OBVIOUS
<1>1. CASE Abort
  BY <1>1 DEF IInv, TypeOK, Loop, Alone, Professing, SameTask, MainPlace, Abort, MainGoes,
              memory, exam
<1>2. CASE UNCHANGED vars
  BY <1>2 DEF vars, memory, exam, IInv, TypeOK, Loop, Alone, Professing, SameTask
<1> QED
  BY <1>1, <1>2, OrganizerPreserves, TeachersPreserve, StudentsPreserve DEF Next

THEOREM InvariantHolds == SafeSpec => []IInv
BY InitEstablishes, NextPreserves, PTL DEF SafeSpec

(* For any number of students and any numbers that fit: once the professor  *)
(* has been waited for, the answer is the product, in full, and so are the  *)
(* results of all students, whichever of the three loops calculated them.   *)
THEOREM AnswerAlwaysStands == SafeSpec => []AnswerStands
<1>1. IInv => AnswerStands
  BY DEF IInv, TypeOK, Alone, Professing, SameTask, AnswerStands, MainPlace
<1> QED
  BY <1>1, InvariantHolds, PTL

(* From then on nobody writes the numbers, and what is written into the     *)
(* answer is what was there.                                                *)
THEOREM AnswerNeverChanges ==
  SafeSpec => [][pc[Professor] = "reaped" => UNCHANGED <<task, answer>>]_vars
<1>1. /\ IInv /\ IInv' /\ [Next]_vars
      => [pc[Professor] = "reaped" => UNCHANGED <<task, answer>>]_vars
  <2> SUFFICES ASSUME IInv, IInv', Next, pc[Professor] = "reaped"
               PROVE  task' = task /\ answer' = answer
    OBVIOUS
  <2>1. task' = task
    BY DEF Next, MainStep, CloneProfessor, WaitFor, CloneTutor, ForkStudent, Sleep, Terminate,
           Reap, Finish, Abort, ProfessorStep, SetNumber, ProfessorAnswers, TutorStep, CopyTask,
           TutorAnswers, StudentStep, Exec, InstallHandler, PrintResult, Calculate, TakeSigterm,
           Goes, memory, exam
  <2>2. pc'[Professor] = "reaped"
    BY Children DEF Next, MainStep, CloneProfessor, WaitFor, CloneTutor, ForkStudent, Sleep,
           Terminate, Reap, Finish, Abort, ProfessorStep, SetNumber, ProfessorAnswers, TutorStep,
           CopyTask, TutorAnswers, StudentStep, Exec, InstallHandler, PrintResult, Calculate,
           TakeSigterm, Goes, memory, exam, IInv, TypeOK, Loop, MainGoes
  <2>3. answer = task.number1 * task.number2 /\ answer' = task'.number1 * task'.number2
    BY <2>2 DEF IInv, Professing
  <2> QED
    BY <2>1, <2>3
<1> QED
  BY <1>1, InvariantHolds, PTL DEF SafeSpec

-----------------------------------------------------------------------------
(* Who is left when the organizer ends *)

\* The organizer has waited for a tutor before it goes on, a student it has not
\* reaped is in its vector, and it looks at its vector when all are forked.
Waiting ==
  /\ \A s \in Student : pc[s] \notin {"unborn", "reaped"} => s \in students
  /\ main_pc = "wait_tutors" =>
       \A t \in Tutor : pc[t] # "unborn" /\ (t < i => pc[t] = "reaped")
  /\ main_pc \in {"students", "sleep", "terminate", "reap", "ended"} =>
       \A t \in Tutor : pc[t] = "reaped"
  /\ main_pc = "students" => \A s \in Student : s < i => pc[s] # "unborn"
  /\ main_pc \in {"sleep", "terminate", "reap", "ended"} =>
       \A s \in Student : pc[s] # "unborn"
  /\ main_pc = "ended" => \A s \in Student : pc[s] = "reaped"

LEMMA WaitingAtFirst == Init => Waiting
BY Children DEF Init, Waiting

LEMMA WaitingPreserved == IInv /\ Waiting /\ [Next]_vars => Waiting'
<1> SUFFICES ASSUME IInv, Waiting, [Next]_vars PROVE Waiting'
  OBVIOUS
<1>0. pc \in [Process -> Place] /\ i \in Nat /\ Loop /\ main_pc \in MainPlace
  BY DEF IInv, TypeOK
<1> USE Children DEF Waiting, MainGoes, Goes, AfterChild, memory, exam, MainPlace, Loop
<1>1. CASE CloneProfessor \/ Abort \/ UNCHANGED vars
  BY <1>0, <1>1 DEF CloneProfessor, Abort, vars
<1>2. CASE WaitFor(i)
  <2>1. pc[i] = "exited" /\ pc' = [pc EXCEPT ![i] = "reaped"] /\ students' = students
    BY <1>2 DEF WaitFor
  <2>2. CASE i = Professor
    BY <1>0, <1>2, <2>1, <2>2 DEF WaitFor
  <2>3. CASE i # Professor
    <3>1. main_pc = "wait_tutors" /\ i \in 1 .. 3 /\ i \in Tutor
      BY <1>0, <1>2, <2>3 DEF WaitFor, Tutor
    <3>2. CASE i < 3
      BY <1>0, <1>2, <2>1, <2>3, <3>1, <3>2 DEF WaitFor, Tutor
    <3>3. CASE i = 3
      <4>1. \A t \in Tutor : pc'[t] = "reaped"
        BY <1>0, <2>1, <3>1, <3>3 DEF Tutor
      <4>2. /\ main_pc' = IF student_number = 0 THEN "sleep" ELSE "students"
            /\ i' = 4
        BY <1>2, <2>3, <3>1, <3>3 DEF WaitFor
      <4> QED
        BY <1>0, <2>1, <3>1, <4>1, <4>2 DEF Student
    <3> QED
      BY <3>1, <3>2, <3>3
  <2> QED
    BY <2>2, <2>3
<1>3. CASE CloneTutor
  <2>1. /\ i \in Tutor /\ pc' \in {pc, [pc EXCEPT ![i] = "copy"]} /\ students' = students
        /\ \A s \in Student : pc'[s] = pc[s]
    BY <1>0, <1>3 DEF CloneTutor
  <2>2. CASE i < 3
    BY <1>3, <2>1, <2>2 DEF CloneTutor
  <2>3. CASE ~(i < 3)
    <3>1. /\ main_pc' = (IF \A t \in Tutor : pc'[t] # "unborn" THEN "wait_tutors" ELSE "aborted")
          /\ i' = 1
      BY <1>3, <2>3 DEF CloneTutor
    <3> QED
      BY <2>1, <3>1 DEF Tutor
  <2> QED
    BY <2>2, <2>3
<1>4. CASE ForkStudent
  <2>1. /\ main_pc = "students" /\ i \in Student /\ pc' = [pc EXCEPT ![i] = "exec"]
        /\ students' = students \union {i}
    BY <1>0, <1>4 DEF ForkStudent
  <2>2. CASE i < 3 + student_number
    BY <1>0, <1>4, <2>1, <2>2 DEF ForkStudent, Student
  <2>3. CASE ~(i < 3 + student_number)
    <3>1. main_pc' = "sleep" /\ \A s \in Student : s < i \/ s = i
      BY <1>4, <2>1, <2>3 DEF ForkStudent, Student
    <3> QED
      BY <1>0, <2>1, <3>1
  <2> QED
    BY <2>2, <2>3
<1>5. CASE Sleep \/ Terminate
  BY <1>0, <1>5 DEF Sleep, Terminate
<1>6. CASE Reap
  <2>1. CASE \E p \in Process : /\ Goes(p, "exited", "reaped") /\ main_pc' = "reap"
                                /\ students' = students \ {p}
    <3>1. PICK p \in Process : /\ pc[p] = "exited" /\ pc' = [pc EXCEPT ![p] = "reaped"]
                             /\ main_pc' = "reap" /\ students' = students \ {p}
      BY <2>1 DEF Goes
    <3>2. \A c \in Process : pc[c] # "reaped" /\ c # p => pc'[c] = pc[c]
      BY <1>0, <3>1
    <3>3. \A c \in Process : pc[c] = "reaped" => pc'[c] = "reaped"
      BY <1>0, <3>1
    <3>4. pc'[p] = "reaped" /\ main_pc = "reap"
      BY <1>0, <1>6, <3>1 DEF Reap
    <3> QED
      BY <1>0, <3>1, <3>2, <3>3, <3>4
  <2>2. CASE pc' = pc /\ students' = students /\ \A p \in Process : ~Exists(p)
    BY <1>0, <1>6, <2>2 DEF Reap, Exists
  <2> QED
    BY <1>6, <2>1, <2>2 DEF Reap
<1>7. CASE Finish
  BY <1>0, <1>7 DEF Finish
<1>8. CASE ProfessorStep \/ \E t \in Tutor : TutorStep(t)
  BY <1>0, <1>8 DEF ProfessorStep, SetNumber, ProfessorAnswers, TutorStep, CopyTask, TutorAnswers
<1>9. CASE \E s \in Student : StudentStep(s) \/ Calculate(s) \/ TakeSigterm(s)
  BY <1>0, <1>9 DEF StudentStep, Exec, InstallHandler, PrintResult, Calculate, TakeSigterm
<1> QED
  BY <1>1, <1>2, <1>3, <1>4, <1>5, <1>6, <1>7, <1>8, <1>9 DEF Next, MainStep

(* When the organizer has ended every child it had has been reaped, in      *)
(* whatever order students ended, were ended and were waited for: the half  *)
(* of ExamEnds that is not about time.                                      *)
THEOREM EverybodyIsReaped ==
  SafeSpec => [](main_pc = "ended" => \A p \in Process : pc[p] = "reaped")
<1>1. IInv /\ Waiting => (main_pc = "ended" => \A p \in Process : pc[p] = "reaped")
  BY Children DEF IInv, Alone, Waiting
<1>2. SafeSpec => []Waiting
  BY InvariantHolds, WaitingAtFirst, WaitingPreserved, PTL DEF SafeSpec
<1> QED
  BY <1>1, <1>2, InvariantHolds, PTL

-----------------------------------------------------------------------------
(* Progress of the exam: what ExamEnds needs besides fairness.  Somebody    *)
(* can take a step, without waiting for a calculation to end, until the     *)
(* organizer has ended or aborted; and every step lowers a number that is   *)
(* never raised again.                                                      *)

\* Where a tutor and a student can be.
Roles ==
  /\ \A t \in Tutor : pc[t] \in {"unborn", "copy", "answer", "exited", "reaped"}
  /\ \A s \in Student : pc[s] \in {"unborn", "exec", "setup", "calculating", "print",
                                   "exited", "reaped"}

\* Whom the organizer has created and reaped, by the loop it is in.
Staffing ==
  /\ main_pc = "professor" => pc[Professor] = "unborn"
  /\ main_pc = "wait_professor" => pc[Professor] \notin {"unborn", "reaped"}
  /\ main_pc = "tutors" => \A t \in Tutor : pc[t] # "reaped" /\ (t >= i => pc[t] = "unborn")
  /\ main_pc = "wait_tutors" => \A t \in Tutor : t >= i => pc[t] # "reaped"
  /\ main_pc \in {"professor", "wait_professor", "tutors", "wait_tutors"} =>
       \A s \in Student : pc[s] = "unborn"
  /\ main_pc = "students" => \A s \in Student : s >= i => pc[s] = "unborn"

\* A student is over, or has a SIGTERM to take, once the organizer's loop has passed it.
Terminated ==
  \A s \in Student : (main_pc = "terminate" /\ s < i) \/ main_pc = "reap" =>
                       pc[s] \in {"exited", "reaped"} \/ s \in sigterm

\* When a process can take its next step, by itself: the guards of its actions,
\* for a student without Calculate.
OrganizerCanStep ==
  \/ main_pc = "professor" /\ pc[Professor] = "unborn"
  \/ main_pc \in {"wait_professor", "wait_tutors"} /\ pc[i] = "exited"
  \/ main_pc \in {"tutors", "sleep", "terminate"}
  \/ main_pc = "students" /\ pc[i] = "unborn"
  \/ main_pc = "reap" /\ \/ students = {}
                         \/ \E p \in Process : pc[p] = "exited"
                         \/ \A p \in Process : ~Exists(p)

ProfessorCanStep == pc[Professor] \in {"number1", "number2", "answer"}

TutorCanStep(t) == pc[t] \in {"copy", "answer"}

StudentCanStep(s) == \/ pc[s] \in {"exec", "setup", "print"}
                     \/ s \in sigterm /\ pc[s] \notin {"unborn", "exited", "reaped"}

SomebodyCanStep == \/ OrganizerCanStep \/ ProfessorCanStep
                   \/ \E t \in Tutor : TutorCanStep(t)
                   \/ \E s \in Student : StudentCanStep(s)

\* How many more steps there are with a child until it is reaped ...
ChildStepsFrom(place) ==
  CASE place = "unborn" -> 6
    [] place = "exec" -> 5
    [] place \in {"number1", "setup"} -> 4
    [] place \in {"number2", "copy", "calculating"} -> 3
    [] place \in {"answer", "print"} -> 2
    [] place = "exited" -> 1
    [] place = "reaped" -> 0

ChildSteps(p) == ChildStepsFrom(pc[p])

\* ... and how many the organizer takes besides the waits of its last loop.
OrganizerStepsFrom(place, child) ==
  CASE place = "professor" -> 2 * student_number + 10
    [] place = "wait_professor" -> 2 * student_number + 9
    [] place = "tutors" -> 2 * student_number + 9 - child
    [] place = "wait_tutors" -> 2 * student_number + 6 - child
    [] place = "students" -> 2 * student_number + 6 - child
    [] place = "sleep" -> student_number + 2
    [] place = "terminate" -> student_number + 5 - child
    [] place = "reap" -> 1
    [] place \in {"ended", "aborted"} -> 0

OrganizerSteps == OrganizerStepsFrom(main_pc, i)

ExamStepCounts == OrganizerSteps \in Nat /\ \A p \in Process : ChildSteps(p) \in Nat

\* A step after which there are fewer steps left with somebody and more with nobody.
ExamStepSpent ==
  /\ OrganizerSteps' <= OrganizerSteps
  /\ \A p \in Process : ChildSteps(p)' <= ChildSteps(p)
  /\ OrganizerSteps' < OrganizerSteps \/ \E p \in Process : ChildSteps(p)' < ChildSteps(p)

\* What the invariants above say that the lemmas of this section use.
ExamInvariants == IInv /\ Waiting

LEMMA ExamInvariantsHold == SafeSpec => []ExamInvariants
<1>1. SafeSpec => []Waiting
  BY InvariantHolds, WaitingAtFirst, WaitingPreserved, PTL DEF SafeSpec
<1> QED
  BY <1>1, InvariantHolds, PTL DEF ExamInvariants

LEMMA RolesAtFirst == Init => Roles
BY Children DEF Init, Roles

LEMMA RolesPreserved == IInv /\ Roles /\ [Next]_vars => Roles'
<1> SUFFICES ASSUME IInv, Roles, [Next]_vars PROVE Roles'
  OBVIOUS
<1>0. pc \in [Process -> Place] /\ Loop
  BY DEF IInv, TypeOK
<1> USE Children DEF Roles, Goes, memory, exam
<1>1. CASE CloneProfessor
  BY <1>0, <1>1 DEF CloneProfessor
<1>2. CASE CloneTutor
  BY <1>0, <1>2 DEF CloneTutor, Loop
<1>3. CASE ForkStudent
  BY <1>0, <1>3 DEF ForkStudent, Loop, AfterChild, MainGoes
<1>4. CASE (\E p \in Process : Goes(p, "exited", "reaped")) \/ UNCHANGED pc
  BY <1>0, <1>4
<1>5. CASE WaitFor(i)
  <2>1. i \in Process
    BY <1>0, <1>5 DEF WaitFor, AfterChild, MainGoes, Loop
  <2> QED
    BY <1>4, <1>5, <2>1 DEF WaitFor
<1>6. CASE Sleep \/ Terminate \/ Reap \/ Finish \/ Abort \/ UNCHANGED vars
  BY <1>4, <1>6 DEF Sleep, Terminate, Reap, Finish, Abort, vars
<1>7. CASE ProfessorStep \/ \E t \in Tutor : TutorStep(t)
  BY <1>0, <1>7 DEF ProfessorStep, SetNumber, ProfessorAnswers, TutorStep, CopyTask, TutorAnswers
<1>8. CASE \E s \in Student : StudentStep(s) \/ Calculate(s) \/ TakeSigterm(s)
  BY <1>0, <1>8 DEF StudentStep, Exec, InstallHandler, PrintResult, Calculate, TakeSigterm
<1> QED
  BY <1>1, <1>2, <1>3, <1>5, <1>6, <1>7, <1>8 DEF Next, MainStep

LEMMA StaffingAtFirst == Init => Staffing
BY Children DEF Init, Staffing

LEMMA StaffingPreserved == ExamInvariants /\ Staffing /\ [Next]_vars => Staffing'
<1> SUFFICES ASSUME ExamInvariants, Staffing, [Next]_vars PROVE Staffing'
  OBVIOUS
<1>0. /\ pc \in [Process -> Place] /\ i \in Nat /\ Loop /\ main_pc \in MainPlace
      /\ main_pc \notin {"professor", "wait_professor", "aborted"} => pc[Professor] = "reaped"
      /\ pc[Professor] # "reaped" => \A s \in Student : pc[s] = "unborn"
      /\ pc[Professor] # "reaped" => \A t \in Tutor : pc[t] = "unborn"
  BY Children DEF ExamInvariants, IInv, TypeOK, Alone, MainPlace
<1> USE Children DEF Staffing, MainGoes, Goes, memory, exam, MainPlace, Loop
<1>1. CASE CloneProfessor \/ Abort \/ Sleep \/ Finish \/ UNCHANGED vars
  BY <1>0, <1>1 DEF CloneProfessor, Abort, Sleep, Finish, vars
<1>2. CASE WaitFor(i)
  <2>1. pc[i] = "exited" /\ pc' = [pc EXCEPT ![i] = "reaped"]
    BY <1>2 DEF WaitFor
  <2>2. CASE i = Professor
    <3>1. main_pc' = "tutors" /\ i' = 1 /\ \A p \in Tutor \union Student : pc'[p] = pc[p]
      BY <1>0, <1>2, <2>1, <2>2 DEF WaitFor
    <3>2. \A p \in Tutor \union Student : pc[p] = "unborn"
      BY <1>0, <1>2, <2>1, <2>2 DEF ExamInvariants, IInv, Alone
    <3> QED
      BY <3>1, <3>2
  <2>3. CASE i # Professor
    <3>1. main_pc = "wait_tutors" /\ i \in 1 .. 3 /\ i \in Tutor
      BY <1>0, <1>2, <2>3 DEF WaitFor, AfterChild, Tutor
    <3>2. CASE i < 3
      BY <1>0, <1>2, <2>1, <2>3, <3>1, <3>2 DEF WaitFor, AfterChild, Tutor
    <3>3. CASE i = 3
      <4>1. main_pc' \in {"sleep", "students"} /\ i' = 4
        BY <1>2, <2>3, <3>1, <3>3 DEF WaitFor, AfterChild
      <4> QED
        BY <1>0, <2>1, <3>1, <4>1
    <3> QED
      BY <3>1, <3>2, <3>3
  <2> QED
    BY <2>2, <2>3
<1>3. CASE CloneTutor
  <2>1. /\ main_pc = "tutors" /\ i \in Tutor /\ i \in 1 .. 3
        /\ pc' \in {pc, [pc EXCEPT ![i] = "copy"]}
        /\ \A s \in Student : pc'[s] = pc[s]
        /\ \A t \in Tutor : pc'[t] # "reaped" /\ (t # i => pc'[t] = pc[t])
    BY <1>0, <1>3 DEF CloneTutor, Tutor
  <2>2. CASE i < 3
    BY <1>3, <2>1, <2>2 DEF CloneTutor, Tutor
  <2>3. CASE ~(i < 3)
    BY <1>3, <2>1, <2>3 DEF CloneTutor
  <2> QED
    BY <2>2, <2>3
<1>4. CASE ForkStudent
  <2>1. /\ main_pc = "students" /\ i \in Student /\ pc' = [pc EXCEPT ![i] = "exec"]
        /\ main_pc' \in {"students", "sleep"}
        /\ main_pc' = "students" => i' = i + 1
    BY <1>0, <1>4 DEF ForkStudent, AfterChild
  <2> QED
    BY <1>0, <2>1 DEF Student
<1>5. CASE Terminate \/ Reap
  BY <1>0, <1>5 DEF Terminate, Reap, AfterChild
<1>6. CASE ProfessorStep
  BY <1>0, <1>6 DEF ProfessorStep, SetNumber, ProfessorAnswers
<1>7. CASE \E t \in Tutor : TutorStep(t)
  BY <1>0, <1>7 DEF TutorStep, CopyTask, TutorAnswers
<1>8. CASE \E s \in Student : StudentStep(s) \/ Calculate(s) \/ TakeSigterm(s)
  BY <1>0, <1>8 DEF StudentStep, Exec, InstallHandler, PrintResult, Calculate, TakeSigterm
<1> QED
  BY <1>1, <1>2, <1>3, <1>4, <1>5, <1>6, <1>7, <1>8 DEF Next, MainStep

LEMMA TerminatedAtFirst == Init => Terminated
BY DEF Init, Terminated

LEMMA TerminatedPreserved == ExamInvariants /\ Terminated /\ [Next]_vars => Terminated'
<1> SUFFICES ASSUME ExamInvariants, Terminated, [Next]_vars PROVE Terminated'
  OBVIOUS
<1>0. /\ pc \in [Process -> Place] /\ i \in Nat /\ Loop /\ main_pc \in MainPlace
      /\ main_pc \in {"sleep", "terminate", "reap"} => \A s \in Student : pc[s] # "unborn"
      /\ Student \subseteq Nat /\ \A s \in Student : s >= 4 /\ s <= 3 + student_number
  BY DEF ExamInvariants, IInv, TypeOK, Waiting, Student
<1> USE Children DEF Terminated, MainGoes, Goes, memory, exam, MainPlace, Loop
<1>1. CASE Sleep
  BY <1>0, <1>1 DEF Sleep
<1>2. CASE Terminate
  <2>1. /\ main_pc = "terminate" /\ i \in Student /\ UNCHANGED pc
        /\ \/ main_pc' = "terminate" /\ i' = i + 1
           \/ main_pc' = "reap" /\ i >= 3 + student_number
        /\ sigterm \subseteq sigterm'
        /\ Exists(i) => i \in sigterm'
    BY <1>0, <1>2 DEF Terminate, AfterChild
  <2>2. pc[i] = "reaped" \/ i \in sigterm'
    BY <1>0, <2>1 DEF Exists
  <2>3. \A s \in Student : s < i => pc[s] \in {"exited", "reaped"} \/ s \in sigterm'
    BY <2>1
  <2>4. \A s \in Student : (main_pc' = "terminate" /\ s < i') \/ main_pc' = "reap" => s < i \/ s = i
    BY <1>0, <2>1
  <2> QED
    BY <2>1, <2>2, <2>3, <2>4
<1>3. CASE Reap \/ Finish \/ Abort \/ UNCHANGED vars
  BY <1>0, <1>3 DEF Reap, Finish, Abort, vars
<1>4. CASE CloneProfessor \/ CloneTutor \/ WaitFor(i) \/ ForkStudent
  <2>1. main_pc' \notin {"terminate", "reap"}
    BY <1>4 DEF CloneProfessor, CloneTutor, WaitFor, ForkStudent, AfterChild
  <2> QED
    BY <2>1
<1>5. CASE ProfessorStep \/ \E t \in Tutor : TutorStep(t)
  <2>1. UNCHANGED <<main_pc, i, sigterm>> /\ \A s \in Student : pc'[s] = pc[s]
    BY <1>0, <1>5
       DEF ProfessorStep, SetNumber, ProfessorAnswers, TutorStep, CopyTask, TutorAnswers
  <2> QED
    BY <2>1
<1>6. CASE \E s \in Student : StudentStep(s) \/ Calculate(s) \/ TakeSigterm(s)
  BY <1>0, <1>6, ZenonT(40) DEF StudentStep, Exec, InstallHandler, PrintResult, Calculate, TakeSigterm
<1> QED
  BY <1>1, <1>2, <1>3, <1>4, <1>5, <1>6 DEF Next, MainStep

ExamCourse == ExamInvariants /\ Roles /\ Staffing /\ Terminated

LEMMA ExamCourseHolds == SafeSpec => []ExamCourse
<1>1. ExamInvariants => IInv
  BY DEF ExamInvariants
<1> QED
  BY <1>1, ExamInvariantsHold, RolesAtFirst, RolesPreserved, StaffingAtFirst, StaffingPreserved,
     TerminatedAtFirst, TerminatedPreserved, PTL DEF SafeSpec, ExamCourse

(* Until the organizer has ended or aborted somebody can take a step that   *)
(* is not the end of a calculation: with students that calculate for ever   *)
(* nobody waits for ever, however many there are.                           *)
THEOREM ExamWaitsForNoCalculation ==
  SafeSpec => [](main_pc \notin {"ended", "aborted"} => SomebodyCanStep)
<1>1. ExamCourse => (main_pc \notin {"ended", "aborted"} => SomebodyCanStep)
  <2> SUFFICES ASSUME ExamCourse, main_pc \notin {"ended", "aborted"}, ~OrganizerCanStep
               PROVE  SomebodyCanStep
    BY DEF SomebodyCanStep
  <2>0. /\ main_pc \in MainPlace /\ Loop /\ i \in Nat /\ Professing /\ Staffing /\ Roles
        /\ main_pc \notin {"professor", "wait_professor", "aborted"} => pc[Professor] = "reaped"
    BY DEF ExamCourse, ExamInvariants, IInv, TypeOK, Alone
  <2>1. main_pc \in {"wait_professor", "wait_tutors", "reap"}
    BY <2>0 DEF OrganizerCanStep, Staffing, Loop, MainPlace
  <2>2. CASE main_pc = "wait_professor"
    <3>1. i = Professor /\ pc[Professor] \notin {"unborn", "exited", "reaped"}
      BY <2>0, <2>2 DEF OrganizerCanStep, Staffing, Loop
    <3> QED
      BY <2>0, <3>1 DEF Professing, ProfessorCanStep, SomebodyCanStep
  <2>3. CASE main_pc = "wait_tutors"
    <3>1. i \in Tutor /\ pc[i] \notin {"unborn", "exited", "reaped"}
      BY <2>0, <2>3 DEF OrganizerCanStep, Staffing, Loop, ExamCourse, ExamInvariants, Waiting
    <3> QED
      BY <2>0, <3>1 DEF Roles, TutorCanStep, SomebodyCanStep
  <2>4. CASE main_pc = "reap"
    <3>1. PICK p \in Process : pc[p] \notin {"unborn", "reaped", "exited"}
      BY <2>4 DEF OrganizerCanStep, Exists
    <3>2. p \in Student
      BY <2>0, <2>4, <3>1, Children DEF ExamCourse, ExamInvariants, Waiting
    <3>3. p \in sigterm
      BY <2>4, <3>1, <3>2 DEF ExamCourse, Terminated
    <3> QED
      BY <3>1, <3>2, <3>3 DEF StudentCanStep, SomebodyCanStep
  <2> QED
    BY <2>1, <2>2, <2>3, <2>4
<1> QED
  BY <1>1, ExamCourseHolds, PTL

LEMMA ChildStepTable ==
  /\ ChildStepsFrom("unborn") = 6
  /\ ChildStepsFrom("exec") = 5
  /\ ChildStepsFrom("number1") = 4
  /\ ChildStepsFrom("setup") = 4
  /\ ChildStepsFrom("number2") = 3
  /\ ChildStepsFrom("copy") = 3
  /\ ChildStepsFrom("calculating") = 3
  /\ ChildStepsFrom("answer") = 2
  /\ ChildStepsFrom("print") = 2
  /\ ChildStepsFrom("exited") = 1
  /\ ChildStepsFrom("reaped") = 0
BY DEF ChildStepsFrom

LEMMA OrganizerStepTable ==
  ASSUME NEW child
  PROVE  /\ OrganizerStepsFrom("professor", child) = 2 * student_number + 10
         /\ OrganizerStepsFrom("wait_professor", child) = 2 * student_number + 9
         /\ OrganizerStepsFrom("tutors", child) = 2 * student_number + 9 - child
         /\ OrganizerStepsFrom("wait_tutors", child) = 2 * student_number + 6 - child
         /\ OrganizerStepsFrom("students", child) = 2 * student_number + 6 - child
         /\ OrganizerStepsFrom("sleep", child) = student_number + 2
         /\ OrganizerStepsFrom("terminate", child) = student_number + 5 - child
         /\ OrganizerStepsFrom("reap", child) = 1
         /\ OrganizerStepsFrom("ended", child) = 0
         /\ OrganizerStepsFrom("aborted", child) = 0
BY DEF OrganizerStepsFrom

LEMMA ExamStepsAreCounted == ExamCourse => ExamStepCounts
<1> SUFFICES ASSUME ExamCourse PROVE ExamStepCounts
  OBVIOUS
<1>1. /\ pc \in [Process -> Place] /\ i \in Nat /\ main_pc \in MainPlace /\ Loop
      /\ student_number \in Nat
  BY Children DEF ExamCourse, ExamInvariants, IInv, TypeOK
<1>2. OrganizerSteps \in Nat
  BY <1>1, OrganizerStepTable DEF OrganizerSteps, MainPlace, Loop, Tutor, Student
<1>3. \A p \in Process : ChildSteps(p) \in Nat
  BY <1>1, ChildStepTable DEF ChildSteps, Place
<1> QED
  BY <1>2, <1>3 DEF ExamStepCounts

(* What a step has to do to spend: the organizer or one child goes down,    *)
(* and the other at most.                                                   *)
LEMMA OneGoesDown ==
  ASSUME ExamStepCounts, NEW c \in Process,
         \A p \in Process \ {c} : pc'[p] = pc[p],
         OrganizerSteps' <= OrganizerSteps, ChildSteps(c)' <= ChildSteps(c),
         OrganizerSteps' < OrganizerSteps \/ ChildSteps(c)' < ChildSteps(c)
  PROVE  ExamStepSpent
<1>1. ASSUME NEW p \in Process PROVE ChildSteps(p)' <= ChildSteps(p)
  <2>1. CASE p = c
    BY <2>1
  <2>2. CASE p # c
    <3>1. ChildSteps(p)' = ChildSteps(p)
      BY <2>2 DEF ChildSteps
    <3> QED
      BY <3>1 DEF ExamStepCounts
  <2> QED
    BY <2>1, <2>2
<1> QED
  BY <1>1 DEF ExamStepSpent

(* A step of the organizer lowers its own count, or reaps.                  *)
LEMMA OrganizerSpends ==
  ASSUME ExamCourse, MainStep \/ Abort
  PROVE  ExamStepSpent
<1>0. /\ pc \in [Process -> Place] /\ i \in Nat /\ main_pc \in MainPlace /\ Loop
      /\ student_number \in Nat /\ Staffing /\ ExamStepCounts
      /\ Professor \in Process
  BY Children, ExamStepsAreCounted DEF ExamCourse, ExamInvariants, IInv, TypeOK
<1> USE DEF MainGoes, Goes, AfterChild, memory, exam, Loop
\* The organizer goes on, and one child at most is created or reaped.
<1>1. ASSUME NEW c \in Process, \A p \in Process \ {c} : pc'[p] = pc[p],
             \/ pc'[c] = pc[c]
             \/ pc[c] = "unborn" /\ pc'[c] \in {"number1", "copy", "exec"}
             \/ pc[c] = "exited" /\ pc'[c] = "reaped",
             OrganizerSteps' < OrganizerSteps, OrganizerSteps' <= OrganizerSteps
      PROVE  ExamStepSpent
  <2>1. ChildSteps(c)' <= ChildSteps(c)
    BY <1>0, <1>1, ChildStepTable DEF ChildSteps, ExamStepCounts
  <2> QED
    BY <1>0, <1>1, <2>1, OneGoesDown
<1>2. CASE CloneProfessor
  <2>1. /\ main_pc = "professor" /\ main_pc' = "wait_professor"
        /\ pc[Professor] = "unborn" /\ pc'[Professor] = "number1"
        /\ \A p \in Process \ {Professor} : pc'[p] = pc[p]
    BY <1>0, <1>2 DEF CloneProfessor
  <2>2. OrganizerSteps' < OrganizerSteps /\ OrganizerSteps' <= OrganizerSteps
    BY <1>0, <2>1, OrganizerStepTable DEF OrganizerSteps
  <2> QED
    BY <1>0, <1>1, <2>1, <2>2
<1>3. CASE WaitFor(i)
  <2>1. PICK c \in Process : c = i
    BY <1>0, <1>3, Children DEF WaitFor
  <2>2. /\ pc[c] = "exited" /\ pc'[c] = "reaped"
        /\ \A p \in Process \ {c} : pc'[p] = pc[p]
    BY <1>0, <1>3, <2>1 DEF WaitFor
  <2>3. \/ main_pc = "wait_professor" /\ main_pc' = "tutors" /\ i' = 1
        \/ main_pc = "wait_tutors" /\ i \in 1 .. 3 /\ i < 3 /\ main_pc' = "wait_tutors" /\ i' = i + 1
        \/ main_pc = "wait_tutors" /\ i \in 1 .. 3 /\ main_pc' = "sleep"
        \/ main_pc = "wait_tutors" /\ i \in 1 .. 3 /\ main_pc' = "students" /\ i' = 4
    BY <1>0, <1>3 DEF WaitFor, Tutor
  <2>4. OrganizerSteps' < OrganizerSteps /\ OrganizerSteps' <= OrganizerSteps
    BY <1>0, <2>3, OrganizerStepTable DEF OrganizerSteps
  <2> QED
    BY <1>1, <2>2, <2>4
<1>4. CASE CloneTutor
  <2>1. PICK c \in Process : c = i /\ c \in Tutor
    BY <1>0, <1>4, Children DEF CloneTutor
  <2>2. /\ main_pc = "tutors" /\ i \in 1 .. 3 /\ pc[c] = "unborn"
    BY <1>0, <1>4, <2>1 DEF CloneTutor, Staffing, Tutor
  <2>3. /\ pc'[c] = pc[c] \/ pc'[c] = "copy"
        /\ \A p \in Process \ {c} : pc'[p] = pc[p]
    BY <1>0, <1>4, <2>1 DEF CloneTutor
  <2>4. \/ i < 3 /\ main_pc' = "tutors" /\ i' = i + 1
        \/ main_pc' = "wait_tutors" /\ i' = 1
        \/ main_pc' = "aborted"
    BY <1>0, <1>4 DEF CloneTutor
  <2>5. OrganizerSteps' < OrganizerSteps /\ OrganizerSteps' <= OrganizerSteps
    BY <1>0, <2>2, <2>4, OrganizerStepTable DEF OrganizerSteps
  <2> QED
    BY <1>1, <2>2, <2>3, <2>5
<1>5. CASE ForkStudent
  <2>1. PICK c \in Process : c = i /\ c \in Student
    BY <1>0, <1>5, Children DEF ForkStudent
  <2>2. /\ main_pc = "students" /\ i \in 4 .. 3 + student_number
        /\ pc[c] = "unborn" /\ pc'[c] = "exec"
        /\ \A p \in Process \ {c} : pc'[p] = pc[p]
    BY <1>0, <1>5, <2>1 DEF ForkStudent, Student
  <2>3. (main_pc' = "students" /\ i' = i + 1) \/ main_pc' = "sleep"
    BY <1>0, <1>5 DEF ForkStudent
  <2>4. OrganizerSteps' < OrganizerSteps /\ OrganizerSteps' <= OrganizerSteps
    BY <1>0, <2>2, <2>3, OrganizerStepTable DEF OrganizerSteps
  <2> QED
    BY <1>1, <2>2, <2>4
<1>6. CASE pc' = pc
  <2>1. \/ main_pc = "sleep" /\ main_pc' = "terminate" /\ i' = 4
        \/ main_pc = "sleep" /\ main_pc' = "reap"
        \/ main_pc = "terminate" /\ i \in 4 .. 3 + student_number
              /\ ((main_pc' = "terminate" /\ i' = i + 1) \/ main_pc' = "reap")
        \/ main_pc = "reap" /\ main_pc' = "ended"
        \/ main_pc = "professor" /\ main_pc' = "aborted"
        \/ main_pc = "students" /\ i \in 4 .. 3 + student_number /\ main_pc' = "aborted"
        \/ CloneTutor \/ CloneProfessor \/ WaitFor(i) \/ ForkStudent
    <3>1. CASE Reap
      <4>1. ~\E p \in Process : pc[p] = "exited" /\ pc' = [pc EXCEPT ![p] = "reaped"]
        BY <1>0, <1>6
      <4> QED
        BY <3>1, <4>1 DEF Reap
    <3>2. CASE Sleep \/ Terminate \/ Finish \/ Abort
      BY <1>0, <3>2 DEF Sleep, Terminate, Finish, Abort, Student
    <3> QED
      BY <3>1, <3>2 DEF MainStep
  <2>2. CASE CloneTutor \/ CloneProfessor \/ WaitFor(i) \/ ForkStudent
    BY <1>2, <1>3, <1>4, <1>5, <2>2
  <2>3. CASE ~(CloneTutor \/ CloneProfessor \/ WaitFor(i) \/ ForkStudent)
    <3>1. OrganizerSteps' < OrganizerSteps /\ OrganizerSteps' <= OrganizerSteps
      BY <1>0, <2>1, <2>3, OrganizerStepTable DEF OrganizerSteps
    <3> QED
      BY <1>0, <1>1, <1>6, <3>1
  <2> QED
    BY <2>2, <2>3
<1>7. CASE Reap /\ pc' # pc
  <2>1. PICK c \in Process :
          /\ pc[c] = "exited" /\ pc' = [pc EXCEPT ![c] = "reaped"]
          /\ main_pc' = main_pc /\ i' = i
    BY <1>7 DEF Reap
  <2>2. pc'[c] = "reaped" /\ \A p \in Process \ {c} : pc'[p] = pc[p]
    BY <1>0, <2>1
  <2>3. ChildSteps(c)' < ChildSteps(c) /\ ChildSteps(c)' <= ChildSteps(c)
    BY <2>1, <2>2, ChildStepTable DEF ChildSteps
  <2>4. OrganizerSteps' <= OrganizerSteps
    BY <1>0, <2>1 DEF OrganizerSteps, ExamStepCounts
  <2> QED
    BY <1>0, <2>2, <2>3, <2>4, OneGoesDown
<1> QED
  BY <1>2, <1>3, <1>4, <1>5, <1>6, <1>7
     DEF MainStep, Sleep, Terminate, Finish, Abort, vars

(* A step of a child lowers the child's count.                              *)
LEMMA ChildSpends ==
  ASSUME ExamCourse,
         \/ ProfessorStep
         \/ \E t \in Tutor : TutorStep(t)
         \/ \E s \in Student : StudentStep(s) \/ Calculate(s) \/ TakeSigterm(s)
  PROVE  ExamStepSpent
<1>0. pc \in [Process -> Place] /\ ExamStepCounts
  BY ExamStepsAreCounted DEF ExamCourse, ExamInvariants, IInv, TypeOK
<1> DEFINE GoesOn(c) ==
      /\ \A p \in Process \ {c} : pc'[p] = pc[p]
      /\ UNCHANGED <<main_pc, i>>
      /\ \/ pc[c] = "number1" /\ pc'[c] = "number2"
         \/ pc[c] = "number2" /\ pc'[c] = "answer"
         \/ pc[c] = "copy" /\ pc'[c] = "answer"
         \/ pc[c] = "exec" /\ pc'[c] = "setup"
         \/ pc[c] = "setup" /\ pc'[c] = "calculating"
         \/ pc[c] = "calculating" /\ pc'[c] = "print"
         \/ pc[c] \notin {"unborn", "exited", "reaped"} /\ pc'[c] = "exited"
<1>1. PICK c \in Process : GoesOn(c)
  <2> USE <1>0, Children DEF Goes, memory, exam
  <2>1. CASE ProfessorStep
    BY <2>1 DEF ProfessorStep, SetNumber, ProfessorAnswers
  <2>2. ASSUME NEW t \in Tutor, TutorStep(t) PROVE \E c \in Process : GoesOn(c)
    BY <2>2 DEF TutorStep, CopyTask, TutorAnswers
  <2>3. ASSUME NEW s \in Student, StudentStep(s) \/ Calculate(s) \/ TakeSigterm(s)
        PROVE  \E c \in Process : GoesOn(c)
    BY <2>3 DEF StudentStep, Exec, InstallHandler, PrintResult, Calculate, TakeSigterm
  <2> QED
    BY <2>1, <2>2, <2>3
<1>2. ChildSteps(c)' < ChildSteps(c) /\ ChildSteps(c)' <= ChildSteps(c)
  BY <1>0, <1>1, ChildStepTable DEF ChildSteps, Place
<1>3. OrganizerSteps' <= OrganizerSteps
  BY <1>0, <1>1 DEF OrganizerSteps, ExamStepCounts
<1> QED
  BY <1>0, <1>1, <1>2, <1>3, OneGoesDown

(* The steps that the organizer and each child have left run out, whatever  *)
(* fails to be created, executed or calculated.                             *)
THEOREM ExamStepsRunOut == SafeSpec => []ExamStepCounts /\ [][ExamStepSpent]_vars
<1>1. ExamCourse /\ [Next]_vars => [ExamStepSpent]_vars
  BY OrganizerSpends, ChildSpends DEF Next
<1>2. ExamCourse => ExamStepCounts
  BY ExamStepsAreCounted
<1> HIDE DEF ExamStepCounts, ExamStepSpent, ExamCourse
<1> QED
  BY <1>1, <1>2, ExamCourseHolds, PTL DEF SafeSpec

-----------------------------------------------------------------------------
(* The signals are another program: what its modules define keeps a name of *)
(* its own here, but for SignalTable.  pc is the variable of whichever of   *)
(* the two programs a theorem is about.                                     *)

CONSTANT MaxStops
VARIABLES handles, told, waits, stops

Relay == INSTANCE SignalRelayProperties

(* Every variable holds a value of its type. *)
RelayTypeOK ==
  /\ pc \in [Relay!Process -> {"start", "fork", "push", "relaying", "reaping", "exited", "killed",
                               "unborn", "setup", "waiting", "reaped"}]
  /\ pids \in Seq(Int) /\ Len(pids) <= 2
  /\ handles \in [Child -> SUBSET {16, 17, SIGTSTP}]
  /\ pending \in [Relay!Process -> SUBSET {16, 17, SIGTSTP}]
  /\ told \in [Relay!Process -> Nat]
  /\ waits \in Nat /\ stops \in Nat

\* The vector has the children in the order of the signals, and NoChild for each
\* that was not born; at most the next one is born already.  Nobody has told more
\* children than it knows.
InStep ==
  /\ \A n \in 1 .. Len(pids) : pids[n] = IF pc[n] = "unborn" THEN NoChild ELSE n
  /\ pc[Relay!Parent] \in {"start", "fork", "push"} => Len(pids) < 2
  /\ pc[Relay!Parent] \in {"start", "fork"} =>
       \A c \in Child : c > Len(pids) => pc[c] = "unborn"
  /\ \A c \in Child : c > Len(pids) + 1 => pc[c] = "unborn"
  /\ told[Relay!Parent] <= Len(pids)
  /\ \A c \in Child : told[c] < c

RelayIInv == RelayTypeOK /\ InStep /\ SignalReachesOnlyItsChild

LEMMA Relatives ==
  /\ Relay!Child = Child /\ Relay!signals = signals /\ Relay!SIGTSTP = SIGTSTP
  /\ Child = {1, 2} /\ Relay!Parent = 0 /\ Relay!Process = {0, 1, 2}
  /\ Len(signals) = 2 /\ signals[1] = 16 /\ signals[2] = 17
  /\ SIGTSTP = 20 /\ NoChild = -1 /\ Relay!NoChild = NoChild
BY DEF Child, Relay!Child, Relay!Parent, Relay!Process, signals, Relay!signals, SIGTSTP,
       Relay!SIGTSTP, NoChild, Relay!NoChild

(* What a process sees of the vector: what the parent has pushed, in order. *)
LEMMA Seen ==
  ASSUME RelayTypeOK, InStep, NEW p \in Relay!Process, pc[p] # "unborn"
  PROVE  /\ Len(Relay!pids_of(p)) \in Nat /\ Len(Relay!pids_of(p)) <= Len(pids)
         /\ Len(pids) \in Nat /\ Len(pids) <= 2
         /\ \A n \in 1 .. Len(Relay!pids_of(p)) : Relay!pids_of(p)[n] = pids[n]
<1>0. Len(pids) \in Nat /\ Len(pids) <= 2
  <2>1. pids \in Seq(Int) /\ Len(pids) <= 2
    BY DEF RelayTypeOK
  <2> QED
    BY <2>1
<1>1. CASE p = 0
  <2>1. Relay!pids_of(p) = pids
    BY <1>1, Relatives DEF Relay!pids_of
  <2> QED
    BY <1>0, <2>1
<1>2. CASE p # 0
  <2> DEFINE known == [n \in 1 .. p - 1 |-> pids[n]]
  <2>1. Relay!pids_of(p) = known /\ p \in {1, 2} /\ p <= Len(pids) + 1
    BY <1>0, <1>2, Relatives DEF Relay!pids_of, InStep
  <2>2. Len(known) = p - 1 /\ \A n \in 1 .. p - 1 : known[n] = pids[n]
    BY <2>1
  <2> HIDE DEF known
  <2> QED
    BY <1>0, <2>1, <2>2
<1> QED
  BY <1>1, <1>2

LEMMA RelayInitEstablishes ==
  ASSUME Relay!StopsAssumption
  PROVE  Relay!Init => RelayIInv
<1> SUFFICES ASSUME Relay!Init PROVE RelayIInv
  OBVIOUS
<1> USE Relatives
<1>1. pids = <<>> /\ Len(pids) = 0 /\ pids \in Seq(Int)
  BY DEF Relay!Init
<1>2. RelayTypeOK
  BY <1>1 DEF Relay!Init, RelayTypeOK
<1>3. InStep
  BY <1>1 DEF Relay!Init, InStep
<1>4. SignalReachesOnlyItsChild
  BY DEF Relay!Init, SignalReachesOnlyItsChild
<1> QED
  BY <1>2, <1>3, <1>4 DEF RelayIInv

\* Process p sends the signal of the n-th child to whom it takes for that child.
Tells(p, n) == Relay!Kill(p, pids[n], signals[n])

(* A relay sends the signal that goes with the place in the vector. *)
LEMMA RelayTells ==
  ASSUME RelayIInv, NEW p \in Relay!Process, Relay!Relay(p)
  PROVE  /\ told[p] + 1 \in 1 .. Len(pids) /\ told[p] + 1 \in Child
         /\ told[p] + 1 <= Len(Relay!pids_of(p))
         /\ Tells(p, told[p] + 1)
<1>1. /\ pc[p] = "relaying" /\ told[p] \in Nat /\ told[p] < Len(Relay!pids_of(p))
      /\ Relay!Kill(p, Relay!pids_of(p)[told[p] + 1], signals[told[p] + 1])
  BY Relatives DEF Relay!Relay, RelayIInv, RelayTypeOK
<1>2. /\ Len(Relay!pids_of(p)) \in Nat /\ Len(Relay!pids_of(p)) <= Len(pids)
      /\ Len(pids) \in Nat /\ Len(pids) <= 2
      /\ \A n \in 1 .. Len(Relay!pids_of(p)) : Relay!pids_of(p)[n] = pids[n]
  BY <1>1, Seen DEF RelayIInv
<1>3. told[p] + 1 \in 1 .. Len(Relay!pids_of(p)) /\ told[p] + 1 \in 1 .. Len(pids)
  BY <1>1, <1>2
<1>4. told[p] + 1 \in Child
  BY <1>2, <1>3, Relatives
<1> QED
  BY <1>1, <1>2, <1>3, <1>4 DEF Tells

(* Whom kill() reaches: the child of that place, or everybody else if there *)
(* is none.                                                                 *)
LEMMA TellsItsChild ==
  ASSUME RelayIInv, NEW p \in Relay!Process, NEW n \in Child, n \in 1 .. Len(pids), Tells(p, n)
  PROVE  /\ pending' \in [Relay!Process -> SUBSET {16, 17, SIGTSTP}]
         /\ \A q \in Relay!Process :
              /\ pending[q] \subseteq pending'[q]
              /\ pending'[q] \subseteq pending[q] \union {signals[n]}
              /\ signals[n] \in pending'[q] \ pending[q] => q = n \/ pids[n] = NoChild
              /\ Relay!Hears(q, signals[n]) /\ (q = pids[n] \/ (pids[n] = NoChild /\ q # p))
                   => signals[n] \in pending'[q]
<1> USE Relatives
<1>1. pending' = [q \in Relay!Process |->
                    IF /\ q \in (IF pids[n] = NoChild THEN Relay!Process \ {p} ELSE {pids[n]})
                       /\ Relay!Hears(q, signals[n])
                    THEN pending[q] \union {signals[n]} ELSE pending[q]]
  BY DEF Tells, Relay!Kill
<1>2. pids[n] \in {n, NoChild}
  BY DEF RelayIInv, InStep
<1>3. signals[n] \in {16, 17} /\ pending \in [Relay!Process -> SUBSET {16, 17, SIGTSTP}]
  BY DEF RelayIInv, RelayTypeOK
<1>4. pending' \in [Relay!Process -> SUBSET {16, 17, SIGTSTP}]
  BY <1>1, <1>3
<1>5. ASSUME NEW q \in Relay!Process
      PROVE  /\ pending[q] \subseteq pending'[q]
             /\ pending'[q] \subseteq pending[q] \union {signals[n]}
             /\ signals[n] \in pending'[q] \ pending[q] => q = n \/ pids[n] = NoChild
             /\ Relay!Hears(q, signals[n]) /\ (q = pids[n] \/ (pids[n] = NoChild /\ q # p))
                  => signals[n] \in pending'[q]
  <2>1. pending'[q] = IF /\ q \in (IF pids[n] = NoChild THEN Relay!Process \ {p} ELSE {pids[n]})
                         /\ Relay!Hears(q, signals[n])
                      THEN pending[q] \union {signals[n]} ELSE pending[q]
    BY <1>1, Zenon
  <2> QED
    BY <1>2, <2>1
<1> QED
  BY <1>4, <1>5

LEMMA RelayNextPreserves ==
  ASSUME Relay!StopsAssumption
  PROVE  RelayIInv /\ [Relay!Next]_(Relay!vars) => RelayIInv'
<1> SUFFICES ASSUME RelayIInv, [Relay!Next]_(Relay!vars) PROVE RelayIInv'
  OBVIOUS
<1> USE Relatives
<1>0. Len(pids) \in Nat /\ Len(pids) <= 2 /\ DOMAIN pids = 1 .. Len(pids)
  <2>1. pids \in Seq(Int) /\ Len(pids) <= 2
    BY DEF RelayIInv, RelayTypeOK
  <2> QED
    BY <2>1
<1>1. CASE Relay!PushBack
  <2> DEFINE who == IF pc[Len(pids) + 1] = "unborn" THEN NoChild ELSE Len(pids) + 1
  <2>1. /\ Len(pids) < 2 /\ pids' = Append(pids, who) /\ pc[0] = "push"
        /\ pc' = [pc EXCEPT ![0] = IF Len(pids) + 1 < 2 THEN "fork" ELSE "waiting"]
        /\ UNCHANGED <<handles, pending, told, waits, stops>>
    BY <1>1 DEF Relay!PushBack, Relay!Goes, Relay!forked, RelayIInv, InStep
  <2>2. /\ pids' \in Seq(Int) /\ Len(pids') = Len(pids) + 1 /\ DOMAIN pids' = 1 .. Len(pids')
        /\ \A n \in 1 .. Len(pids) : pids'[n] = pids[n]
        /\ pids'[Len(pids) + 1] = who
    <3>1. who \in Int /\ pids \in Seq(Int)
      BY <1>0 DEF RelayIInv, RelayTypeOK
    <3> HIDE DEF who
    <3> QED
      BY <2>1, <3>1
  <2>3. RelayTypeOK'
    BY <1>0, <2>1, <2>2 DEF RelayIInv, RelayTypeOK
  <2>4. \A c \in Child : pc'[c] = pc[c]
    BY <2>1 DEF RelayIInv, RelayTypeOK
  <2>5. InStep'
    <3>1. ASSUME NEW n \in 1 .. Len(pids')
          PROVE  pids'[n] = IF pc'[n] = "unborn" THEN NoChild ELSE n
      <4>1. n \in Child /\ pc'[n] = pc[n]
        BY <1>0, <2>1, <2>2, <2>4
      <4>2. CASE n = Len(pids) + 1
        BY <2>2, <4>1, <4>2
      <4>3. CASE n # Len(pids) + 1
        <5>1. n \in 1 .. Len(pids)
          BY <1>0, <2>2, <4>3
        <5> QED
          BY <2>2, <4>1, <5>1 DEF RelayIInv, InStep
      <4> QED
        BY <4>2, <4>3
    <3>2. pc'[0] \in {"fork", "waiting"}
      BY <1>0, <2>1, <2>2 DEF RelayIInv, RelayTypeOK
    <3>3. pc'[0] = "fork" => Len(pids') < 2
      BY <1>0, <2>1, <2>2 DEF RelayIInv, RelayTypeOK
    <3>4. /\ \A c \in Child : c > Len(pids') => pc'[c] = "unborn"
          /\ \A c \in Child : c > Len(pids') + 1 => pc'[c] = "unborn"
      BY <1>0, <2>2, <2>4 DEF RelayIInv, InStep
    <3>5. told'[0] <= Len(pids') /\ \A c \in Child : told'[c] < c
      BY <1>0, <2>1, <2>2 DEF RelayIInv, RelayTypeOK, InStep
    <3> QED
      BY <3>1, <3>2, <3>3, <3>4, <3>5 DEF InStep
  <2>6. SignalReachesOnlyItsChild'
    BY <1>0, <2>1, <2>2 DEF RelayIInv, SignalReachesOnlyItsChild
  <2> QED
    BY <2>3, <2>5, <2>6 DEF RelayIInv
<1>2. ASSUME NEW p \in Relay!Process, Relay!Relay(p) PROVE RelayIInv'
  <2>1. /\ told[p] \in Nat /\ told' = [told EXCEPT ![p] = @ + 1] /\ pc[p] = "relaying"
        /\ told[p] < Len(Relay!pids_of(p))
        /\ UNCHANGED <<pc, pids, handles, waits, stops>>
    BY <1>2 DEF Relay!Relay, RelayIInv, RelayTypeOK
  <2>2. PICK n \in Child : n = told[p] + 1 /\ n \in 1 .. Len(pids) /\ Tells(p, n)
    BY <1>2, RelayTells
  <2>3. /\ pending' \in [Relay!Process -> SUBSET {16, 17, SIGTSTP}]
        /\ \A q \in Relay!Process :
             /\ pending'[q] \subseteq pending[q] \union {signals[n]}
             /\ signals[n] \in pending'[q] \ pending[q] => q = n \/ pids[n] = NoChild
    BY <2>2, TellsItsChild
  <2>4. RelayTypeOK'
    BY SMTT(40), <2>1, <2>3 DEF RelayIInv, RelayTypeOK
  <2>5. SignalReachesOnlyItsChild'
    <3> SUFFICES ASSUME NEW m \in Child, NEW q \in DOMAIN pending' \ {m}, signals[m] \in pending'[q]
                 PROVE  m \in DOMAIN pids /\ pids[m] = NoChild
      BY <2>1 DEF SignalReachesOnlyItsChild
    <3>1. q \in Relay!Process /\ DOMAIN pending = Relay!Process
      BY <2>3 DEF RelayIInv, RelayTypeOK
    <3>2. CASE signals[m] \in pending[q]
      BY <3>1, <3>2 DEF RelayIInv, SignalReachesOnlyItsChild
    <3>3. CASE signals[m] \notin pending[q]
      <4>1. m = n
        BY <2>3, <3>1, <3>3
      <4> QED
        BY <1>0, <2>2, <2>3, <3>1, <3>3, <4>1
    <3> QED
      BY <3>2, <3>3
  <2>6. told'[0] <= Len(pids) /\ \A c \in Child : told'[c] < c
    <3>1. CASE p = 0
      BY <1>0, <2>1, <2>2, <3>1 DEF RelayIInv, RelayTypeOK, InStep
    <3>2. CASE p # 0
      <4> DEFINE known == [m \in 1 .. p - 1 |-> pids[m]]
      <4>1. Relay!pids_of(p) = known /\ p \in {1, 2}
        BY <3>2 DEF Relay!pids_of
      <4>2. Len(known) = p - 1
        BY <4>1
      <4> HIDE DEF known
      <4>3. told[p] + 1 < p
        BY <2>1, <4>1, <4>2
      <4> QED
        BY <2>1, <3>2, <4>3 DEF RelayIInv, RelayTypeOK, InStep
    <3> QED
      BY <3>1, <3>2
  <2>7. InStep'
    BY <2>1, <2>6 DEF RelayIInv, InStep
  <2> QED
    BY <2>4, <2>5, <2>7 DEF RelayIInv
<1>3. ASSUME NEW processes, Relay!Stop(processes) PROVE RelayIInv'
  <2>1. /\ stops' = stops + 1 /\ UNCHANGED <<pc, pids, handles, told, waits>>
        /\ \A p \in Relay!Process : pending'[p] \subseteq pending[p] \union {SIGTSTP}
        /\ pending' = [p \in Relay!Process |-> pending'[p]]
    BY <1>3 DEF Relay!Stop
  <2>2. RelayTypeOK'
    BY <2>1 DEF RelayIInv, RelayTypeOK
  <2>3. SignalReachesOnlyItsChild'
    BY SMTT(40), <2>1 DEF RelayIInv, RelayTypeOK, SignalReachesOnlyItsChild
  <2>4. InStep'
    BY <2>1 DEF RelayIInv, InStep
  <2> QED
    BY <2>2, <2>3, <2>4 DEF RelayIInv
<1>4. ASSUME pids' = pids, told' = told, stops' = stops, waits' \in Nat,
             handles' \in [Child -> SUBSET {16, 17, SIGTSTP}],
             pending' \in [Relay!Process -> SUBSET {16, 17, SIGTSTP}],
             \A q \in Relay!Process : pending'[q] \subseteq pending[q],
             \/ pc' = pc
             \/ \E p \in Relay!Process,
                   to \in {"fork", "push", "relaying", "reaping", "exited", "killed", "waiting", "reaped"} :
                  /\ pc[p] # "unborn" /\ pc' = [pc EXCEPT ![p] = to]
                  /\ p = 0 /\ to = "fork" => pc[0] = "start"
                  /\ p = 0 /\ to = "push" => pc[0] = "fork"
             \/ pc[0] = "fork" /\ pc' = [pc EXCEPT ![0] = "push", ![Len(pids) + 1] = "setup"]
      PROVE  RelayIInv'
  <2>1. RelayTypeOK'
    BY SMTT(40), <1>0, <1>4 DEF RelayIInv, RelayTypeOK, InStep
  <2>2. SignalReachesOnlyItsChild'
    BY <1>4 DEF RelayIInv, RelayTypeOK, SignalReachesOnlyItsChild
  <2>3. /\ pc'[0] \in {"start", "fork", "push"} => pc[0] \in {"start", "fork", "push"}
        /\ pc'[0] \in {"start", "fork"} => pc[0] \in {"start", "fork"}
    BY <1>0, <1>4 DEF RelayIInv, RelayTypeOK, InStep
  <2>4. \A c \in Child : \/ pc'[c] = "unborn" <=> pc[c] = "unborn"
                         \/ pc[0] = "fork" /\ c = Len(pids) + 1 /\ pc'[0] = "push"
    BY <1>0, <1>4 DEF RelayIInv, RelayTypeOK
  <2>5. \A n \in 1 .. Len(pids) : n \in Child
    BY <1>0
  <2>6. InStep'
    BY <1>0, <1>4, <2>3, <2>4, <2>5, SMTT(30) DEF RelayIInv, InStep
  <2> QED
    BY <2>1, <2>2, <2>6 DEF RelayIInv
<1>5. CASE \/ Relay!InstallGlobal \/ Relay!Fork \/ Relay!ForkFails \/ Relay!Wait \/ Relay!Exit
           \/ \E q \in Relay!Process : Relay!TakeStop(q) \/ Relay!Told(q) \/ Relay!TakeFatal(q)
           \/ \E c \in Child : Relay!InstallOwn(c) \/ Relay!InstallEmpty(c)
  <2> USE DEF Relay!Goes, RelayIInv, RelayTypeOK
  <2>1. CASE Relay!InstallGlobal
    BY <1>4, <2>1 DEF Relay!InstallGlobal
  <2>2. CASE Relay!Fork
    BY <1>4, <2>2 DEF Relay!Fork
  <2>3. CASE Relay!Wait
    <3>1. /\ UNCHANGED <<pids, handles, pending, told, stops>> /\ waits' = waits + 1
          /\ \/ pc' = pc
             \/ \E c \in Child : pc[c] = "exited" /\ pc' = [pc EXCEPT ![c] = "reaped"]
      BY <2>3 DEF Relay!Wait
    <3>2. waits' \in Nat
      BY <3>1
    <3> QED
      BY <1>4, <3>1, <3>2
  <2>4. CASE Relay!Exit
    BY <1>4, <2>4 DEF Relay!Exit
  <2>5. ASSUME NEW q \in Relay!Process, Relay!TakeStop(q) PROVE RelayIInv'
    BY <1>4, <2>5, ZenonT(40) DEF Relay!TakeStop
  <2>6. ASSUME NEW q \in Relay!Process, Relay!Told(q) PROVE RelayIInv'
    <3>1. /\ pc[q] = "relaying" /\ UNCHANGED <<pids, handles, pending, told, waits, stops>>
          /\ \/ q = 0 /\ pc' = [pc EXCEPT ![q] = "reaping"]
             \/ q # 0 /\ pc' = [pc EXCEPT ![q] = "exited"]
      BY <2>6 DEF Relay!Told
    <3> QED
      BY <1>4, <3>1
  <2>7. ASSUME NEW c \in Child, Relay!InstallOwn(c) PROVE RelayIInv'
    BY <1>4, <2>7 DEF Relay!InstallOwn
  <2>8. ASSUME NEW c \in Child, Relay!InstallEmpty(c) PROVE RelayIInv'
    <3>1. /\ handles' = [handles EXCEPT ![c] = @ \union {SIGTSTP}]
          /\ pc[c] = "setup" /\ pc' = [pc EXCEPT ![c] = "waiting"]
          /\ UNCHANGED <<pids, pending, told, waits, stops>>
      BY <2>8 DEF Relay!InstallEmpty
    <3>2. handles' \in [Child -> SUBSET {16, 17, SIGTSTP}]
      BY <3>1
    <3> QED
      BY <1>4, <3>1, <3>2
  <2>9. ASSUME NEW q \in Relay!Process, Relay!TakeFatal(q) PROVE RelayIInv'
    BY <1>4, <2>9 DEF Relay!TakeFatal, Relay!Alive
  <2>10. CASE Relay!ForkFails
    BY <1>4, <2>10 DEF Relay!ForkFails
  <2> QED
    BY <1>5, <2>1, <2>2, <2>3, <2>4, <2>5, <2>6, <2>7, <2>8, <2>9, <2>10
<1>6. CASE UNCHANGED Relay!vars
  BY <1>4, <1>6 DEF Relay!vars, RelayIInv, RelayTypeOK
<1> QED
  BY <1>1, <1>2, <1>3, <1>5, <1>6
     DEF Relay!Next, Relay!ParentStep, Relay!ChildStep, Relay!StopGroup, Relay!StopParent

THEOREM RelayInvariantHolds ==
  ASSUME Relay!StopsAssumption
  PROVE  Relay!SafeSpec => []RelayIInv
BY RelayInitEstablishes, RelayNextPreserves, PTL DEF Relay!SafeSpec

(* However often and to whom SIGTSTP is sent, whichever forks fail, and     *)
(* whoever relays, the signal of a child goes to no other process unless    *)
(* there is no such child: pids and signals keep in step in every process   *)
(* that has a copy of pids.                                                 *)
THEOREM SignalAlwaysReachesOnlyItsChild ==
  ASSUME Relay!StopsAssumption
  PROVE  Relay!SafeSpec => []SignalReachesOnlyItsChild
<1>1. RelayIInv => SignalReachesOnlyItsChild
  BY DEF RelayIInv
<1> QED
  BY <1>1, RelayInvariantHolds, PTL

\* wait() is called when all are told, and each call that returns has reaped a
\* child or has none to wait for, as when a fork failed.
Reaping ==
  /\ pc[Relay!Parent] \notin {"reaping", "exited", "killed"} => waits = 0
  /\ pc[Relay!Parent] = "exited" => waits = Len(pids)
  /\ Len(pids) = 2 /\ waits >= 1 => \E c \in Child : pc[c] \in {"unborn", "reaped"}
  /\ Len(pids) = 2 /\ waits >= 2 => \A c \in Child : pc[c] \in {"unborn", "reaped"}

LEMMA ReapingAtFirst == Relay!Init => Reaping
<1> SUFFICES ASSUME Relay!Init PROVE Reaping
  OBVIOUS
<1>1. pids = <<>> /\ Len(pids) = 0 /\ pc[0] = "start" /\ waits = 0
  BY Relatives DEF Relay!Init
<1> QED
  BY <1>1, Relatives DEF Reaping

LEMMA ReapingPreserved ==
  RelayIInv /\ Reaping /\ [Relay!Next]_(Relay!vars) => Reaping'
<1> SUFFICES ASSUME RelayIInv, Reaping, [Relay!Next]_(Relay!vars) PROVE Reaping'
  OBVIOUS
<1> USE Relatives
<1>0. /\ Len(pids) \in Nat /\ waits \in Nat /\ pc = [p \in Relay!Process |-> pc[p]]
      /\ pc[0] \in {"start", "fork", "push"} => Len(pids) < 2
  BY DEF RelayIInv, RelayTypeOK, InStep
<1>1. CASE Relay!PushBack
  <2>1. /\ Len(pids) < 2 /\ pids' = Append(pids, Relay!forked) /\ waits = 0 /\ waits' = waits
        /\ pc[0] = "push" /\ pc' = [pc EXCEPT ![0] = IF Len(pids) + 1 < 2 THEN "fork" ELSE "waiting"]
    BY <1>1 DEF Relay!PushBack, Relay!Goes, RelayIInv, InStep, Reaping
  <2>2. Len(pids') = Len(pids) + 1
    BY <2>1 DEF RelayIInv, RelayTypeOK
  <2> QED
    BY <1>0, <2>1, <2>2 DEF Reaping
<1>2. CASE Relay!Fork
  <2>1. /\ pc[0] = "fork" /\ pids' = pids /\ waits' = waits /\ waits = 0 /\ Len(pids) < 2
        /\ pc' = [pc EXCEPT ![0] = "push", ![Len(pids) + 1] = "setup"]
    BY <1>0, <1>2 DEF Relay!Fork, Reaping
  <2> QED
    BY <1>0, <2>1 DEF Reaping
<1>3. CASE Relay!Wait
  <2>1. /\ pc[0] = "reaping" /\ waits < Len(pids) /\ waits' = waits + 1 /\ pids' = pids
    BY <1>3 DEF Relay!Wait
  <2>2. CASE \E c \in Child : pc[c] = "exited" /\ pc' = [pc EXCEPT ![c] = "reaped"]
    BY <1>0, <2>1, <2>2 DEF Reaping
  <2>3. CASE pc' = pc /\ \A c \in Child : pc[c] \in {"unborn", "reaped"}
    BY <1>0, <2>1, <2>3 DEF Reaping
  <2> QED
    BY <1>3, <2>2, <2>3 DEF Relay!Wait, Relay!Goes
<1>4. CASE Relay!Exit
  BY <1>0, <1>4 DEF Relay!Exit, Relay!Goes, Reaping
<1>5. ASSUME pids' = pids, waits' = waits,
             \/ pc' = pc
             \/ \E p \in Relay!Process, to \in {"fork", "push", "relaying", "reaping", "exited", "killed", "waiting"} :
                  /\ pc[p] \notin {"reaped", "unborn", "exited"} /\ pc' = [pc EXCEPT ![p] = to]
                  /\ p = 0 => to # "exited" /\ (to # "killed" => pc[0] # "reaping")
                  /\ p = 0 => pc[0] # "killed"
      PROVE  Reaping'
  BY <1>0, <1>5 DEF Reaping
<1>6. CASE \/ Relay!InstallGlobal \/ Relay!ForkFails
           \/ \E q \in Relay!Process :
                Relay!TakeStop(q) \/ Relay!Told(q) \/ Relay!Relay(q) \/ Relay!TakeFatal(q)
           \/ \E c \in Child : Relay!InstallOwn(c) \/ Relay!InstallEmpty(c)
           \/ \E processes : Relay!Stop(processes)
           \/ UNCHANGED Relay!vars
  <2>1. ASSUME NEW q \in Relay!Process, Relay!TakeStop(q) \/ Relay!Told(q) \/ Relay!Relay(q)
        PROVE  Reaping'
    BY <1>0, <1>5, <2>1 DEF Relay!TakeStop, Relay!Told, Relay!Relay, Relay!Goes
  <2>2. ASSUME NEW c \in Child, Relay!InstallOwn(c) \/ Relay!InstallEmpty(c)
        PROVE  Reaping'
    BY <1>0, <1>5, <2>2 DEF Relay!InstallOwn, Relay!InstallEmpty, Relay!Goes
  <2>3. ASSUME NEW q \in Relay!Process, Relay!TakeFatal(q)
        PROVE  Reaping'
    <3>1. /\ pc[q] \notin {"unborn", "exited", "reaped", "killed"} /\ pids' = pids /\ waits' = waits
          /\ \/ q = 0 /\ pc' = [pc EXCEPT ![q] = "killed"]
             \/ q # 0 /\ pc' = [pc EXCEPT ![q] = "exited"]
      BY <2>3 DEF Relay!TakeFatal, Relay!Alive
    <3> QED
      BY <1>5, <3>1
  <2>4. CASE \/ Relay!InstallGlobal \/ Relay!ForkFails \/ (\E processes : Relay!Stop(processes))
             \/ UNCHANGED Relay!vars
    BY <1>0, <1>5, <2>4 DEF Relay!InstallGlobal, Relay!ForkFails, Relay!Stop, Relay!Goes, Relay!vars
  <2> QED
    BY <1>6, <2>1, <2>2, <2>3, <2>4
<1> QED
  BY <1>1, <1>2, <1>3, <1>4, <1>6
     DEF Relay!Next, Relay!ParentStep, Relay!ChildStep, Relay!StopGroup, Relay!StopParent

(* A parent that has been through all its forks does not exit before it has *)
(* reaped every child there is, however its waits and their ends            *)
(* interleave: none is waited for twice, and no wait returns for want of a  *)
(* child too early.                                                         *)
THEOREM ParentReapsAll ==
  ASSUME Relay!StopsAssumption
  PROVE  Relay!SafeSpec => [](pc[Relay!Parent] = "exited" /\ Len(pids) = Len(signals)
                                => \A c \in Child : pc[c] = "reaped" \/ pids[c] = NoChild)
<1>1. RelayIInv /\ Reaping
        => (pc[Relay!Parent] = "exited" /\ Len(pids) = Len(signals)
              => \A c \in Child : pc[c] = "reaped" \/ pids[c] = NoChild)
  BY Relatives DEF Reaping, RelayIInv, InStep
<1>2. Relay!SafeSpec => []Reaping
  BY RelayInvariantHolds, ReapingAtFirst, ReapingPreserved, PTL DEF Relay!SafeSpec
<1> QED
  BY <1>1, <1>2, RelayInvariantHolds, PTL

-----------------------------------------------------------------------------
(* Progress of the signals: where the relay can stop, and what RelayEnds    *)
(* needs besides fairness.                                                  *)

\* Where the processes can be, and what has become of what they did before: a
\* signal that the parent has told a child, or everybody for want of the child it
\* is for, is pending unless it was ignored, and nobody is reaped but by a wait.
RelayCourse ==
  /\ pc[Relay!Parent] \in {"start", "fork", "push", "waiting", "relaying", "reaping",
                           "exited", "killed"}
  /\ \A c \in Child : /\ pc[c] \in {"unborn", "setup", "waiting", "relaying", "exited", "reaped"}
                      /\ pc[c] \in {"unborn", "setup"} => handles[c] \in {{}, {signals[c]}}
  /\ \A n, c \in Child :
       n <= told[Relay!Parent] /\ signals[n] \notin IgnoredByDefault /\ pids[n] \in {c, NoChild}
         => pc[c] \in {"unborn", "exited", "reaped"} \/ signals[n] \in pending[c]
  /\ pc[Relay!Parent] \in {"reaping", "exited"} => told[Relay!Parent] = Len(pids)
  /\ pc[Relay!Parent] \notin {"relaying", "reaping", "exited", "killed"} => told[Relay!Parent] = 0
  /\ waits <= Len(pids) /\ \A c \in Child : pc[c] = "reaped" => waits > 0
  /\ stops <= MaxStops

\* When a process can take its next step, by itself, by the guards of its actions.
\* The user need not stop anybody.
ParentCanStep ==
  \/ pc[Relay!Parent] \in {"start", "fork", "push", "relaying"}
  \/ pc[Relay!Parent] = "waiting" /\ pending[Relay!Parent] # {}
  \/ /\ pc[Relay!Parent] = "reaping"
     /\ \/ waits = Len(pids)
        \/ pending[Relay!Parent] \ {SIGTSTP} # {}
        \/ \E c \in Child : pc[c] = "exited"
        \/ \A c \in Child : pc[c] \in {"unborn", "reaped"}

ChildCanStep(c) ==
  \/ pc[c] \in {"setup", "relaying"}
  \/ pc[c] = "waiting" /\ pending[c] # {}

\* How many more steps the parent can take, by how many children it has pushed,
\* told and waited for ...
ParentStepsFrom(place, pushed, tells, reaps) ==
  CASE place = "start" -> 12
    [] place = "fork" -> 11 - 2 * pushed
    [] place = "push" -> 10 - 2 * pushed
    [] place = "waiting" -> 7
    [] place = "relaying" -> 6 - tells
    [] place = "reaping" -> 3 - reaps
    [] place \in {"exited", "killed"} -> 0

ParentSteps == ParentStepsFrom(pc[Relay!Parent], Len(pids), told[Relay!Parent], waits)

\* ... how many there are with a child until it is reaped, besides those that a
\* SIGTSTP makes it take in its own handler ...
ChildStepsTo(place, installed, tells) ==
  CASE place = "unborn" -> 6
    [] place = "setup" -> IF installed = {} THEN 5 ELSE 4
    [] place = "waiting" -> 3
    [] place = "relaying" -> 3 - tells
    [] place = "exited" -> 1
    [] place = "reaped" -> 0

RelaySteps(c) == ChildStepsTo(pc[c], handles[c], told[c])

\* ... and how often it may still be stopped.
StopsLeft(c) == MaxStops - stops + (IF SIGTSTP \in pending[c] THEN 1 ELSE 0)

RelayStepCounts ==
  /\ ParentSteps \in Nat
  /\ \A c \in Child : RelaySteps(c) \in Nat /\ StopsLeft(c) \in Nat

RelayStepSpent ==
  /\ ParentSteps' <= ParentSteps /\ stops' >= stops
  /\ \A c \in Child : RelaySteps(c)' <= RelaySteps(c) /\ StopsLeft(c)' <= StopsLeft(c)
  /\ \/ ParentSteps' < ParentSteps \/ stops' > stops
     \/ \E c \in Child : RelaySteps(c)' < RelaySteps(c) \/ StopsLeft(c)' < StopsLeft(c)

LEMMA RelayCourseAtFirst ==
  ASSUME Relay!StopsAssumption
  PROVE  Relay!Init => RelayCourse
<1> SUFFICES ASSUME Relay!Init PROVE RelayCourse
  OBVIOUS
<1>1. Len(pids) = 0
  BY DEF Relay!Init
<1> QED
  BY <1>1, Relatives DEF Relay!Init, RelayCourse, Relay!StopsAssumption

\* What the lemmas below use of the signals and the types.
RelayTypes ==
  /\ Len(pids) \in 0 .. 2 /\ waits \in Nat /\ stops \in Nat
  /\ pc = [p \in {0, 1, 2} |-> pc[p]]
  /\ pending \in [{0, 1, 2} -> SUBSET {16, 17, 20}]
  /\ handles \in [{1, 2} -> SUBSET {16, 17, 20}]
  /\ told \in [{0, 1, 2} -> Nat]
  /\ pc[0] \in {"start", "fork", "push"} => Len(pids) < 2
  /\ \A n \in 1 .. Len(pids) : pids[n] = IF pc[n] = "unborn" THEN NoChild ELSE n
  /\ pc[0] \in {"start", "fork"} => \A c \in Child : c > Len(pids) => pc[c] = "unborn"
  /\ told[0] <= Len(pids)

LEMMA RelayTyped == RelayIInv => RelayTypes
<1> SUFFICES ASSUME RelayIInv PROVE RelayTypes
  OBVIOUS
<1>1. Len(pids) \in 0 .. 2
  <2>1. pids \in Seq(Int) /\ Len(pids) <= 2
    BY DEF RelayIInv, RelayTypeOK
  <2>2. Len(pids) \in Nat
    BY <2>1
  <2>3. \A n \in Nat : n <= 2 => n \in 0 .. 2
    OBVIOUS
  <2> QED
    BY <2>1, <2>2, <2>3, Zenon
<1> QED
  BY <1>1, Relatives DEF RelayIInv, RelayTypeOK, InStep, RelayTypes

LEMMA RelayCoursePreserved ==
  ASSUME Relay!StopsAssumption
  PROVE  RelayIInv /\ RelayCourse /\ [Relay!Next]_(Relay!vars) => RelayCourse'
<1> SUFFICES ASSUME RelayIInv, RelayCourse, [Relay!Next]_(Relay!vars) PROVE RelayCourse'
  OBVIOUS
<1>0. RelayTypes
  BY RelayTyped
<1> USE Relatives DEF RelayCourse, IgnoredByDefault, Relay!Goes
<1>1. CASE \/ Relay!InstallGlobal \/ Relay!ForkFails \/ Relay!Exit
           \/ Relay!TakeFatal(0) \/ UNCHANGED Relay!vars
  <2>1. /\ UNCHANGED <<pids, handles, pending, told, waits, stops>>
        /\ \A c \in Child : pc'[c] = pc[c]
        /\ \/ pc[0] = "start" /\ pc'[0] = "fork"
           \/ pc[0] = "fork" /\ pc'[0] = "push"
           \/ pc[0] = "reaping" /\ pc'[0] = "exited"
           \/ pc'[0] = "killed"
           \/ pc'[0] = pc[0]
    BY <1>0, <1>1
       DEF RelayTypes, Relay!InstallGlobal, Relay!ForkFails, Relay!Exit, Relay!TakeFatal, Relay!vars
  <2> QED
    BY <2>1
<1>2. CASE Relay!Fork
  <2>1. /\ UNCHANGED <<pids, handles, pending, told, waits, stops>>
        /\ pc[0] = "fork" /\ pc'[0] = "push" /\ Len(pids) + 1 \in Child
        /\ \A c \in Child : pc'[c] = IF c = Len(pids) + 1 THEN "setup" ELSE pc[c]
    BY <1>0, <1>2 DEF RelayTypes, Relay!Fork
  <2>2. told[0] = 0 /\ pc[Len(pids) + 1] = "unborn"
    BY <1>0, <2>1 DEF RelayTypes
  <2>3. \A n \in Child : ~(n <= told[0])
    BY <2>2
  <2> QED
    BY <1>0, <2>1, <2>2, <2>3 DEF RelayTypes
<1>3. CASE Relay!PushBack
  <2>1. /\ pids' = Append(pids, Relay!forked)
        /\ pc[0] = "push" /\ pc' = [pc EXCEPT ![0] = IF Len(pids) + 1 < 2 THEN "fork" ELSE "waiting"]
        /\ UNCHANGED <<handles, pending, told, waits, stops>>
    BY <1>3 DEF Relay!PushBack
  <2>2. Len(pids') = Len(pids) + 1
    BY <2>1 DEF RelayIInv, RelayTypeOK
  <2>3. told[0] = 0 /\ \A n \in Child : ~(n <= told'[0])
    BY <2>1
  <2> QED
    BY <1>0, <2>1, <2>2, <2>3 DEF RelayTypes
<1>4. CASE Relay!Wait
  BY <1>0, <1>4 DEF RelayTypes, Relay!Wait
<1>5. ASSUME NEW c \in Child, Relay!InstallOwn(c) \/ Relay!InstallEmpty(c) PROVE RelayCourse'
  BY <1>0, <1>5, SMTT(30) DEF RelayTypes, Relay!InstallOwn, Relay!InstallEmpty
<1>6. ASSUME NEW p \in Relay!Process, Relay!TakeStop(p) PROVE RelayCourse'
  BY <1>0, <1>6, SMTT(30) DEF RelayTypes, Relay!TakeStop
<1>7. ASSUME NEW c \in Child, Relay!TakeFatal(c) PROVE RelayCourse'
  BY <1>0, <1>7 DEF RelayTypes, Relay!TakeFatal, Relay!Alive
<1>8. ASSUME NEW p \in Relay!Process, Relay!Told(p) PROVE RelayCourse'
  BY <1>0, <1>8 DEF RelayTypes, Relay!Told, Relay!pids_of
<1>9. ASSUME NEW p \in Relay!Process, Relay!Relay(p) PROVE RelayCourse'
  <2>1. /\ told[p] \in Nat /\ told' = [told EXCEPT ![p] = @ + 1]
        /\ UNCHANGED <<pc, pids, handles, waits, stops>> /\ pc[p] = "relaying"
    BY <1>9 DEF Relay!Relay, RelayIInv, RelayTypeOK
  <2>2. PICK n \in Child : n = told[p] + 1 /\ n \in 1 .. Len(pids) /\ Tells(p, n)
    BY <1>9, RelayTells
  <2>3. \A q \in Relay!Process :
          /\ pending[q] \subseteq pending'[q]
          /\ Relay!Hears(q, signals[n]) /\ (q = pids[n] \/ (pids[n] = NoChild /\ q # p))
               => signals[n] \in pending'[q]
    BY <2>2, TellsItsChild
  <2>4. p # 0 => told'[0] = told[0]
    BY SMTT(40), <1>0, <2>1 DEF RelayTypes
  <2>5. p = 0 => told'[0] = n /\ told[0] = n - 1 /\ pc[0] = "relaying"
    BY SMTT(40), <1>0, <2>1, <2>2 DEF RelayTypes
  <2>6. ASSUME NEW m \in Child, NEW c \in Child, m <= told'[0], signals[m] \notin IgnoredByDefault,
               pids[m] \in {c, NoChild}
        PROVE  pc[c] \in {"unborn", "exited", "reaped"} \/ signals[m] \in pending'[c]
    <3>1. CASE m <= told[0]
      BY <2>3, <2>6, <3>1
    <3>2. CASE ~(m <= told[0])
      <4>1. m = n /\ p = 0
        BY <1>0, <2>4, <2>5, <2>6, <3>2 DEF RelayTypes
      <4>2. pc[c] \notin {"unborn", "exited", "reaped"} => Relay!Hears(c, signals[m])
        BY <2>6 DEF Relay!Hears, Relay!Alive, Relay!IgnoredByDefault
      <4> QED
        BY <2>3, <2>6, <4>1, <4>2
    <3> QED
      BY <3>1, <3>2
  <2>7. \A d \in Child : pc'[d] = pc[d] /\ handles'[d] = handles[d]
    BY <2>1
  <2>8. /\ pc[0] \in {"reaping", "exited"} => told'[0] = Len(pids)
        /\ pc[0] \notin {"relaying", "reaping", "exited", "killed"} => told'[0] = 0
    BY <2>4, <2>5
  <2> QED
    BY <2>1, <2>6, <2>7, <2>8
<1>10. ASSUME NEW processes, Relay!Stop(processes) PROVE RelayCourse'
  BY <1>0, <1>10 DEF RelayTypes, Relay!Stop, Relay!StopsAssumption
<1> QED
  BY <1>1, <1>2, <1>3, <1>4, <1>5, <1>6, <1>7, <1>8, <1>9, <1>10
     DEF Relay!Next, Relay!ParentStep, Relay!ChildStep, Relay!StopGroup, Relay!StopParent

LEMMA RelayCourseHolds ==
  ASSUME Relay!StopsAssumption
  PROVE  Relay!SafeSpec => [](RelayIInv /\ RelayCourse)
BY RelayInvariantHolds, RelayCourseAtFirst, RelayCoursePreserved, PTL DEF Relay!SafeSpec

(* When nobody can go on, unless the user stops somebody, the parent has    *)
(* ended, or has not been stopped at all, or waits for a child that was     *)
(* sent a signal it still ignored: a relay comes to rest for no other       *)
(* reason, wherever it began, whichever forks failed and whoever else       *)
(* relays.                                                                  *)
THEOREM RelayRestsOnlyForALostSignal ==
  ASSUME Relay!StopsAssumption
  PROVE  Relay!SafeSpec
           => [](\/ ParentCanStep
                 \/ \E c \in Child : ChildCanStep(c)
                 \/ pc[Relay!Parent] \in {"exited", "killed"}
                 \/ pc[Relay!Parent] = "waiting" /\ SIGTSTP \notin pending[Relay!Parent]
                 \/ /\ pc[Relay!Parent] = "reaping"
                    /\ \E c \in Child : /\ pc[c] = "waiting" /\ c <= told[Relay!Parent]
                                        /\ signals[c] \in IgnoredByDefault \ pending[c])
<1>1. RelayIInv /\ RelayCourse
        => \/ ParentCanStep
           \/ \E c \in Child : ChildCanStep(c)
           \/ pc[Relay!Parent] \in {"exited", "killed"}
           \/ pc[Relay!Parent] = "waiting" /\ SIGTSTP \notin pending[Relay!Parent]
           \/ /\ pc[Relay!Parent] = "reaping"
              /\ \E c \in Child : /\ pc[c] = "waiting" /\ c <= told[Relay!Parent]
                                  /\ signals[c] \in IgnoredByDefault \ pending[c]
  <2> SUFFICES ASSUME RelayIInv, RelayCourse, ~ParentCanStep, \A c \in Child : ~ChildCanStep(c),
                      pc[Relay!Parent] \notin {"exited", "killed", "waiting"}
               PROVE  /\ pc[Relay!Parent] = "reaping"
                      /\ \E c \in Child : /\ pc[c] = "waiting" /\ c <= told[Relay!Parent]
                                          /\ signals[c] \in IgnoredByDefault \ pending[c]
    BY DEF ParentCanStep
  <2> USE Relatives
  <2>0. RelayTypes
    BY RelayTyped
  <2>1. pc[Relay!Parent] = "reaping"
    BY DEF ParentCanStep, RelayCourse
  <2>2. PICK c \in Child : pc[c] \notin {"unborn", "reaped", "exited"}
    BY <2>1 DEF ParentCanStep
  <2>3. pc[c] = "waiting" /\ pending[c] = {}
    BY <2>2 DEF ChildCanStep, RelayCourse
  <2>4. told[0] = Len(pids) /\ Len(pids) \in 0 .. 2 /\ waits \in Nat /\ waits < Len(pids)
    BY <2>0, <2>1 DEF ParentCanStep, RelayCourse, RelayTypes
  <2>5. \/ pids[1] = NoChild /\ pc[1] = "unborn"
        \/ pids[1] = 1 /\ pc[1] # "unborn"
    <3>1. 1 \in 1 .. Len(pids)
      BY <2>4
    <3> QED
      BY <2>0, <3>1 DEF RelayTypes
  \* The first signal ends whom it is told to.
  <2>6. pids[1] = 1 /\ pc[1] = "reaped" /\ c = 2
    <3>1. \A d \in Child : pids[1] \in {d, NoChild} => pc[d] \in {"unborn", "reaped"}
      <4> SUFFICES ASSUME NEW d \in Child, pids[1] \in {d, NoChild}, pc[d] \notin {"unborn", "reaped"}
                   PROVE  FALSE
        OBVIOUS
      <4>1. pc[d] = "exited" \/ signals[1] \in pending[d]
        BY <2>4 DEF RelayCourse, IgnoredByDefault
      <4>2. pc[d] # "exited"
        BY <2>1 DEF ParentCanStep
      <4> QED
        BY <4>1, <4>2 DEF ChildCanStep, RelayCourse
    <3>2. pids[1] = 1
      BY <2>2, <2>5, <3>1
    <3>3. pc[1] = "reaped"
      BY <2>5, <3>1, <3>2
    <3> QED
      BY <2>2, <3>2, <3>3
  <2>7. told[0] = 2
    BY <2>4, <2>6 DEF RelayCourse
  <2>8. signals[c] \in IgnoredByDefault
    BY <2>6 DEF IgnoredByDefault
  <2> QED
    BY <2>1, <2>3, <2>6, <2>7, <2>8
<1> QED
  BY <1>1, RelayCourseHolds, PTL

LEMMA ParentStepTable ==
  ASSUME NEW pushed, NEW tells, NEW reaps
  PROVE  /\ ParentStepsFrom("start", pushed, tells, reaps) = 12
         /\ ParentStepsFrom("fork", pushed, tells, reaps) = 11 - 2 * pushed
         /\ ParentStepsFrom("push", pushed, tells, reaps) = 10 - 2 * pushed
         /\ ParentStepsFrom("waiting", pushed, tells, reaps) = 7
         /\ ParentStepsFrom("relaying", pushed, tells, reaps) = 6 - tells
         /\ ParentStepsFrom("reaping", pushed, tells, reaps) = 3 - reaps
         /\ ParentStepsFrom("exited", pushed, tells, reaps) = 0
         /\ ParentStepsFrom("killed", pushed, tells, reaps) = 0
BY DEF ParentStepsFrom

LEMMA ChildStepsTable ==
  ASSUME NEW installed, NEW tells
  PROVE  /\ ChildStepsTo("unborn", installed, tells) = 6
         /\ installed = {} => ChildStepsTo("setup", installed, tells) = 5
         /\ installed # {} => ChildStepsTo("setup", installed, tells) = 4
         /\ ChildStepsTo("waiting", installed, tells) = 3
         /\ ChildStepsTo("relaying", installed, tells) = 3 - tells
         /\ ChildStepsTo("exited", installed, tells) = 1
         /\ ChildStepsTo("reaped", installed, tells) = 0
BY DEF ChildStepsTo

LEMMA PidsAreFew ==
  RelayIInv => /\ Len(pids) \in Nat /\ Len(pids) <= 2
               /\ pc[0] \in {"start", "fork", "push"} => Len(pids) < 2
<1> SUFFICES ASSUME RelayIInv
             PROVE  /\ Len(pids) \in Nat /\ Len(pids) <= 2
                    /\ pc[0] \in {"start", "fork", "push"} => Len(pids) < 2
  OBVIOUS
<1>1. pids \in Seq(Int) /\ Len(pids) <= 2
  BY DEF RelayIInv, RelayTypeOK
<1>2. Len(pids) \in Nat
  BY <1>1
<1>3. pc[0] \in {"start", "fork", "push"} => Len(pids) < 2
  BY Relatives DEF RelayIInv, InStep
<1> QED
  BY <1>1, <1>2, <1>3

(* Nobody tells more children than it knows. *)
LEMMA TellsAreFew ==
  RelayIInv => /\ told[0] \in Nat /\ told[0] <= 2
               /\ \A c \in Child : told[c] \in Nat /\ told[c] <= 1
<1> SUFFICES ASSUME RelayIInv
             PROVE  /\ told[0] \in Nat /\ told[0] <= 2
                    /\ \A c \in Child : told[c] \in Nat /\ told[c] <= 1
  OBVIOUS
<1>1. /\ told \in [{0, 1, 2} -> Nat] /\ told[0] <= Len(pids)
      /\ \A c \in Child : told[c] < c
  BY Relatives DEF RelayIInv, RelayTypeOK, InStep
<1> QED
  BY <1>1, PidsAreFew, Relatives

LEMMA RelayStepsAreCounted ==
  ASSUME Relay!StopsAssumption
  PROVE  RelayIInv /\ RelayCourse => RelayStepCounts
<1> SUFFICES ASSUME RelayIInv, RelayCourse PROVE RelayStepCounts
  OBVIOUS
<1>0. RelayTypes /\ told[0] \in Nat /\ told[0] <= 2 /\ \A c \in Child : told[c] \in Nat /\ told[c] <= 1
  BY RelayTyped, TellsAreFew
<1> USE Relatives
<1>1. ParentSteps \in Nat
  <2>1. /\ Len(pids) \in Nat /\ Len(pids) <= 2 /\ waits \in Nat /\ waits <= Len(pids)
        /\ pc[0] \in {"start", "fork", "push"} => Len(pids) < 2
        /\ pc[0] \in {"start", "fork", "push", "waiting", "relaying", "reaping", "exited", "killed"}
    BY <1>0, PidsAreFew DEF RelayTypes, RelayCourse
  <2> DEFINE n == Len(pids)
  <2> DEFINE t == told[0]
  <2>2. n \in Nat /\ t \in Nat /\ n <= 2 /\ t <= 2 /\ waits <= 2
    BY <1>0, <2>1
  <2> HIDE DEF n, t
  <2>3. \A place \in {"start", "push", "waiting", "relaying", "reaping", "exited", "killed"} :
          ParentStepsFrom(place, n, t, waits) \in Nat
    BY <2>1, <2>2, ParentStepTable, SMTT(30)
  <2>4. ParentStepsFrom("fork", n, t, waits) \in Nat
    BY <2>1, <2>2, ParentStepTable
  <2> QED
    BY <2>1, <2>3, <2>4 DEF ParentSteps, n, t
<1>2. ASSUME NEW c \in Child PROVE RelaySteps(c) \in Nat
  <2>1. pc[c] \in {"unborn", "setup", "waiting", "relaying", "exited", "reaped"}
    BY DEF RelayCourse
  <2> QED
    BY <1>0, <2>1, ChildStepsTable DEF RelaySteps
<1>3. ASSUME NEW c \in Child PROVE StopsLeft(c) \in Nat
  BY SMTT(40), <1>0 DEF RelayTypes, RelayCourse, StopsLeft, Relay!StopsAssumption
<1> QED
  BY <1>1, <1>2, <1>3 DEF RelayStepCounts

\* The three counts of a child in a step that leaves all its own state alone.
LEMMA ChildUntouched ==
  ASSUME NEW c \in Child, pc'[c] = pc[c], handles'[c] = handles[c], told'[c] = told[c]
  PROVE  RelaySteps(c)' = RelaySteps(c)
BY DEF RelaySteps

LEMMA StopsUntouched ==
  ASSUME NEW c \in Child, UNCHANGED stops, 20 \in pending'[c] <=> 20 \in pending[c]
  PROVE  StopsLeft(c)' = StopsLeft(c)
BY Relatives DEF StopsLeft

LEMMA ParentUntouched ==
  ASSUME pc'[0] = pc[0], UNCHANGED <<pids, waits>>, told'[0] = told[0]
  PROVE  ParentSteps' = ParentSteps
BY Relatives DEF ParentSteps

(* A kill of a child's signal leaves alone which SIGTSTPs are pending. *)
LEMMA RelayKeepsStops ==
  ASSUME RelayIInv, NEW p \in Relay!Process, Relay!Relay(p)
  PROVE  \A d \in Child : 20 \in pending'[d] <=> 20 \in pending[d]
<1>0. RelayTypes
  BY RelayTyped
<1>1. PICK n \in Child : n \in 1 .. Len(pids) /\ Tells(p, n)
  BY RelayTells
<1>2. signals[n] \in {16, 17}
  BY Relatives
<1> QED
  BY <1>1, <1>2, TellsItsChild, Relatives

(* What the parent does by itself spends one of its steps ... *)
LEMMA ParentSpends ==
  ASSUME Relay!StopsAssumption, RelayIInv, RelayCourse,
         Relay!ParentStep \/ Relay!TakeFatal(0)
  PROVE  RelayStepSpent
<1>0. /\ RelayTypes /\ told[0] \in Nat /\ told[0] <= 2
      /\ Relay!Process = {0, 1, 2} /\ RelayStepCounts
  BY RelayTyped, TellsAreFew, Relatives, RelayStepsAreCounted
<1>1. /\ Len(pids) \in Nat /\ Len(pids) <= 2
      /\ waits \in Nat /\ waits <= Len(pids) /\ stops \in Nat
      /\ pc[0] \in {"start", "fork", "push"} => Len(pids) < 2
      /\ pc[0] \in {"start", "fork", "push", "waiting"} => told[0] = 0
  BY <1>0, PidsAreFew, Relatives DEF RelayTypes, RelayCourse
<1> DEFINE Others ==
      /\ UNCHANGED <<handles, stops>>
      /\ \A c \in Child : /\ told'[c] = told[c]
                          /\ 20 \in pending'[c] <=> 20 \in pending[c]
                          /\ \/ pc'[c] = pc[c]
                             \/ pc[c] = "unborn" /\ pc'[c] = "setup"
                             \/ pc[c] = "exited" /\ pc'[c] = "reaped"
<1> DEFINE Spends == ParentSteps' < ParentSteps /\ ParentSteps' <= ParentSteps
<1>2. ASSUME Others, Spends PROVE RelayStepSpent
  <2>1. ASSUME NEW c \in Child PROVE RelaySteps(c)' <= RelaySteps(c)
    <3>1. CASE pc'[c] = pc[c]
      BY <1>0, <1>2, <3>1, ChildUntouched DEF RelayStepCounts
    <3>2. CASE pc[c] = "unborn" /\ pc'[c] = "setup"
      BY <3>2, ChildStepsTable DEF RelaySteps
    <3>3. CASE pc[c] = "exited" /\ pc'[c] = "reaped"
      BY <3>3, ChildStepsTable DEF RelaySteps
    <3> QED
      BY <1>2, <3>1, <3>2, <3>3
  <2>2. ASSUME NEW c \in Child PROVE StopsLeft(c)' <= StopsLeft(c)
    BY <1>0, <1>2, StopsUntouched DEF RelayStepCounts
  <2> QED
    BY <1>1, <1>2, <2>1, <2>2 DEF RelayStepSpent
<1>3. CASE Relay!InstallGlobal
  <2>1. /\ pc[0] = "start" /\ pc'[0] = "fork" /\ \A c \in Child : pc'[c] = pc[c]
        /\ UNCHANGED <<pids, handles, pending, told, waits, stops>>
    BY <1>0, <1>3, Relatives DEF RelayTypes, Relay!InstallGlobal, Relay!Goes
  <2>2. Spends
    BY <1>1, <2>1, ParentStepTable, Relatives, SMTT(30) DEF ParentSteps
  <2> QED
    BY <1>2, <2>1, <2>2
<1>4. CASE Relay!Fork
  <2>1. /\ pc[0] = "fork" /\ pc'[0] = "push"
        /\ UNCHANGED <<pids, handles, pending, told, waits, stops>>
        /\ \A c \in Child : \/ pc'[c] = pc[c]
                            \/ pc[c] = "unborn" /\ pc'[c] = "setup"
    <3>1. /\ pc[0] = "fork" /\ pc' = [pc EXCEPT ![0] = "push", ![Len(pids) + 1] = "setup"]
          /\ UNCHANGED <<pids, handles, pending, told, waits, stops>>
      BY <1>4, Relatives DEF Relay!Fork
    <3>2. \A c \in Child : c > Len(pids) => pc[c] = "unborn"
      BY <1>0, <3>1 DEF RelayTypes
    <3> QED
      BY <1>0, <1>1, <3>1, <3>2, Relatives DEF RelayTypes
  <2>2. Spends
    BY <1>1, <2>1, ParentStepTable, Relatives, SMTT(30) DEF ParentSteps
  <2> QED
    BY <1>2, <2>1, <2>2
<1>5. CASE Relay!PushBack
  <2>1. /\ pc[0] = "push" /\ pids' = Append(pids, Relay!forked)
        /\ pc' = [pc EXCEPT ![0] = IF Len(pids) + 1 < 2 THEN "fork" ELSE "waiting"]
        /\ UNCHANGED <<handles, pending, told, waits, stops>>
    BY <1>5, Relatives DEF Relay!PushBack, Relay!Goes
  <2>2. Len(pids') = Len(pids) + 1
    BY <2>1 DEF RelayIInv, RelayTypeOK
  <2>3. /\ \A c \in Child : pc'[c] = pc[c]
        /\ \/ pc'[0] = "fork" /\ Len(pids) = 0
           \/ pc'[0] = "waiting" /\ Len(pids) = 1
    BY <1>0, <1>1, <2>1, Relatives DEF RelayTypes
  <2>4. Spends
    BY <1>1, <2>1, <2>2, <2>3, ParentStepTable, Relatives DEF ParentSteps
  <2> QED
    BY <1>2, <2>1, <2>3, <2>4
<1>6. CASE Relay!TakeStop(0)
  <2>1. /\ pc[0] \in {"fork", "push", "waiting"} /\ pc'[0] = "relaying"
        /\ \A c \in Child : pc'[c] = pc[c] /\ pending'[c] = pending[c]
        /\ UNCHANGED <<pids, handles, told, waits, stops>>
    BY <1>0, <1>6, Relatives DEF RelayTypes, RelayCourse, Relay!TakeStop
  <2>2. ParentSteps' = 6
    BY <1>1, <2>1, ParentStepTable, Relatives DEF ParentSteps
  <2>3. ParentSteps \in Int /\ ParentSteps > 6
    BY SMTT(40), <1>1, <2>1, ParentStepTable, Relatives DEF ParentSteps
  <2>4. Spends
    <3> HIDE DEF ParentSteps
    <3> QED
      BY <2>2, <2>3
  <2> QED
    BY <1>2, <2>1, <2>4
<1>7. CASE Relay!Relay(0)
  <2>1. /\ pc[0] = "relaying" /\ told' = [told EXCEPT ![0] = @ + 1]
        /\ UNCHANGED <<pc, pids, handles, waits, stops>>
    BY <1>7, Relatives DEF Relay!Relay
  <2>2. told'[0] = told[0] + 1 /\ \A c \in Child : told'[c] = told[c]
    BY <1>0, <2>1, Relatives DEF RelayTypes
  <2>3. \A c \in Child : 20 \in pending'[c] <=> 20 \in pending[c]
    BY <1>7, RelayKeepsStops, Relatives
  <2>4. Spends
    BY <1>0, <2>1, <2>2, ParentStepTable, Relatives DEF ParentSteps
  <2> QED
    BY <1>2, <2>1, <2>2, <2>3, <2>4
<1>8. CASE Relay!Told(0)
  <2>1. /\ pc[0] = "relaying" /\ pc'[0] = "reaping" /\ \A c \in Child : pc'[c] = pc[c]
        /\ UNCHANGED <<pids, handles, pending, told, waits, stops>>
    BY <1>0, <1>8, Relatives DEF RelayTypes, Relay!Told, Relay!Goes
  <2>2. ParentSteps = 6 - told[0] /\ ParentSteps' = 3 - waits
    BY <2>1, ParentStepTable, Relatives DEF ParentSteps
  <2>3. Spends
    BY <1>0, <1>1, <2>2
  <2> QED
    BY <1>2, <2>1, <2>3
<1>9. CASE Relay!Wait
  <2>1. /\ pc[0] = "reaping" /\ pc'[0] = "reaping" /\ waits' = waits + 1
        /\ \A c \in Child : \/ pc'[c] = pc[c]
                            \/ pc[c] = "exited" /\ pc'[c] = "reaped"
        /\ UNCHANGED <<pids, handles, pending, told, stops>>
    BY <1>0, <1>9, Relatives DEF RelayTypes, Relay!Wait, Relay!Goes
  <2>2. Spends
    BY <1>1, <2>1, ParentStepTable, Relatives, SMTT(30) DEF ParentSteps
  <2> QED
    BY <1>2, <2>1, <2>2
<1>10. CASE Relay!Exit
  <2>1. /\ pc[0] = "reaping" /\ pc'[0] = "exited" /\ \A c \in Child : pc'[c] = pc[c]
        /\ UNCHANGED <<pids, handles, pending, told, waits, stops>>
    BY <1>0, <1>10, Relatives DEF RelayTypes, Relay!Exit, Relay!Goes
  <2>2. Spends
    BY <1>1, <2>1, ParentStepTable, Relatives, SMTT(30) DEF ParentSteps
  <2> QED
    BY <1>2, <2>1, <2>2
<1>11. CASE Relay!ForkFails
  <2>1. /\ pc[0] = "fork" /\ pc'[0] = "push" /\ \A c \in Child : pc'[c] = pc[c]
        /\ UNCHANGED <<pids, handles, pending, told, waits, stops>>
    BY <1>0, <1>11, Relatives DEF RelayTypes, Relay!ForkFails, Relay!Goes
  <2>2. Spends
    BY <1>1, <2>1, ParentStepTable, Relatives, SMTT(30) DEF ParentSteps
  <2> QED
    BY <1>2, <2>1, <2>2
<1>12. CASE Relay!TakeFatal(0)
  <2>1. /\ pc[0] \notin {"exited", "killed"} /\ pc'[0] = "killed" /\ \A c \in Child : pc'[c] = pc[c]
        /\ UNCHANGED <<pids, handles, pending, told, waits, stops>>
        /\ pc[0] \in {"start", "fork", "push", "waiting", "relaying", "reaping"}
    BY <1>0, <1>12, Relatives DEF RelayTypes, RelayCourse, Relay!TakeFatal, Relay!Alive
  <2>2. ParentSteps' = 0
    BY <2>1, ParentStepTable, Relatives DEF ParentSteps
  <2>3. ParentSteps \in Int /\ ParentSteps > 0
    BY <1>0, <1>1, <2>1, ParentStepTable, Relatives, SMTT(30) DEF ParentSteps
  <2>4. Spends
    <3> HIDE DEF ParentSteps
    <3> QED
      BY <2>2, <2>3
  <2> QED
    BY <1>2, <2>1, <2>4
<1> QED
  BY <1>3, <1>4, <1>5, <1>6, <1>7, <1>8, <1>9, <1>10, <1>11, <1>12, Relatives DEF Relay!ParentStep

(* ... what a child does spends one of its own or a SIGTSTP ... *)
LEMMA ChildSpendsInRelay ==
  ASSUME Relay!StopsAssumption, RelayIInv, RelayCourse, NEW c \in Child,
         Relay!ChildStep(c) \/ Relay!TakeStop(c) \/ Relay!TakeFatal(c)
  PROVE  RelayStepSpent
<1>0. /\ RelayTypes /\ \A d \in Child : told[d] \in Nat /\ told[d] <= 1
      /\ RelayStepCounts /\ stops \in Nat
  BY RelayTyped, TellsAreFew, RelayStepsAreCounted DEF RelayTypes
<1>1. /\ UNCHANGED <<pids, waits, stops>> /\ pc'[0] = pc[0] /\ told'[0] = told[0]
      /\ \A d \in Child \ {c} : pc'[d] = pc[d] /\ handles'[d] = handles[d] /\ told'[d] = told[d]
  BY SMTT(40), <1>0, Relatives
     DEF RelayTypes, Relay!ChildStep, Relay!InstallOwn, Relay!InstallEmpty,
         Relay!Relay, Relay!Told, Relay!TakeStop, Relay!TakeFatal, Relay!Goes
<1>2. \A d \in Child : 20 \in pending'[d] => 20 \in pending[d]
  <2>1. CASE Relay!Relay(c)
    BY <2>1, RelayKeepsStops, Relatives
  <2>2. CASE ~Relay!Relay(c)
    BY <1>0, <2>2, Relatives
       DEF RelayTypes, Relay!ChildStep, Relay!InstallOwn, Relay!InstallEmpty,
           Relay!Told, Relay!TakeStop, Relay!TakeFatal
  <2> QED
    BY <2>1, <2>2
<1>3. ParentSteps' <= ParentSteps
  BY <1>0, <1>1, ParentUntouched DEF RelayStepCounts
<1>4. ASSUME NEW d \in Child PROVE StopsLeft(d)' <= StopsLeft(d)
  BY <1>0, <1>1, <1>2, Relatives DEF StopsLeft, RelayCourse, Relay!StopsAssumption
<1>5. ASSUME NEW d \in Child, d # c PROVE RelaySteps(d)' <= RelaySteps(d)
  BY <1>0, <1>1, <1>5, ChildUntouched DEF RelayStepCounts
<1>6. CASE pc[c] = "waiting" /\ Relay!TakeStop(c)
  <2>1. /\ 20 \in pending[c] /\ 20 \notin pending'[c] /\ UNCHANGED stops
        /\ pc'[c] = pc[c] /\ handles'[c] = handles[c] /\ told'[c] = told[c]
    BY <1>0, <1>6, Relatives DEF RelayTypes, Relay!TakeStop
  <2>2. StopsLeft(c)' < StopsLeft(c)
    BY <1>0, <2>1, Relatives DEF StopsLeft, RelayCourse, Relay!StopsAssumption
  <2>3. RelaySteps(c)' <= RelaySteps(c)
    BY <1>0, <2>1, ChildUntouched DEF RelayStepCounts
  <2> QED
    BY <1>0, <1>1, <1>3, <1>4, <1>5, <2>2, <2>3 DEF RelayStepSpent
<1>7. CASE ~(pc[c] = "waiting" /\ Relay!TakeStop(c))
  <2>1. RelaySteps(c)' < RelaySteps(c) /\ RelaySteps(c)' <= RelaySteps(c)
    <3>0. told[c] \in Nat /\ told[c] <= 1
      BY <1>0
    <3>1. CASE Relay!InstallOwn(c)
      <4>1. pc[c] = "setup" /\ pc'[c] = "setup" /\ handles[c] = {} /\ handles'[c] # {}
        BY <1>0, <3>1, Relatives DEF RelayTypes, Relay!InstallOwn
      <4>2. RelaySteps(c) = 5 /\ RelaySteps(c)' = 4
        BY <4>1, ChildStepsTable DEF RelaySteps
      <4> QED
        BY <4>2
    <3>2. CASE Relay!InstallEmpty(c)
      <4>1. pc[c] = "setup" /\ handles[c] # {} /\ pc'[c] = "waiting"
        BY <1>0, <3>2, Relatives DEF RelayTypes, Relay!InstallEmpty, Relay!Goes
      <4>2. RelaySteps(c) = 4 /\ RelaySteps(c)' = 3
        BY <4>1, ChildStepsTable DEF RelaySteps
      <4> QED
        BY <4>2
    <3>3. CASE Relay!Relay(c)
      <4>1. pc[c] = "relaying" /\ pc'[c] = "relaying" /\ told'[c] = told[c] + 1
        BY <1>0, <3>3, Relatives DEF RelayTypes, Relay!Relay
      <4>2. RelaySteps(c) = 3 - told[c] /\ RelaySteps(c)' = 3 - (told[c] + 1)
        BY <4>1, ChildStepsTable DEF RelaySteps
      <4> QED
        BY <3>0, <4>2
    <3>4. CASE Relay!Told(c)
      <4>1. pc[c] = "relaying" /\ pc'[c] = "exited"
        BY <1>0, <3>4, Relatives DEF RelayTypes, Relay!Told, Relay!Goes
      <4>2. RelaySteps(c) = 3 - told[c] /\ RelaySteps(c)' = 1
        BY <4>1, ChildStepsTable DEF RelaySteps
      <4> QED
        BY <3>0, <4>2
    <3>5. CASE Relay!TakeStop(c)
      <4>1. pc[c] = "setup" /\ pc'[c] = "relaying" /\ told'[c] = told[c]
        BY <1>0, <1>7, <3>5, Relatives DEF RelayTypes, RelayCourse, Relay!TakeStop
      <4>2. RelaySteps(c) \in {4, 5} /\ RelaySteps(c)' = 3 - told[c]
        BY <4>1, ChildStepsTable DEF RelaySteps
      <4> QED
        BY <3>0, <4>2
    <3>6. CASE Relay!TakeFatal(c)
      <4>1. pc[c] \in {"setup", "waiting", "relaying"} /\ pc'[c] = "exited"
        BY <1>0, <3>6, Relatives DEF RelayTypes, RelayCourse, Relay!TakeFatal, Relay!Alive
      <4>2. RelaySteps(c) \in {3, 4, 5, 3 - told[c]} /\ RelaySteps(c)' = 1
        BY <4>1, ChildStepsTable DEF RelaySteps
      <4> QED
        BY <3>0, <4>2
    <3> QED
      BY <3>1, <3>2, <3>3, <3>4, <3>5, <3>6 DEF Relay!ChildStep
  <2> QED
    BY <1>0, <1>1, <1>3, <1>4, <1>5, <2>1 DEF RelayStepSpent
<1> QED
  BY <1>6, <1>7

(* ... and the user spends a SIGTSTP. *)
LEMMA UserSpends ==
  ASSUME Relay!StopsAssumption, RelayIInv, RelayCourse, NEW processes, Relay!Stop(processes)
  PROVE  RelayStepSpent
<1>0. RelayTypes /\ RelayStepCounts
  BY RelayTyped, RelayStepsAreCounted
<1>1. /\ stops \in Nat /\ stops < MaxStops /\ MaxStops \in Nat /\ stops' = stops + 1
      /\ UNCHANGED <<pc, pids, handles, told, waits>>
  BY <1>0 DEF RelayTypes, Relay!Stop, Relay!StopsAssumption
<1>2. ASSUME NEW c \in Child PROVE StopsLeft(c)' <= StopsLeft(c)
  BY <1>1 DEF StopsLeft
<1> QED
  BY <1>0, <1>1, <1>2, ParentUntouched, ChildUntouched DEF RelayStepSpent, RelayStepCounts

(* The steps that the parent and each child have left run out, as often as  *)
(* the user may stop them: each step of a process, and each SIGTSTP, lowers *)
(* one of the counts and raises none.                                       *)
THEOREM RelayStepsRunOut ==
  ASSUME Relay!StopsAssumption
  PROVE  Relay!SafeSpec => []RelayStepCounts /\ [][RelayStepSpent]_(Relay!vars)
<1>1. RelayIInv /\ RelayCourse /\ [Relay!Next]_(Relay!vars) => [RelayStepSpent]_(Relay!vars)
  BY ParentSpends, ChildSpendsInRelay, UserSpends, Relatives
     DEF Relay!Next, Relay!StopGroup, Relay!StopParent
<1>2. RelayIInv /\ RelayCourse => RelayStepCounts
  BY RelayStepsAreCounted
<1> HIDE DEF RelayStepCounts, RelayStepSpent, RelayCourse, RelayIInv
<1> QED
  BY <1>1, <1>2, RelayCourseHolds, PTL DEF Relay!SafeSpec
=============================================================================
