---------------------------- MODULE AppleOrange ----------------------------
(***************************************************************************)
(* lab5-multithreading: eight programs that calculate the same three sums. *)
(* main creates a thread for the apples, which creates one for each of     *)
(* their two sums, and a thread for the orange.  The programs differ in    *)
(* when a thread is joined and in whether a mutex guards the apple sums.   *)
(* Affinity and padding change neither: the variants named ..._affinity    *)
(* and ..._cache_padding do the steps of the program they are variants of. *)
(***************************************************************************)
EXTENDS BitArithmetic, Sequences, FiniteSets

CONSTANTS APPLE_MAX_VALUE, ORANGE_MAX_VALUE,
          apple_a_mul, apple_a_div, apple_b_mul, apple_b_div,
          orange_init_a, orange_init_b, orange_ka, orange_kb

ASSUME AppleOrangeAssumption ==
  /\ APPLE_MAX_VALUE \in Word \ {0} /\ ORANGE_MAX_VALUE \in Nat \ {0}
  /\ {apple_a_mul, apple_b_mul, orange_init_a, orange_init_b, orange_ka, orange_kb} \subseteq Word
  /\ {apple_a_div, apple_b_div} \subseteq Word \ {0}

Program == {"serial", "parallel_2", "parallel_3", "parallel_3_mutex"}

Summer == {"part_a", "part_b", "orange"}    \* the threads that calculate a sum
Creator == {"main", "apple"}                \* the threads that create threads
None == "none"
Unread == -1                                \* of a sum that is not being added to

VARIABLES
  program,     \* the one that runs
  state,       \* of every thread
  at,          \* how far main() and apple_solution::solve() are in their Script
  i, sum,      \* the loop index of each sum, and the sum
  seen,        \* the sum that add_and_assign has read
  mutex

vars == <<program, state, at, i, sum, seen, mutex>>

Init ==
  /\ program \in Program
  /\ state = [t \in Summer \union Creator |-> IF t = "main" THEN "running" ELSE "unborn"]
  /\ at = [t \in Creator |-> 1]
  /\ i = [t \in Summer |-> 0] /\ sum = [t \in Summer |-> 0]
  /\ seen = [t \in Summer |-> Unread]
  /\ mutex = None

\* Create first and second, and join each, at once or when both are created.
Script(t) ==
  LET first == IF t = "main" THEN "apple" ELSE "part_a"
      second == IF t = "main" THEN "orange" ELSE "part_b"
      both == IF t = "main" THEN program # "serial"
              ELSE program \in {"parallel_3", "parallel_3_mutex"}
      create(u) == <<"create", u>>
      join(u) == <<"join", u>>
  IN  IF both THEN <<create(first), create(second), join(first), join(second)>>
      ELSE <<create(first), join(first), create(second), join(second)>>

Max(t) == IF t = "orange" THEN ORANGE_MAX_VALUE ELSE APPLE_MAX_VALUE

\* What part_a, part_b and orange_solution::solve add in round n.
Term(t, n) ==
  CASE t = "part_a" -> div[<<mul[<<n, apple_a_mul>>], apple_a_div>>]
    [] t = "part_b" -> div[<<mul[<<n, apple_b_mul>>], apple_b_div>>]
    [] t = "orange" -> add[<<mul[<<orange_init_a, orange_ka>>], mul[<<orange_init_b, orange_kb>>]>>]

Locks(t) == program = "parallel_3_mutex" /\ t # "orange"

-----------------------------------------------------------------------------
(* Slips of the pen: wrong variants of actions below, part of no            *)
(* specification.  Each makes a property of AppleOrangeProperties fail.     *)

JoinAtOnce(t) ==               \* no pthread_join
  /\ state[t] = "running" /\ at[t] <= 4 /\ Script(t)[at[t]][1] = "join"
  /\ at' = [at EXCEPT ![t] = @ + 1]
  /\ UNCHANGED <<program, state, i, sum, seen, mutex>>

AssignLocked(t) ==             \* no pthread_mutex_unlock
  /\ seen[t] # Unread
  /\ sum' = [sum EXCEPT ![t] = add[<<seen[t], Term(t, i[t])>>]]
  /\ i' = [i EXCEPT ![t] = @ + 1] /\ seen' = [seen EXCEPT ![t] = Unread]
  /\ UNCHANGED <<program, state, at, mutex>>

-----------------------------------------------------------------------------
(* main() and apple_solution::solve() *)

Create(t) ==
  /\ state[t] = "running" /\ at[t] <= 4
  /\ LET step == Script(t)[at[t]]
     IN  step[1] = "create" /\ state' = [state EXCEPT ![step[2]] = "running"]
  /\ at' = [at EXCEPT ![t] = @ + 1]
  /\ UNCHANGED <<program, i, sum, seen, mutex>>

Join(t) ==
  /\ state[t] = "running" /\ at[t] <= 4
  /\ LET step == Script(t)[at[t]] IN step[1] = "join" /\ state[step[2]] = "ended"
  /\ at' = [at EXCEPT ![t] = @ + 1]
  /\ UNCHANGED <<program, state, i, sum, seen, mutex>>

-----------------------------------------------------------------------------
(* part_a(), part_b() and orange_solution::solve() *)

\* The term is calculated in local variables; add_and_assign reads the sum ...
ReadSum(t) ==
  /\ state[t] = "running" /\ i[t] < Max(t) /\ seen[t] = Unread
  /\ IF Locks(t) THEN mutex = None /\ mutex' = t ELSE UNCHANGED mutex
  /\ seen' = [seen EXCEPT ![t] = sum[t]]
  /\ UNCHANGED <<program, state, at, i, sum>>

\* ... and writes it.
Assign(t) ==
  /\ seen[t] # Unread
  /\ sum' = [sum EXCEPT ![t] = add[<<seen[t], Term(t, i[t])>>]]
  /\ i' = [i EXCEPT ![t] = @ + 1] /\ seen' = [seen EXCEPT ![t] = Unread]
  /\ mutex' = IF Locks(t) THEN None ELSE mutex
  /\ UNCHANGED <<program, state, at>>

End(t) ==
  /\ state[t] = "running"
  /\ IF t \in Summer THEN i[t] = Max(t) ELSE at[t] > 4
  /\ state' = [state EXCEPT ![t] = "ended"]
  /\ UNCHANGED <<program, at, i, sum, seen, mutex>>

-----------------------------------------------------------------------------

CreatorStep(t) == Create(t) \/ Join(t) \/ End(t)
SummerStep(t) == ReadSum(t) \/ Assign(t) \/ End(t)

Next == \/ \E t \in Creator : CreatorStep(t)
        \/ \E t \in Summer : SummerStep(t)

SafeSpec == Init /\ [][Next]_vars

\* All threads are scheduled.
Fairness == /\ \A t \in Creator : WF_vars(CreatorStep(t))
            /\ \A t \in Summer : WF_vars(SummerStep(t))

Spec == SafeSpec /\ Fairness
=============================================================================
