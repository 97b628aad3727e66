------------------------------- MODULE Clinic -------------------------------
(***************************************************************************)
(* What the hospital program (lab2-thread/task1, the same file again as    *)
(* lab4-synmut/problem3-hospital) promises to a patient, without threads,  *)
(* mutexes, semaphores or condition variables: tickets are sold while they *)
(* last, ticket holders line up, and the doctors take them from the head   *)
(* of the line, each patient by one doctor.                                *)
(***************************************************************************)
EXTENDS Integers, Sequences

CONSTANTS Patient,   \* the patients
          Doctor,    \* the doctors
          Tickets,   \* how many tickets there are to sell
          None       \* no doctor

VARIABLES tickets,   \* tickets not yet sold
          place,     \* where each patient is
          line,      \* the patients waiting, in order
          doctorOf   \* who treats or treated each patient, None before that

cvars == <<tickets, place, line, doctorOf>>

Places == {"outside", "ticketed", "line", "room", "gone", "turned_away"}

Init == /\ tickets = Tickets
        /\ place = [p \in Patient |-> "outside"]
        /\ line = <<>>
        /\ doctorOf = [p \in Patient |-> None]

Move(p, from, to) == /\ place[p] = from
                     /\ place' = [place EXCEPT ![p] = to]

Admit(p) == /\ Move(p, "outside", "ticketed")
            /\ tickets > 0
            /\ tickets' = tickets - 1
            /\ UNCHANGED <<line, doctorOf>>

\* Only a clinic that has sold every ticket turns a patient away.
TurnAway(p) == /\ Move(p, "outside", "turned_away")
               /\ tickets = 0
               /\ UNCHANGED <<tickets, line, doctorOf>>

LineUp(p) == /\ Move(p, "ticketed", "line")
             /\ line' = Append(line, p)
             /\ UNCHANGED <<tickets, doctorOf>>

\* First come, first served; and a patient is called once.
Call(p, d) == /\ line # <<>>
              /\ p = Head(line)
              /\ Move(p, "line", "room")
              /\ line' = Tail(line)
              /\ doctorOf[p] = None
              /\ doctorOf' = [doctorOf EXCEPT ![p] = d]
              /\ UNCHANGED tickets

Leave(p) == /\ Move(p, "room", "gone")
            /\ UNCHANGED <<tickets, line, doctorOf>>

Next == \E p \in Patient : \/ Admit(p)
                           \/ TurnAway(p)
                           \/ LineUp(p)
                           \/ \E d \in Doctor : Call(p, d)
                           \/ Leave(p)

\* Nobody is kept waiting for ever at any stage of the visit.
Fairness == \A p \in Patient : /\ WF_cvars(Admit(p) \/ TurnAway(p))
                               /\ WF_cvars(LineUp(p))
                               /\ WF_cvars(\E d \in Doctor : Call(p, d))
                               /\ WF_cvars(Leave(p))

SafeSpec == Init /\ [][Next]_cvars
Spec == SafeSpec /\ Fairness
=============================================================================
