--------------------------- MODULE DormProperties ---------------------------
(***************************************************************************)
(* What is checked and proved of the dorm.                                 *)
(***************************************************************************)
EXTENDS Dorm

Studying == {id \in Student : pc[id] = "studying"}

-----------------------------------------------------------------------------
(* Safety *)

(* active_count counts the students between its two updates; so             *)
(* is_everyone_sleeping() is exact about those, however the updates and     *)
(* the looks of all students interleave.                                    *)
CountIsRight == active_count = Cardinality(Studying)

(* No student complains without cause: it has looked more than wait_limit   *)
(* times, and at its last look somebody else was studying.                  *)
ComplaintHasCause ==
  [][\A id \in Student :
       pc[id] # "complained" /\ pc'[id] = "complained" =>
         /\ waiting_count[id] = wait_limit
         /\ \E other \in Student \ {id} : pc[other] = "studying"]_vars

-----------------------------------------------------------------------------
(* Liveness *)

(* The light is closed: students that persuade one another to study cannot  *)
(* keep the room awake for ever, as each look costs one of its wait_limit.  *)
LightIsClosed == <>(light = "closed")

=============================================================================
