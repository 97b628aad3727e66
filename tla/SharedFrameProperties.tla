----------------------- MODULE SharedFrameProperties -----------------------
(***************************************************************************)
(* What is checked and proved of the shared frame.                         *)
(***************************************************************************)
EXTENDS SharedFrame

-----------------------------------------------------------------------------
(* Vocabulary *)

WriterHolds(r) == pc_writer[r] \in {"fill", "v"}
ReaderHolds(r) == pc_reader[r] \in {"copy", "v"}
Started(r) == pc_reader[r] # "unborn" /\ ~Over(r)

One(b) == IF b THEN 1 ELSE 0

-----------------------------------------------------------------------------
(* Safety *)

(* While a run uses its semaphores alone, one turn is always somewhere: as  *)
(* the value of one of the two, or with the one process that is between its *)
(* sem_p and its sem_v.  So the processes never touch the frame together,   *)
(* whichever of them has exited, and whatever value a run that failed has   *)
(* left in the semaphore with key 1.                                        *)
TurnsAlternate ==
  \A r \in Run \ crossed : Started(r) =>
    write_sem[r] + ReadSem(r) + One(WriterHolds(r)) + One(ReaderHolds(r)) = 1

(* A run that ended normally leaves no semaphore and no child behind, even  *)
(* if it shared one, and key 1 never names a semaphore that is gone.        *)
NothingLeftBehind ==
  /\ \A r \in Run : pc_writer[r] = "done" =>
       /\ write_sem[r] = Removed
       /\ ReadSem(r) = Removed
       /\ pc_reader[r] \in {"done", "failed"}
  /\ keyed # None => read_sem[keyed] # Removed

-----------------------------------------------------------------------------
(* Liveness *)

(* A run that never meets another gets all its frames across and ends,      *)
(* unless one of its waits is interrupted; whatever earlier runs left.      *)
RunEnds ==
  \A r \in Run :
    pc_writer[r] # "semget"
      ~> (\/ r \in crossed
          \/ pc_writer[r] = "failed" \/ pc_reader[r] = "failed"
          \/ pc_writer[r] = "done" /\ Len(received[r]) = round)

-----------------------------------------------------------------------------
(* Refinement *)

Stream(r) == INSTANCE FrameStream WITH
  Round <- round,
  Frame <- [i \in 0 .. round - 1 |-> Generated(i)],
  Capacity <- 1,
  sent <- i_writer[r],
  received <- received[r]

(* A run is a frame stream as long as it meets no other: whole frames in    *)
(* order, no byte of them older or newer, at most one under way.            *)
ImplementsStream ==
  /\ \A r \in Run : Stream(r)!Init
  /\ [][\A r \in Run :
          r \in crossed' \/ Stream(r)!Next \/ UNCHANGED <<i_writer[r], received[r]>>]_vars

-----------------------------------------------------------------------------
(* What the check in the test build says and the code does not do *)

(* main.cpp:89-93: no run of the test build prints "Data mismatch".         *)
FrameCheckPasses == \A r \in Run : AllMatch(received[r])
=============================================================================
