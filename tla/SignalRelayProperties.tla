----------------------- MODULE SignalRelayProperties -----------------------
(***************************************************************************)
(* What is checked of the signals, besides SignalReachesOnlyItsChild of    *)
(* SignalTable.                                                            *)
(***************************************************************************)
EXTENDS SignalRelay

Over(c) == pc[c] \in {"exited", "reaped"}

(* A child hears its signal unless it ignores it by default and has not yet *)
(* installed its own handler. *)
CanHear(c) == \/ Over(c) \/ signals[c] \in handles[c]
              \/ signals[c] \notin IgnoredByDefault

(* The children there are among those that have been pushed. *)
Forked == {pids[n] : n \in DOMAIN pids} \ {NoChild}

\* Waits for a signal that it has not been sent, or has lost, and that no other ends.
Deaf(c) == pc[c] = "waiting" /\ pending[c] \subseteq {SIGTSTP}

(* global_handler ends all the children it knows and then the parent, if    *)
(* they can hear their signals when it begins; even if SIGTSTP came between *)
(* two forks, if a fork failed, or if the children, which it may have       *)
(* reached, too, relay to one another or to the parent.  If a child has     *)
(* lost its signal, the parent waits for that child for ever.               *)
RelayEnds ==
  /\ (pc[Parent] = "relaying" /\ told[Parent] = 0 /\ \A c \in Forked : CanHear(c))
       ~> (pc[Parent] \in {"exited", "killed"} /\ \A c \in Forked : Over(c))
  /\ [](pc[Parent] = "reaping" /\ (\E c \in Forked : Deaf(c)) => [](pc[Parent] = "reaping"))
=============================================================================
