----------------------------- MODULE SignalTable -----------------------------
(***************************************************************************)
(* The signals of lab3-ipc/task4-signal, one for each child, and what the  *)
(* processes promise about who is sent which, however they come to send    *)
(* them: SignalRelay.                                                      *)
(***************************************************************************)
EXTENDS Integers, Sequences

signals == <<16, 17>>
SIGTSTP == 20
IgnoredByDefault == {17}      \* SIGCHLD; signal 16 ends a process by default

Child == 1 .. Len(signals)

NoChild == -1                 \* what fork() returns if it fails

VARIABLES
  pids,        \* the parent's vector: for each signal so far the child, or NoChild
  pending      \* the signals sent to a process and not yet taken

(* pids and signals keep in step: whoever relays, the parent in the middle  *)
(* of its forks or a child that was copied from it, the signal of a child   *)
(* is sent to no other process, which signal 16 would end.  Only a signal   *)
(* whose child could not be forked is sent to others: its place in pids is  *)
(* -1, which kill() takes for every process.                                *)
SignalReachesOnlyItsChild ==
  \A n \in Child : \A p \in DOMAIN pending \ {n} :
    signals[n] \in pending[p] => n \in DOMAIN pids /\ pids[n] = NoChild
==============================================================================
