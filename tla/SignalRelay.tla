---------------------------- MODULE SignalRelay ----------------------------
(***************************************************************************)
(* lab3-ipc/task4-signal: the parent forks one child per signal of         *)
(* "signals"; on SIGTSTP it sends each child its signal, waits for them    *)
(* and exits.                                                              *)
(*                                                                         *)
(* The user stops the whole process group (Ctrl-Z) or the parent alone     *)
(* (kill -TSTP).  A signal is pending once however often it is sent, and   *)
(* is taken some time later; the step a process is in may still end        *)
(* before.  A signal that is ignored when it is sent is gone.  SIGTSTP is  *)
(* blocked while its handler runs.                                         *)
(*                                                                         *)
(* A child starts as a copy of the parent: until it has installed its own  *)
(* handlers SIGTSTP runs global_handler in the child, on the pids the      *)
(* parent had at the fork.                                                 *)
(*                                                                         *)
(* A fork that fails is pushed all the same, as the pid -1, and a kill of  *)
(* -1 is for every process but the caller.  Only the parent and its        *)
(* children are modelled; the user's other processes hear it, too.         *)
(***************************************************************************)
EXTENDS SignalTable

CONSTANT MaxStops      \* how often the user stops the processes, a bound

ASSUME StopsAssumption == MaxStops \in Nat

Parent == 0
Process == {Parent} \union Child

VARIABLES
  pc,          \* of every process
  handles,     \* the signals whose handler a child has installed itself
  told,        \* how many kills global_handler has made, in each process
  waits,       \* how many waits have returned in the parent
  stops        \* how often the user has sent SIGTSTP

vars == <<pc, pids, handles, pending, told, waits, stops>>

Init ==
  /\ pc = [p \in Process |-> IF p = Parent THEN "start" ELSE "unborn"]
  /\ pids = <<>>
  /\ handles = [c \in Child |-> {}]
  /\ pending = [p \in Process |-> {}]
  /\ told = [p \in Process |-> 0]
  /\ waits = 0 /\ stops = 0

Goes(p, from, to) == pc[p] = from /\ pc' = [pc EXCEPT ![p] = to]
Alive(p) == pc[p] \notin {"unborn", "exited", "reaped", "killed"}

\* The vector pids as process p sees it: a child has what was there at its fork.
pids_of(p) == IF p = Parent THEN pids ELSE [n \in 1 .. p - 1 |-> pids[n]]

\* A process that is over hears nothing, nor does one that ignores the signal.
Hears(p, s) ==
  Alive(p) /\ (s \notin IgnoredByDefault \/ (p \in Child /\ s \in handles[p]))

\* kill(pid, s), called by p.
Kill(p, pid, s) ==
  LET receivers == IF pid = NoChild THEN Process \ {p} ELSE {pid}
  IN  pending' = [q \in Process |-> IF q \in receivers /\ Hears(q, s)
                                    THEN pending[q] \union {s} ELSE pending[q]]

\* pid, in the parent: whom the last fork made.
forked == LET n == Len(pids) + 1 IN IF pc[n] = "unborn" THEN NoChild ELSE n

-----------------------------------------------------------------------------
(* Slips of the pen: wrong variants of actions below, part of no            *)
(* specification.  Each makes a property of SignalRelayProperties fail.     *)

PushFront ==                   \* pids.insert(pids.begin(), pid)
  /\ Goes(Parent, "push", IF Len(pids) + 1 < Len(signals) THEN "fork" ELSE "waiting")
  /\ pids' = <<forked>> \o pids
  /\ UNCHANGED <<handles, pending, told, waits, stops>>

RelayLess(p) ==                \* i + 1 < pids.size()
  /\ pc[p] = "relaying" /\ told[p] < Len(pids_of(p))
  /\ IF told[p] + 1 < Len(pids_of(p))
     THEN Kill(p, pids_of(p)[told[p] + 1], signals[told[p] + 1]) ELSE UNCHANGED pending
  /\ told' = [told EXCEPT ![p] = @ + 1]
  /\ UNCHANGED <<pc, pids, handles, waits, stops>>

-----------------------------------------------------------------------------
(* main(), in the parent *)

InstallGlobal ==
  /\ Goes(Parent, "start", "fork")
  /\ UNCHANGED <<pids, handles, pending, told, waits, stops>>

Fork ==
  /\ pc[Parent] = "fork"
  /\ pc' = [pc EXCEPT ![Parent] = "push", ![Len(pids) + 1] = "setup"]
  /\ UNCHANGED <<pids, handles, pending, told, waits, stops>>

ForkFails ==
  /\ Goes(Parent, "fork", "push")
  /\ UNCHANGED <<pids, handles, pending, told, waits, stops>>

PushBack ==
  /\ Goes(Parent, "push", IF Len(pids) + 1 < Len(signals) THEN "fork" ELSE "waiting")
  /\ pids' = Append(pids, forked)
  /\ UNCHANGED <<handles, pending, told, waits, stops>>

-----------------------------------------------------------------------------
(* main(), in a child *)

InstallOwn(c) ==
  /\ pc[c] = "setup" /\ handles[c] = {}
  /\ handles' = [handles EXCEPT ![c] = {signals[c]}]
  /\ UNCHANGED <<pc, pids, pending, told, waits, stops>>

InstallEmpty(c) ==
  /\ handles[c] = {signals[c]} /\ Goes(c, "setup", "waiting")
  /\ handles' = [handles EXCEPT ![c] = @ \union {SIGTSTP}]
  /\ UNCHANGED <<pids, pending, told, waits, stops>>

-----------------------------------------------------------------------------
(* Signals are taken *)

\* empty_handler in a child that has installed it, else global_handler.
TakeStop(p) ==
  /\ SIGTSTP \in pending[p]
  /\ pc[p] \in {"fork", "push", "waiting", "setup"}
  /\ pending' = [pending EXCEPT ![p] = @ \ {SIGTSTP}]
  /\ pc' = IF p \in Child /\ pc[p] = "waiting" THEN pc ELSE [pc EXCEPT ![p] = "relaying"]
  /\ UNCHANGED <<pids, handles, told, waits, stops>>

\* handler() in a child, or the default action: either way the process is over.
TakeFatal(p) ==
  /\ Alive(p) /\ ~(pending[p] \subseteq {SIGTSTP})
  /\ pc' = [pc EXCEPT ![p] = IF p = Parent THEN "killed" ELSE "exited"]
  /\ UNCHANGED <<pids, handles, pending, told, waits, stops>>

-----------------------------------------------------------------------------
(* global_handler() *)

Relay(p) ==
  /\ pc[p] = "relaying" /\ told[p] < Len(pids_of(p))
  /\ Kill(p, pids_of(p)[told[p] + 1], signals[told[p] + 1])
  /\ told' = [told EXCEPT ![p] = @ + 1]
  /\ UNCHANGED <<pc, pids, handles, waits, stops>>

\* All are told.  A child has no children to wait for and exits.
Told(p) ==
  /\ Goes(p, "relaying", IF p = Parent THEN "reaping" ELSE "exited")
  /\ told[p] = Len(pids_of(p))
  /\ UNCHANGED <<pids, handles, pending, told, waits, stops>>

\* wait(nullptr): any child will do, and none is needed if none is left.
Wait ==
  /\ pc[Parent] = "reaping" /\ waits < Len(pids)
  /\ \/ \E c \in Child : Goes(c, "exited", "reaped")
     \/ (\A c \in Child : pc[c] \in {"unborn", "reaped"}) /\ UNCHANGED pc
  /\ waits' = waits + 1
  /\ UNCHANGED <<pids, handles, pending, told, stops>>

Exit ==
  /\ waits = Len(pids) /\ Goes(Parent, "reaping", "exited")
  /\ UNCHANGED <<pids, handles, pending, told, waits, stops>>

-----------------------------------------------------------------------------
(* The user *)

Stop(processes) ==
  /\ stops < MaxStops /\ Alive(Parent) /\ pc[Parent] # "start"
  /\ stops' = stops + 1
  /\ pending' = [p \in Process |-> IF p \in processes /\ Alive(p)
                                   THEN pending[p] \union {SIGTSTP} ELSE pending[p]]
  /\ UNCHANGED <<pc, pids, handles, told, waits>>

StopGroup == Stop(Process)
StopParent == Stop({Parent})

-----------------------------------------------------------------------------

ParentStep == \/ InstallGlobal \/ Fork \/ ForkFails \/ PushBack
              \/ TakeStop(Parent) \/ Relay(Parent) \/ Told(Parent) \/ Wait \/ Exit
ChildStep(c) == InstallOwn(c) \/ InstallEmpty(c) \/ Relay(c) \/ Told(c)

Next == \/ ParentStep \/ StopGroup \/ StopParent
        \/ \E c \in Child : ChildStep(c) \/ TakeStop(c)
        \/ \E p \in Process : TakeFatal(p)

SafeSpec == Init /\ [][Next]_vars

\* All processes are scheduled, and signals are taken; the user need not stop them.
Fairness == /\ WF_vars(ParentStep)
            /\ \A c \in Child : WF_vars(ChildStep(c))
            /\ \A p \in Process : WF_vars(TakeStop(p)) /\ WF_vars(TakeFatal(p))

Spec == SafeSpec /\ Fairness
=============================================================================
