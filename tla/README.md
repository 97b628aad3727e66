# A verification of the OS lab programs

The repository holds the programs of an operating-systems course: small C and
C++ programs about processes, threads, IPC and memory. They share no code, but
each is a concurrent program with its own protocol between threads or
processes. This directory holds TLA+ modules of those protocols, TLC
configurations that check them on small instances, and proofs of the most
important properties for every instance.

## 1. Inventory

Paths are relative to the repository. "State" is what the actors share.

| Component | State | Operations | Actors and how they interact | What must hold |
|---|---|---|---|---|
| **Hospital** `lab2-thread/task1/src/main.cpp` (the same file again in `lab4-synmut/problem3-hospital/posix`) | ticket counter, `PState`, `patient_queue`, `patient_doctor`, `DState`, a semaphore, a condition variable per patient, four mutexes | take a ticket, queue up, post, wait to be treated, leave; rest, take a patient, signal; create, join, cancel | patient threads, doctor threads, main; mutexes, `sem_post`/`sem_wait`, `pthread_cond_wait`/`signal`, `pthread_cancel` | tickets never oversold, queue and semaphore in step, no lost wakeup, each patient treated once, the program ends |
| **Dorm** `lab2-thread/task2/src/main.cpp` | `active_count` under a mutex | study, look whether somebody studies, decide to join in, give up and complain | eight student threads, main joins them | the light is closed when nobody studies, everybody ends |
| **Message queue** `lab3-ipc/task1-message/src/main.cpp` | a System V message queue | `msgsnd`, `msgrcv`, `IPC_RMID` | writer (parent) and reader (child) process | every frame arrives once, whole and in order |
| **Shared memory** `lab3-ipc/task2-shared_memory/src/main.cpp` | one shared frame, two semaphores | P, write or copy the frame, V, remove | writer and reader process; another run of the same program shares the key of one semaphore | as above |
| **Pipes** `lab3-ipc/task3-pipe/subtask1-unnamed`, `subtask2-named` | the bytes in a pipe | `write`, `read` (both may be short), open, close, unlink | writer and reader process | as above |
| **Signals** `lab3-ipc/task4-signal/src/main.cpp` | process table, dispositions, pending signals | SIGTSTP to all, `kill`, `wait`, `exit` | terminal, parent, two children | the parent ends its children and then itself |
| **Exam** `lab1-process/task2` | the task and its answer (shared by `CLONE_VM`), process table | set the task, check the answer, take the exam, time out, reap | professor, three tutors, ten students, the organizer | all answers agree, nobody is left as a zombie |
| **Apples and oranges** `lab5-multithreading/src` | two sums and an array; 32-bit arithmetic made of bit operations | add, sub, mul, div; `part_a`, `part_b`, `solve` | threads in eight arrangements (serial, two or three parallel, with mutex, affinity, padding) | every arrangement computes the same sums; the arithmetic is that of `uint32_t` |
| **Cancelled printers** `lab6-memory/src/main.c` | `mutex_output`, heap arrays | print, allocate, free, cancel | two threads that main cancels | main ends |
| **Page map reader** `lab6-memory/src/util.cpp` | none (a decoder) | read an entry, decode, translate | one process | the decoded fields are the kernel's |

Tooling is not modelled: `lab1-process/task3` (shell exercises and the targets
they trace), the build, run and benchmark scripts and Makefiles, `util/k_best.py`
and the files under `.github`.

### What is hard here

* *Interleavings*: a test and the update that depends on it are often separate
  (tickets, `active_count`), and so are a post and the change it announces.
* *Wakeups*: the condition variable of a patient is signalled outside the lock.
* *Cancellation*: doctors and lab 6's threads run for ever or print while they
  are cancelled; whether that is safe depends on what they hold at that moment.
* *Byte streams*: `read` and `write` transfer any part of what they are asked to.
* *Signals* are lost, coalesced, or arrive before a handler or a child exists.
* *Shared names*: a FIFO path and a semaphore key are shared by every run of
  the program.
* *Arithmetic* at the boundary of 32 bits, and a division by zero.

`PROJECT.json` lists each hazard at its line.

## 2. Plan

Each program gets one module of its state and actions, one module
`...Properties` of what is claimed about it, an `MC...` module with its
configurations, and a module `...Proofs` of theorems. Two modules of proofs
hold two small programs each: `ThreadProofs` the dorm and the printers,
`ProcessProofs` the exam and the signals. `SignalTable` and `PrinterState` hold
the few variables that the properties of the signals and of the printers are
about, so that a theorem about an instance of the program states the very
definition that TLC checks. The programs do not interact, so what is composed
is each program with its abstract specification and, in the IPC programs, with
other runs of itself and with the user who kills, stops or signals it.

| Order | Modules | Composition | State |
|---|---|---|---|
| 1 | `Clinic`, `Hospital`, `HospitalProperties`, `HospitalProofs` | patients, doctors and main; refines `Clinic` | checked and proved |
| 2 | `Frames`, `FrameStream`, `SharedFrame`, `MessageQueue`, `UnnamedPipe`, `NamedPipe` | writer and reader; the first three refine `FrameStream`; `SharedFrame` and `NamedPipe` hold several runs | checked and proved |
| 3 | `Dorm`, `ThreadProofs` | students and main | checked and proved |
| 4 | `SignalTable`, `SignalRelay`, `ProcessProofs` | parent, children and the user | checked and proved |
| 5 | `Exam`, `ProcessProofs` | organizer, professor, tutors, students | checked and proved |
| 6 | `BitArithmetic`, `AppleOrange` (lab 5) | the threads of every arrangement, with which program runs as a variable | threads and arithmetic checked and proved |
| 7 | `PrinterState`, `OutputMutex` (lab 6), `ThreadProofs` | two threads and the main thread that cancels them | checked and proved |

Every safety property that a passing run checks is proved too, and of the
liveness properties all but the fairness: what the program has done when it
ends, that it never comes to a stop elsewhere, and that it does not go on for
ever (section 5, "Progress"). The plan has nothing left.

## 3. The modules and the code

### Hospital

`Hospital` has one program counter per thread, and its variables have the
names of the program's globals. An action is a stretch of code that touches
shared state at most once outside a critical section, or one access inside it:

* `patient()`: `SeeTicket`, `TakeTicket`, `SeeNoTicket`, `LeaveUntreated` for
  the ticket counter, `BecomeWaiting`, `JoinQueue`, `InformDoctor` for the
  queue and the semaphore, `SeeUntreated`, `CondWait`, `SeeTreated` and
  `SpuriousWakeup` for the predicate loop, `Leave`.
* `doctor()`: `Rest`, `SemWait`, `SeeFront`, `Assign`, `Work`, `Signal`;
  `doctor_cleanup()` is `Cancelled`, which is possible in `sem_wait` alone:
  everywhere else cancellation is disabled.
* `main()`: one action per turn of each of its loops.

A mutex is a variable holding its owner. Mutexes that guard one statement only
(`mutex_print`, `mutex_doctor`) appear as the atomicity of that statement.
`Clinic` is what a visitor is promised: tickets while they last, first come
first served, a doctor for each ticket holder, and everybody is let go. The
mapping (`Place` in `HospitalProperties`) reads a patient's place off its
ticket and its entry of `PState`.

### Frames over four carriers

`Frames` is `struct frame`, and `FrameStream` the promise common to the four
programs: every frame once, whole, in order, a bounded number under way.

* `SharedFrame`: `WriterP`/`Fill`/`WriterV` and `ReaderP`/`Copy`/`ReaderV` are
  the bodies of the two loops, with the frame written and copied byte by byte
  in any order. Because `key` is `IPC_PRIVATE`, `key + 1` is an ordinary key:
  the module holds several runs, which own their frame and write semaphore but
  share one read semaphore. `WriterFails`, `ReaderFails` and the `Interrupted`
  actions are the `exit`s after a failed `semop`. A run that exits that way
  leaves its semaphores, and a later one finds the old read semaphore under key
  1, with whatever value it has, and resets it in `Start`. The history variable
  `crossed`, which no guard reads, has the runs that used a read semaphore while
  another run did.
* `MessageQueue`: `Send`, `Receive`, `ReceiveFails`, `Wait`, `Remove`. The
  queue holds `MaxMessages` frames; either process may be killed.
* `UnnamedPipe`: the pipe is a sequence of bytes. `Transfer` moves any number
  of the current write's bytes, `WriteReturns` ends the write, perhaps short;
  `Read` takes any part of what is there. Which process has which end open
  decides end of file and SIGPIPE (`BrokenPipe`). `reader()` calls `read`
  again at end of file: that changes nothing and is a stuttering step.
* `NamedPipe`: as above for any number of runs that share the path. A FIFO is
  named by the run that made it and outlives its path; `open` waits for the
  other end; a pipe that nobody has open holds nothing. The history variables
  `cut` and `crossed` record that a write of a run was short, and that two
  runs had one FIFO open. They appear in no guard.

### Dorm, signals, exam

* `Dorm`: `StartStudying` and `StopStudying` are the two critical sections of
  `study()`; `FallAsleep` and `KeepWaiting` the two outcomes of
  `is_everyone_sleeping()` in the loop; `Decide` is `check_and_decide()` with
  the random number as a choice.
* `SignalTable` and `SignalRelay`: the array `signals`, dispositions
  (`handles`), pending signals as sets, so that equal signals coalesce, `Kill`
  with whom it reaches and who does not hear it, and `global_handler` step by
  step, in the parent or in a child that has not yet installed `empty_handler`.
  A failed `fork` is pushed like a child (`ForkFails`, then `PushBack` of
  `NoChild`, -1), and `kill` of -1 sends to every process but the caller; the
  user's processes that are not of this program are left out. `StopGroup` is
  Ctrl-Z and `StopParent` is `kill`.
* `Exam`: the task and the answer are one memory for professor, tutors and
  organizer, while students have copies. `solution_a`, `_b`, `_c` are written as
  their loops are. A child is a zombie (`exited`) until it is `reaped`, and
  `kill(pid, 0)` succeeds for it until then.

### Apples and oranges

* `BitArithmetic` is the arithmetic of `config.hpp` at any width. Each
  operation is a loop over the bits, and each local variable of a loop a
  function of the number of rounds (`add_carry`, `mul_tmp`, `div_dividend`). `1
  << n` is the function `pow2`, since the provers know nothing of `^`. `add`
  carries from bit to bit, `sub` adds the complement and one, `mul` adds
  doubled copies, and `div` finds the highest bit of the divisor (`Shift`) and
  subtracts it, where it can, at every shift from the largest that keeps that
  bit down to none.
* `AppleOrange` is the eight programs as four, with `program` as a variable set
  once: affinity and cache padding change no step (`set_cpu` may abort the
  program before it calculates, see the observations). `Script` is the order in
  which `main()` and `apple_solution::solve()` create and join, and `ReadSum`
  and `Assign` are the two halves of `add_and_assign`, between which another
  thread may run. Where the program has a mutex, `ReadSum` locks it and
  `Assign` unlocks it.

### Cancelled printers

* `OutputMutex`: `Lock`, `Write`, `Unlock` are the three lines of `output()`,
  which main and both threads call. Cancellation is deferred, and the only
  point where it takes effect is the `write` inside `printf`, so `Cancelled` is
  possible between `Lock` and `Unlock` alone. The thread dies there with the
  mutex locked, its array allocated and its cleanup handler not yet pushed.
  The place of a caller is `at`, in `PrinterState`, with the heap and the
  cancelled threads.

In every module the section "Slips of the pen" holds wrong variants of some
actions, one plausible mistake each. They belong to no specification; replacing
the action by its slip makes the named property fail, which shows that the
property depends on that line of the code.

## 4. What is checked

All runs explore every interleaving of the instance exhaustively.

| Run | Instance | What it shows |
|---|---|---|
| `hospital` | 3 patients, 2 tickets, 2 doctors | the inductive invariant and the safety properties; every ticket is honoured; the program ends; the threads implement `Clinic`, liveness included |
| `hospital_late_signal` | 2 patients, 1 doctor | a finding: see below |
| `shared_frame` | 2 runs, 2 frames of 2 bytes | turns alternate, a run is a `FrameStream` and ends, unless it meets another on its semaphore, and whatever a failed run has left there; a run that ends leaves nothing |
| `shared_together` | 2 runs, 2 frames of 1 byte | a finding |
| `message_queue` | 8 frames, queue of 3 | the queue is there as long as somebody needs it, `FrameStream`; exactly when a writer without a reader, or a reader without a writer, still ends |
| `unnamed_pipe` | 3 frames of 4 bytes, pipe of 3 | the byte positions of both loops stay in step, `FrameStream`, the writer learns of its reader's death, and the reader ends exactly if all was written |
| `named_pipe` | 2 runs, 2 frames of 2 bytes, pipe of 1, one run mortal | a run that no short write and no other run disturbs is right, whatever was left behind, and ends; one short write keeps the reader in its loop; nothing but a kill leaves the path, nothing but another run takes it away early, and who is left half open by that waits for ever |
| `dorm` | 5 students (2 study at first), `wait_limit` 2 | exact count, complaints with cause, the light is closed |
| `signals` | 2 children (as in the code), 3 SIGTSTP | nobody gets another's signal unless that one's `fork` failed; the relay ends if the children can hear it, and never if one has lost its signal |
| `exam` | 3 students, numbers 2 and 3 of 2 bits | the answer stands; the organizer ends with all children reaped |
| `apple_orange` | all programs, words of 4 bits, 6 rounds of apples, 2 of the orange | the four operations agree with unsigned arithmetic for every pair of words; as many sums at a time as the program is named for; nobody outlives main; all programs end with the same three sums |
| `output_mutex` | 3 threads | who is cancelled takes the mutex along; main ends unless that happens |

Types are not among the properties: for the modules with proofs the type
invariant is the first conjunct of the inductive invariant in the `...Proofs`
module, where the other conjuncts rest on it.

### Why these bounds

* *Hospital*: with three patients for two tickets somebody is turned away, the
  last ticket is contested, and two patients queue while two doctors hold
  tokens, so that each may pop the other's patient. The theorems hold for all
  counts.
* *Frames*: two bytes are the least that can be torn, two frames the least that
  can be out of order or stale; two runs are the least that can share. The
  queue (3 of 8) fills up, drains, and can hold the rest or not. As in the
  program the pipe is smaller than a frame (65536 and `message_size`), which is
  what makes a write wait in the middle; three frames of four bytes over a pipe
  of three let a read end at every offset.
* *NamedPipe*: `Mortal` limits kills to one run, to keep the instance small; the
  other run then meets every state that a dead run leaves behind. The kernel's
  promise that writes up to `PIPE_BUF` are atomic does not apply to frames
  larger than the pipe.
* *Dorm*: two that study first can keep three others waiting or persuade them,
  and two looks (`wait_limit`) are enough to be persuaded before giving up.
* *Signals*: three stops reach the parent and both children before, during and
  after the relay; further ones are coalesced or blocked.
* *Exam*: one student each may have ended, be ending, and never end. With two
  bits, 2 * 3 and 3 * 3 overflow a number but not an answer, as 7e4 to 1e5 do
  in 32 bits.
* *Apples and oranges*: with 4 bits carries run through several bits, sums and
  products wrap, and divisors of every length are shifted, or not, up to the
  highest bit; all 256 pairs are calculated. With six rounds both apple sums
  overflow, with two the orange's does, and so do its two products, as in the
  program.
* *Output mutex*: a third thread, one more than the program has, waits for the
  mutex while main and another thread hold it in turn.

### Fairness

Threads and processes are scheduled: each has weak fairness of its own steps,
and in `Hospital` the steps of a mutex are such that weak fairness is enough,
since threads leave the critical section and lock it only for a bounded number
of times. What a user does (kill, stop, start a run, signal) is never fair, nor
is a spurious wakeup, an interrupted or a short transfer, or a failing `clone`.
A signal that is pending is taken. In `OutputMutex` weak fairness of each
caller is enough although they compete for the mutex: each prints a bounded
number of lines, so in the end nobody else wants it. In `Exam` the calculation
of a student has no fairness, since it may take far longer than the exam.

### Findings

1. *A signal to a condition variable that may be gone*
   (`lab2-thread/task1/src/main.cpp:264`): the doctor signals after unlocking;
   the patient may have seen `BeingTreated` without waiting, left and been
   joined, and main may have destroyed the condition variable.
2. *Two runs share a semaphore*
   (`lab3-ipc/task2-shared_memory/src/main.cpp:129`): `key + 1` is 1, not a
   private key, so the reader of one run is let in by the writer of another.

### Observations

Behaviour worth knowing that the repository does not plainly deny; some of it
is stated by a property of a passing run, the rest is a remark.

* *The named pipe takes a short write for a whole one*
  (`lab3-ipc/task3-pipe/subtask2-named/src/main.cpp:32`), unlike the unnamed
  program. `ShortWriteStarvesReader` says what that means: the reader waits for
  bytes that never come, in every run that does not share the FIFO. Before that
  the test build would print "Data mismatch" for the frame that is out of step.
* *A thread cancelled in its output stops the program* (`lab6-memory/src/main.c`):
  it keeps `mutex_output` locked, the other thread and main wait for it for
  ever, "Bye" is not printed and the thread's array is not freed
  (`CancelledTakesTheMutex`). A cleanup handler that unlocks, pushed before
  the lock, or disabled cancellation around the output would avoid both.
* The mutex of `parallel_3_mutex` guards sums that no two threads share: each
  of `part_a`, `part_b` and the orange has its own, which is why all programs
  end with the same sums (`EndsWithTheSums`) whether they lock or not.
* `set_cpu` of the affinity variants asserts that the affinity could be set,
  which fails on a machine that has none of the processors asked for: the
  program aborts.
* A doctor may call its next patient while the one before is `BeingTreated`:
  the treatment is one `sleep` in each thread (lines 189 and 268 of the
  hospital), although a comment (line 53) speaks of the doctor "currently
  working with" the patient.
* `is_everyone_sleeping()` of the dorm is true when nobody studies, even if
  somebody is about to.
* A SIGTSTP to the signals' parent before the second child has installed its
  handler loses signal 17 (SIGCHLD, ignored by default); the parent then waits
  for that child for ever. Both this and when it ends are `RelayEnds`.
* The signals' parent does not look for a failed `fork`
  (`lab3-ipc/task4-signal/src/main.cpp:53`): -1 is not 0, so it is pushed as a
  pid, and `kill(-1, ...)` in the handler is for every process of the user.
  Signal 16 so ends the other child, whose signal it is not, and if a child
  that has not installed `empty_handler` relays, the parent
  (`SignalReachesOnlyItsChild` says that this is the only way to get another's
  signal).
* Two runs of the named pipe may have the path unlinked by one of them between
  the other's `mkfifo` and its opens: the half that finds no path exits, and the
  half that has opened the old FIFO waits for ever (`PathLastsAndGoes`,
  `UndisturbedRunEnds`).
* A reader of a pipe whose writer was killed calls `read` for ever.
* The organizer's message that a process "does not exist or has terminated"
  (`organizer.cpp:162`) is never printed for a student: a pid that is not yet
  reaped exists. For the same reason the `ECHILD` branch of its last loop is
  never taken.

## 5. What is proved

Each `...Proofs` module states an inductive invariant `IInv`, proves it in
`InvariantHolds`, and derives the properties from it. The only assumptions are
the named ones on the constants (`...Assumption`). The theorems are about
`SafeSpec`, the specification without fairness, which `Spec` implies.

### Hospital

`HospitalProofs` proves, for every number of patients, doctors and tickets
(assuming only `CountsAssumption` of `Hospital`), that `IInv` is an invariant,
and from it type correctness, mutual exclusion, `TicketsAccounted`,
`TokensMatchQueue`, `QueueHoldsTheWaiting`, `NoLostWakeup`, `RecordsAgree`,
`CancelStrandsNobody`, `ReportIsRight`, `TreatedOnce`, and that the threads
refine the safety part of `Clinic`.

None of the properties is inductive alone. That the queue is not empty when a
doctor calls `front()` follows from `TokensMatchQueue`; that this equation is
kept when a patient joins or a doctor pops needs `QueueHoldsTheWaiting` and
mutual exclusion (a doctor between `front()` and `pop()` still sees its patient
at the head); and that nobody is taken twice needs, for each place of a patient
in `patient()`, what its entry of `PState` can be (`PatientLife`). `IInv` is the
conjunction of these with what each place of a doctor (`DoctorLife`) and of main
(`MainLife`) implies. The lemmas go action by action: those at the top
(`QueueOps`, `AppendOps`, `TailOps`, `Counts`) are about sequences and finite
sets and mention no action, the `...Step` lemmas each preserve one
part of `IInv`, and `Inductive` puts them together. `CancelStrandsNobody` and
`ReportIsRight` need a counting argument (`NobodyLeft`): when all patients are
done, the queue is empty, so by `TokensMatchQueue` there are no tokens.
`TreatedOnce` and `HospitalIsAClinic` are about steps and use `IInv` before the
step.

*Progress.* `NeverDeadlocked`: until main's report a thread can go on. A patient
that waits is in the queue, or a doctor has it and will signal it
(`PatientsAreServed`); a queue that is not empty has a token or a post to come, so a
doctor is awake; and whoever owns a mutex is at a place where it goes on. `Staffing`
adds whom main has created and cancelled. `StepsRunOut`: a doctor's loop goes round
once for each patient that has no doctor yet, so it is counted by those.

### Shared frame

`SharedFrameProofs`, for any set of runs and any number and size of frames.
`TurnsAlternate` (`Turn` in the invariant) is about runs that have met no other, and
other runs may come, go and fail around them. So the invariant also says that a
read semaphore is used by the run that created it and that key 1 names none that
is gone (`Keys`), and that of the runs that have one semaphore all but one are
over, unless they have met (`Apart`). A run that finds the semaphore of a failed
run therefore has it to itself, and `Start` makes its turn one, whatever value was
left. For the frames, `Content` says whose bytes are in
the shared and in the local frame depending on where the turn is; the two bytes
loops are sets of positions still to do. `StreamImplemented` then needs only that
`Fill` and `Copy` happen in their turn.

`FrameCheckPasses`, which run `shared_together` violates, is proved for the runs
that have met no other (`AloneTheFrameCheckPasses`): the finding has no other
cause.

*Progress.* `AloneStopsOnlyAtItsEnd`: a run that meets no other goes on
until both processes have ended with every frame arrived, because one of its
processes has the turn or can take it. The count in `StepsRunOut` is of four
kinds for each run, loop steps and bytes of either process, and falls for runs
that share a semaphore, too: they may hang, but they do not run for ever.

### Message queue

`MessageQueueProofs`, for any number of frames and any capacity. `Content` is
the equation "sent is received and queued, in order"; `Life` says whom each
process may outlive. Killing either process changes neither. `Rounds` adds how far
the loops are, and gives the parts of the liveness properties that are safety: a
reader that has ended has all frames (`ReaderEndsWithAllFrames`), and who is left
alone by a kill does not end by itself if the writer's rest does not fit into the
queue, or the reader's was never sent (`SurvivorNeverEndsIfItCannot`):
`SurvivorEndsIffItCan` without the halves that say that it ends.

*Progress.* `StuckOnlyForAKilledProcess`: when neither process can go on, both are
over or the user killed the one that the other waits for. While
neither is killed, a full queue has a reader and an empty one a writer.

### Unnamed pipe

`UnnamedPipeProofs`, for any sizes of pipe and frame, even where a frame fits
into the pipe. `StreamInOrder` says that the byte at position `BytesOut + k` of the
stream is in the pipe at `k`, and belongs to the frame that position divided by
the size of a frame tells. It is inductive with the bounds of both loops (`Loops`)
and with what the reader has of its current frame (`Prefix`). The lemmas at the
top (`FrameOfPosition`, `WholeFrames`, `FramesWithin`) are about
products and quotients and mention no variable. In `StreamImplemented` a frame
counts as sent from its first byte on; that the number of frames under way is
bounded by `PipeSize` is where the quotients are needed.

`Endings` adds who may end when. A reader leaves its loop with all frames and
an empty pipe, before or after the last `write` has returned
(`ReaderEndsWithAllFrames`), so SIGPIPE means that the reader was killed
(`OnlyAKilledReaderBreaksThePipe`); and who is killed leaves no copy of its end
open elsewhere (`DeathClosesThePipe`), which is what the `close` calls after
`fork` are for.

*Progress.* `StuckOnlyAtTheEndOfFile`: the loops stop at their ends only, or at the
end of the file of a killed writer, where the program reads for ever. A writer that
waits for room has a reader in its loop, since whoever has not read everything has
not left it (`Course`). In `StepsRunOut` each byte moved lowers a count, however
the transfers are cut up.

### Named pipe

`NamedPipeProofs`, for any set of runs of which any may be killed, and any
sizes. The invariant has two layers. One holds of every run: which end is open
at which place of the code (`Ends`), who will still remove the path (`Path`), a
FIFO nobody has open is empty (`Unused`), and two runs that have one open are
marked in `crossed` (`Apart`). The other (`Quietly`) is about a run that is not
in `crossed`: nothing has passed before its reader reads (`Before`); while it
reads, what went in, what came out and what is in the pipe add up, exactly or,
after a short write, with some missing (`During`); and when it has read all,
nothing was missing (`After`), since a run writes `round * message_size` bytes
at most. That another run's step leaves a quiet run alone is the lemma
`OtherRun`; the theorems follow from `Path` and `Quietly`. A third, `Unlinked`,
is needed for the second half of `PathLastsAndGoes`: a run unlinks only when
its own child is over, so who misses the path misses it because of another run
that has ended. That SIGPIPE ends a writer only when its own reader was killed
(`OnlyAKilledReaderBreaksThePipe`) also needs that a child which finds no path
does so before its parent can write (`Broken`).

*Progress.* `UndisturbedRunStopsOnlyAtItsEnd`: `UndisturbedRunEnds` without the
fairness. That the two `open` calls of a run do not wait for one another is `Meet`:
two that have met in one FIFO are both let go on, whoever else was there. The count
in `StepsRunOut` is each run's own, and no other run raises it.

### Dorm

`ThreadProofs`, for any number of students and any limit: `active_count` is a
cardinality, so each update adds or removes exactly one member of the set of
those that study; `ComplaintHasCause` also needs that a student in
the loop has not exceeded its limit (`Patient`). `LightClosedOnNobody` says in
which state the light is closed, by how far main has joined (`Joining`).

*Progress.* `DormNeverDeadlocked` and `DormStepsRunOut`: a student that is neither
asleep nor complaining can always take its next step (`Creating` says that
main joins nobody it has not created), and how long students can persuade one
another is bounded by the patience each has left.

### Cancelled printers

The second half of `ThreadProofs`, for any number of threads: whoever prints,
or died printing, holds the mutex (`Held`), main has joined all threads before
its index (`Joined`), and who has an array will free it unless it was cancelled
(`WillFree`). `NobodyPrintsAfterwards`: from a cancellation on nobody else
prints and main does not end, ever.

*Progress.* `StuckOnlyForADeadThreadsMutex`: unless main has ended somebody can
go on, or a cancelled thread has the mutex and main, or the thread main is
joining, waits for it. So cancellation is the program's only deadlock.
`Holding` is why: whoever holds the mutex and is not dead is about to unlock
it.

The program comes in as an instance (`Printers == INSTANCE ...`) because both
programs name their variables alike; those of `PrinterState` are shared.
Assumptions of an instanced module are no facts in the module that instances
it, so some of these theorems name `Printers!ThreadAssumption` as their
hypothesis; it is the assumption `MCOutputMutex` has TLC evaluate. The same
holds of `Relay!StopsAssumption` below.

### Exam

`ProcessProofs`, for any number of students and any numbers. That the three
methods multiply (`SolutionsAgree`) is about their loops: see the induction below.
`Alone` says that nobody but the professor is there before it is reaped,
`Professing` how much of the task it has set, and `SameTask` that whoever
calculates afterwards calculates with that task; so the tutors, who do write
the shared answer, write what is there (`AnswerNeverChanges`), and `AnswerStands`
follows. `EverybodyIsReaped` is the half of `ExamEnds` that is safety; it needs
`Waiting`: a student that is not yet reaped is in the organizer's vector, which is
complete before the organizer looks at it.

*Progress.* `ExamWaitsForNoCalculation`: until the organizer has ended or
aborted somebody can take a step that is neither a calculation nor a failure.
Where the organizer waits for a child there is one that has ended or will by
its own steps; in the last loop each student left has a SIGTERM to take
(`Terminated`). `Staffing` says whom the organizer has created and reaped in
each of its loops. A child counts its own reaping as its last step in
`ExamStepsRunOut`.

### Signals

The second half of `ProcessProofs`, for any number of SIGTSTP. `InStep` is why
nobody gets another's signal (`SignalAlwaysReachesOnlyItsChild`): the parent's
vector and the copy each child got at its `fork` hold the first children in order,
with -1 for one that was never born and for no other, and the handler never tells
more than it knows. So a signal goes astray only where its own child does not
exist. `ParentReapsAll`: a parent that has been through both forks exits only
after every child there is was reaped, since each of its `wait` calls reaps
another as long as there is one (`Reaping`).

*Progress.* `RelayRestsOnlyForALostSignal`: if nobody but the user can act, the
parent has ended, by itself or by a child's `kill(-1, 16)`, or has not been
stopped, or waits for a child that ignored the signal it was told. So the lost
SIGCHLD (see the observations) is the only way for the relay to hang, wherever
SIGTSTP comes in and even if the children relay as well. `RelayCourse` follows
a signal that was not ignored until its child is over. The step count of
`RelayStepsRunOut` includes the SIGTSTPs still to come, of which there are at
most `MaxStops`; that bound is the model's, and any number.

### Apples and oranges

`AppleOrangeProofs`, for any width, any number of rounds and all programs.

*Threads*: a thread lives from its creation to its join (`Life`), told by how
far its creator is in its `Script`. `NobodyOutlivesMain` follows for the two
threads main never joins itself, and `ParallelAsNamed` by counting those
created and not joined.

*Arithmetic* (`AssertsAlwaysHold`): each local variable of a loop has a closed
form. After n rounds of `add` the carry and the result are what the sum of the low
n bits of both words gives when it is divided by `pow2[n]` (`AddCarry`,
`AddResult`); `mul` has the product with the low n bits of `b` (`MulResult`) and
a multiplicand shifted n times (`MulTmp`); and in `div`, down to shift n, the
dividend is `a % (b * pow2[n])` and the quotient a multiple of `pow2[n]`
(`DivDividend`, `DivQuotient`), where `Shifts` says that a shift which `div`
uses loses no bit of the divisor, and that a larger one exceeds every word.

*Sums* (`EndsWithNoOtherSums`): a sum is the sum of its terms up to the index
of its loop, and one that was read has not changed until it is assigned
(`Adding`): only one thread adds to it, with or without the mutex. The terms are
those of `PlainTerm` because the operations are right.

*Progress.* `NeverDeadlocked` and `StepsRunOut`: nobody joins its creator, so
that of those that are running one is at work; and if it waits for the mutex,
whoever has that is between its read and its assignment (`Locking`) and goes
on.

### Progress

Liveness cannot be proved here, since fairness is defined by `ENABLED`, which
the proof system does not handle. But what liveness needs besides fairness is
safety, and each `...Proofs` module has a section that proves it:

* *Nobody waits in vain.* The predicates `...CanStep` are the guards of a
  process's actions, those the environment may not take (kills, stops, spurious
  wakeups, failures) left out. The theorem says where the program is if all of
  them are false: it is a theorem about deadlock, and names the states, if any,
  in which the code does stop.
* *Nobody goes on for ever.* The `...Steps` are natural numbers (`...StepCounts`) of
  which every step lowers one and none raises any (`...StepSpent`).

Together, in a program whose processes are scheduled, some process that can act
does so until none can, which happens after boundedly many steps, and then the
program is where the first theorem says. That the predicates are the guards is
to be read off the actions; TLC, which does evaluate `ENABLED`, finds no state
of the instances above in which one of them differs from `ENABLED` of its
actions.

Exceptions to the count are spurious wakeups (the hospital), of which there may
be any number. A step that leaves the state as it is counts for nothing, such
as a read at the end of file.

### Induction over loops

The induction theorems of the library take a predicate as an operator, and the
provers cannot instantiate one. The proofs take the set where the predicate
holds instead: `SetInduction` is induction for a set, proved from the fact that
`<` on the numbers is well-founded, and `Agree` compares two functions that
start alike and go on alike. A recursive definition is a `CHOOSE`; that there
is something to choose is `RecursionDefines` where the steps are functions, and
elsewhere the closed form itself, which satisfies the recursion. The lemmas
stand in both modules that need them, so that each can be checked alone.

### Only model-checked

Liveness as such, which needs `ENABLED`: `TicketIsHonoured`, `ProgramEnds` and
the fairness of `Clinic`; `RunEnds`, `SurvivorEndsIffItCan`,
`WriterNoticesReader`, `ReaderEndsIffAllIsWritten` and `UndisturbedRunEnds`;
`LightIsClosed`; `RelayEnds`, `ExamEnds`, `EndsWithTheSums` and
`EndsUnlessCancelled`. The theorems named above prove in which state each
program is if it ends, that it can stop nowhere else, and that it does stop;
what remains with TLC is that fairness of each process turns the second and
third into the first, and that weak fairness is enough.

## 6. What is abstracted

* Output, its mutexes, times and the duration of sleeps: a sleep is the chance
  that everything else happens first. Random numbers are choices.
* A handler that interrupts the standard library is taken to do what it says.
* A segment, a semaphore, a queue or a pipe that cannot be created at the start
  ends the program before it has a protocol. A failed `fork` or `clone` is
  modelled in the signals (`ForkFails`) and in `Exam`. The other IPC programs
  do not look for -1 either: the parent goes on without a child, as it does, in
  their modules, after one that is killed (in `SharedFrame`: that fails) in its
  first step. The thread programs do not look at what `pthread_create` returns;
  it is assumed to succeed.
* Bytes are the low eight bits of the seed, as the cast to `std::byte` leaves
  them; the sizes are small.
* Affinity and cache padding (lab 5) change speed only.
* Not modelled: the page map reader `lab6-memory/src/util.cpp`, a sequential
  decoder that keeps nothing between two entries, and tooling (see section 1).
