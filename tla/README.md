# TLA+ models of the programs in Computer-Science-Notes

The repository is a collection of study programs, not one system: the source distribution of *The Linux Programming
Interface* (`tlpi-dist`, most of the C code), course code for *APUE*, algorithms in Java, a Monkey interpreter front end in
Go, the language SIMPLE in Ruby, and notes. What is hard to get right in it, and hard to test, are the groups of processes,
threads and signal handlers that have to agree on something. The project models those, and states what they promise each
other. `PROJECT.json` lists every part of the repository with its files, and the hazards at the lines where they bite.

Paths below are relative to `src/The-Linux-Programming-Interface/tlpi-dist/` unless they start with `src/`.

## Two ways of modelling

Eight programs or pairs of programs have a protocol of their own, with a state that outlives a call; each of them has a
**module of its own**, with one action per operation, and theorems about it. The many small programs whose difficulty is the
order of their system calls are written as **texts for an interpreter**: `Unix` is the part of a kernel that they use, and a
program is a record of blocks of instructions, one for each system call.

| part | who interacts | what makes it hard | modules |
| --- | --- | --- | --- |
| `svshm/svshm_xfr_*`, `svsem/binary_sems.c` | writer, readers | readers started at any time, kills, removal of objects in use | `ShmXfr`, `ByteChannel`, `ShmXfrProofs` |
| `inotify/inotify_dtree.c` | processes that change the tree, the kernel's queue, a user | changes between any two system calls, split and lost events, rebuilds | `DTree`, `InotifyFS`, `DTreeLemmas`, `DTreeProofs` |
| `svsem/svsem_good_init.c` | processes that race to create a semaphore | use before initialisation, a creator that dies | `SemInit`, `SyncProofs` |
| `threads/prod_condvar.c` | producers, consumer | missed and spurious wake-ups, lost updates | `ProdCond`, `Pthreads`, `SyncProofs` |
| `threads/thread_multijoin.c` | threads, joiner | threads that end early, join under the mutex | `ThreadJoin`, `Pthreads`, `SyncProofs` |
| `svmsg/svmsg_file_*` | clients, server, children, `SIGCHLD` | handler at any point, merged signals, full queues, kills | `FileServer`, `FileServerProofs` |
| `pipes/fifo_seqnum_*` | server, clients | blocking opens, kills, restarts, PIDs used again, overflow | `SeqFifo`, `SeqNumService`, `SeqNumProofs`, `SeqNumServiceProofs` |
| `sockets/is_seqnum_*` | server, clients | half requests, unsigned numbers printed as signed | `SeqSocket`, `SeqNumService`, `SeqNumProofs` |
| `seccomp/seccomp_unotify_*` | target, supervisor | a target that is interrupted or gone, a PID used again | `SeccompNotify`, `SeccompProofs` |
| the other filters of `seccomp/` | programs, the kernel's BPF machine | jump offsets, ABIs, chains of filters | `BpfFilter` |
| `src/Understanding-Computation/*.rb` | two interpreters of one language | unfolding of loops, undefined names, exceptions | `SimpleLanguage` |
| processes, signals, pipes, terminals, jobs, daemons, namespaces, sockets, IPC, locks; APUE lectures 08 and 09 | parents, children, handlers, clients and servers, a user at the keyboard | every order of system calls and signals, one failing call, short reads | `Unix*`, `*Programs` |

## Modules

A module keeps the names of its source. System calls, and accesses to data that others change, are actions of their own;
purely local computation is part of the action before or after it. Logging, message texts and option parsing are left out.
Mutants, marked as such, sit before the definition they are a plausible bug of.

**ShmXfr** refines **ByteChannel**. The writer copies standard input into a System V shared memory segment block by block,
readers copy the blocks to standard output, and two binary semaphores hand the segment back and forth. Readers may start
between the writer's `semget()` and `shmget()`, be killed, or see a write fail or fall short. `ByteChannel` says what both
promise together: bytes are taken and delivered in order, each once, and no block is taken before the last is delivered. The
refinement maps `taken` to the writer's position in its input and `delivered` to the output.

**InotifyFS** is the environment of **DTree**: a tree of directories changed by other processes, and the kernel's inotify
instance with its bounded, merging queue. A rename is two steps, since `IN_MOVED_FROM` and `IN_MOVED_TO` are queued one after
the other. `DTree` has the cache array with `findWatch()` and the rest as operators over it, the traversal (`nftw()` lists,
stats and calls back in separate steps), each branch of `processNextInotifyEvent()` as an action, the second `read()` for an
`IN_MOVED_FROM` at the end of the buffer, whose alarm may go off before the call and then never ends it, rebuilds, the consistency check, and the commands that change state. `changed` is a
history variable: whether a change came while earlier events were still unprocessed. Where one call queues an event for each of several
watches (`PostAll`), the order is the order of the cache for `zapSubtree()` and any order for `umount()`.

**SemInit**: `semget()` leaves a value that is unspecified; the creator sets it to 0 and makes `sem_otime` nonzero by a no-op
`semop()`; the others poll `sem_otime`. `applied` is a history variable, the sum of the operations performed.

**FileServer**: server, one child per request, clients, and the `SIGCHLD` handler, which may run between any two steps of the
server's loop. A client stands for its request, its queue and its child. The history variable `cut` has the children whose
`read()` failed: they end the transfer as if the file had ended.

**SeqNumService** is the service that both **SeqFifo** and **SeqSocket** promise: a counter, grants of ranges, restarts.
Its counter wraps like an `int`. `SeqFifo` models the rendezvous of FIFO opens, the loss of FIFO contents when nobody has it
open, kills on both sides, restarts, and the choice of a PID for each new client, which may be that of a client that has
ended. `SeqSocket` models the iterative server, requests that stop half way, and `uint32_t` arithmetic printed with `%d`.
Allocation is the write that reaches the client, so both map `next` to the counter after the pending update.

**Pthreads** has the mutex and the condition variable: waiting unlocks atomically, a signal wakes at least one waiter, and
wake-ups may be spurious. **ProdCond** splits `avail++` into load and store, so that the mutex matters; **ThreadJoin** splits
the count from the change of state for the same reason, and `pthread_join()` waits for the thread's last step with the mutex
held.

**SeccompNotify** has a target whose `mkdir()` or `openat()` calls are handed to a supervisor. The cookie of a notification
is the number of the call; it is valid while the target is blocked in that call. The supervisor reads the pathname from the
memory of whatever process has the target's PID, and checks the cookie before and after, and that the string ends.

**BpfFilter** has each filter as the sequence of its instructions, a BPF machine, and the programs that install the filters:
`seccomp_launch` with any filters in any order, `seccomp_multiarch` with its chain of binaries for different ABIs.

**SimpleLanguage** has both interpreters of SIMPLE: the machine of `simple-step.rb` as the state machine, with `reduce` as
an operator per class, and `evaluate` of `big-step.rb` as a recursive operator. `nil` and exceptions are values. The history
variables `falseIf` and `nilAssign` record the two situations in which the two files differ.

**Unix** and its parts (`UnixState`, `UnixProcess`, `UnixSignal`, `UnixFile`, `UnixIpc`, `UnixNamespace`, `UnixSocket`) interpret
texts in the notation of `UnixCode`. One step is one system call of one process, or the delivery of one signal. The kernel is
not part of the repository and is marked external; it is modelled as far as the programs use it. The texts are in
`ProcPrograms`, `SignalPrograms`, `PipePrograms` (also `altio`, `tty`, `pty`), `JobPrograms` (`pgsjc`, `daemons`), `NamespacePrograms`,
`SocketPrograms`, `IpcPrograms` and `ApuePrograms`. Above each text stand the file and the lines it translates. A **scene** says
which programs are started together, what is typed, which signals come from outside, how many calls may fail, and how often an endless
loop is followed.

## Runs

The `MC` modules put several specifications into one run; each behaviour is a run of one of them, and the variables of the
others keep their initial values.

| run | shows | bounds |
| --- | --- | --- |
| `shm` | exclusion, integrity, complete delivery, safe removal, refinement of `ByteChannel`; everything is delivered and everybody ends unless a process breaks down | two readers, two bytes of buffer, five bytes of input: two full blocks, a short one, the empty one at the end |
| `dtree_follow` | the cache is exact whenever all events are processed, if no change raced them; the handler never meets an unknown watch then; all events are worked off in every case but one: a second `read()` whose alarm was missed holds its `IN_MOVED_FROM` until the next event | one root, two names, depth 2, two operations, reads of two events |
| `dtree_all` | watches and cache entries stay paired, and a rebuild makes the cache exact, in every interleaving | two roots, every kind of operation, overflow at two events, the commands `a`, `z`, `0`, `q` |
| `servers` | `svmsg_file`: clients are told the truth, only the end of the server strands one, every child is reaped; both sequence number servers count like `SeqNumService` (the FIFO server while PIDs differ); everybody who asks properly is served, unless the FIFO server waits for a client that was killed after its request | three clients, one or two of them mortal; files of two blocks, of none, and one that cannot be opened, queues of one message; integers up to 3 so that counters overflow, two server processes |
| `sync` | no semaphore operation, unit or thread is lost or counted twice, the creator's no-op never waits, no wake-up is missed, nobody waits for ever | four processes with operations of each sign, two polls, values up to the limit; three threads, producers of 0, 1 and 2 units, two spurious wake-ups |
| `machines` | the interpreters of SIMPLE agree but for two differences in the code; filters do what their comments ask, on every ABI; supervisors act for the call they were asked by and report no success that is none; everything comes to rest | 6,470 programs up to three statements deep, six rounds of a loop, values up to 40; chains of two filters, three binaries; two calls of the target |
| `processes` | `Progress`: nobody waits for what cannot come; `Synchronised`: nobody goes on too early; `Restored`: what is borrowed is given back; `TruthTold`: what is reported happened; the fair scenes end | up to seven processes a scene, one failing call, two children or commands for any number |
| `channels` | `Progress`; `NothingLost`: what goes in comes out once, in order; `Exclusive`: one has what only one may have; `NotificationNotLost`; `Clean`: the servers leave nothing open or unreaped, but for two that fork (see Findings) | as above, one or two clients for each server, reads and writes of less than was asked |
| `dtree_overwrite`, `dtree_check`, `fifo_reuse`, `init` | violations, see Findings | as small as the case allows |

Each bound leaves the interesting case in: two competitors for every lock and a third party that comes late, a queue that
fills up, a counter that wraps, a buffer that ends in the middle of a pair. Symmetry is used only without liveness, and only
over directory names, which the specification never orders. Deadlock is not checked as such: the programs end, or wait for
requests; that nobody waits who should not is stated by the liveness properties and by `Progress`, `SomeoneAnswers`,
`DummyNeverWaits`, `SleepsOnlyOnNothing` and `JoinerSleepsOnlyOnNothing`.

**Fairness** is weak fairness of each process, thread or program as a whole: the kernel runs what is runnable. Nobody is
obliged to start a client or a reader, to change the tree, or to be killed. A rename that has begun is finished. Where a
process may fail, the liveness property says "or it failed". Spurious wake-ups are finitely many in a behaviour
(`MaxSpurious`); a consumer that is woken for nothing without end could keep the mutex from the producers under weak
fairness, and POSIX promises nothing stronger. In `MCUnix` only the scenes in `Live` are taken to be fair; for the others
`Progress`, a safety property, says that whoever can no longer move has no reason to.

## Findings

* `dtree_overwrite`: a directory moved in from outside onto an empty cached directory is neither watched nor cached
  afterwards. `IN_MOVED_TO` comes before the `IN_DELETE_SELF` of the replaced directory, the pathname is found in the cache
  (line 807), so nothing is added, and then the slot is emptied.
* `dtree_check`: the test for a directory in `checkCacheConsistency()` (line 217) belongs to the wrong `if`; it looks at
  unused slots, with a `stat` buffer that may never have been filled, and may stop the program.
* `fifo_reuse`: a client is found by its PID alone. One that is given the PID of a killed client gets the answer to the old
  request, and the numbers it believes to own are handed out again.
* `init`: `simple_init.c` calls `pause()` with `SIGCHLD` unblocked (line 239: "Will be interrupted by signal handler"). A child
  that ends before the call is no longer announced, and init sleeps on.

The models have other behaviours that no statement in the sources rules out and that no run is devoted to: a root moved below
another root is dropped from the cache; a directory renamed within the tree while its parent is being traversed stays out of
it until a rebuild; after the command `0` the program blocks in `read()` until the next event; the FIFO server waits for ever
for a client that was killed between its request and its open; `prod_condvar` waits for ever when no unit is to be produced;
`big-step.rb` raises on every `If` whose condition is false (line 113) where the machine goes on, which `AgreesWithBigStep`
states; `seccomp_unotify_mkdir.c` installs its `SIGCHLD` handler after the fork (lines 573-583), so that a target that ends at
once is not noticed by it. `Progress` names the programs that test a flag and then pause, or ask too late to be told (`catch_rtsigs`,
`demo_sigio`, `orphaned_pgrp_SIGHUP`, `init`), and the datagram clients, which wait for ever for an answer that is lost. It also
names two mutual waits: parent and child of APUE's `09/socketpair.c` both read before either writes (lines 69 and 78), so
every run of it hangs; and `runCommand()` of `08/command.c` waits for the command before it reads (lines 46 and 56), so a
command that fills the pipe never ends. `CatchesUp` states as an exception that the alarm of `inotify_dtree.c` may go off before
the `read()` it is to end (lines 1120-1122). `NothingLost` says of `sendfile.c` what it keeps to: the count it returns is what was
sent; after a short `write()` it reads on behind the bytes that were not sent (lines 48-55), and they are skipped.
`NotificationNotLost` covers `pmsg/mq_notify_*.c`; APUE's `08/mqrecv.c` empties the queue and only then registers again
(lines 42-53), and a message that comes in between is not announced; `mq_notify_sig`, `mq_notify_sigwaitinfo` and
`mq_notify_thread` are not told of a message that was there before they registered. `Clean` leaves out
`09/one-socket-select-fork.c` and `09/strchkread2.c`, whose parent never closes its copy of a connection (lines 109-118 and
156-169) and whose `reap()` waits for one child per signal.

## Proofs

Theorems hold for every value of the constants that satisfies the named assumptions of the modules; TLC evaluates those
assumptions in the runs. Leaves are checked by Z3, Zenon and, for temporal steps, LS4. Hardly any of the properties is
inductive; what is added to make it so is the argument, and it is of one kind: who owes what to whom at each point of the
program.

* `ShmXfrProofs`: `TypeCorrect`, `Exclusion`, `Integrity`, `Completeness`, `SafeRemoval`, `Refinement`, from a positive buffer
  size and any input length. The invariant `IInv` adds `OneOwner` (the turn is in one semaphore or with one process), `Lifetime`
  (no reader gets past `shmget()` before the semaphores are initialised, nobody owns the segment once they are gone), `Contents`
  (what the segment holds, relative to what was delivered, in each phase), and `Bookkeeping` (the writer's counter, which is
  accumulated from the segment after it was given away). Refinement follows from `IInv` action by action: the writer's `read()`
  takes, the reader's `write()` delivers, everything else stutters.
* `DTreeProofs`, on `DTreeLemmas`: `WatchesCached`, that is `WatchesAreCached`, for any trees, roots, queue lengths, buffer sizes
  and operations. The invariant `WatchInv` says that buffer, queue, cache and watches fit together (`Fits`). Every event in the
  buffer or the queue that tells of the end of a watch tells of a descriptor that was given out and is no longer watched,
  and no other event tells of the same one (`GoneOnce`); the kernel has one watch for an inode and never gives out a descriptor
  again (`WatchesOk`); and, unless the queue has overflowed, the used slots are the watches plus the ends still to be told
  (`Synced`). `BufferUsed` says that the buffer is empty where a `read()` overwrites it. `DTreeLemmas` has what the queue becomes
  when events are posted (`Adds`, `Posts`: it may merge them, overflow, or already have overflowed), what is pending when the program is done with
  some of it (`Shrinks`), and what the cache becomes when slots are emptied, added or renamed (`Emptied`, `NewSlot`,
  `Rewritten`). `DTreeProofs` puts them together for each kind of step: the tree (`TreeStep`), the traversal (`WalkSteps`),
  the event handler (`HandleSteps`), the loop with its rebuilds (`LoopSteps`) and the commands (`UserSteps`).
* `FileServerProofs`: `Honest`, `Answers`, `ZombiesNoticed`, for any clients, files and queue capacities, with every kill and
  failing call. `FileInv` says for each client how far its answer has got by the state of its child (`Answering`: the
  blocks received and those in the queue are together the ones read so far, in order, and the last message is the end or
  the failure), and that a request is in one place only (`Requested`, `Once`). `ZombieNoticed` is inductive with
  the typing alone: every step that makes a zombie leaves `SIGCHLD` pending, and the handler returns only when none is left.
* `SeqNumServiceProofs`: `UniqueNumbers`, for any clients, lengths, first numbers and width of `int`: the service hands out no
  number twice before its counter overflows. The invariant is that every range granted lies below the counter.
* `SeqNumProofs`: both servers implement the service, and the uniqueness carries over. `Implements` and `NumbersUnique` for the FIFO
  server while no PID is used again: under that condition (`Served`) what is in the FIFO are requests that clients made, and
  the server writes to the client it is serving; a PID that is shared stays shared, so the condition can be carried through
  the induction. `SocketImplements` and `SocketNumbersUnique` for the socket server, without any condition: each client is
  waiting or being served at most once (`AskedOnce`), so no answer is overwritten, and adding modulo 2^w and showing
  the result as a signed number is the `int` that wraps (`ShownWraps`).
* `SyncProofs`: for `prod_condvar`, `ConsumerWoken` and `NoUnitLost`; for `thread_multijoin`, `CountersRight` and `JoinerWoken`;
  for any number of threads, units and spurious wake-ups. A register that is about to be stored is up to date because its
  thread has the mutex; units are counted as the set of pairs of producer and number, which grows by one element with each
  store. For the counters of `thread_multijoin`, a thread between its two assignments is counted apart (`Marking`); it holds the
  mutex, so with the mutex free that set is empty. Both programs have only one possible waiter, so a signal wakes the right
  one. For `svsem_good_init`, `Initialised`, `DummyImmediate`, `TypeCorrect`: `IInv` adds `Phases`: while `sem_otime` is
  zero nobody has operated, and at most one process, the creator, is between `semget()` and its no-op.
* `SeccompProofs`: `ActsRight` and `SuccessRight`, for any number of calls. `Knows` says what the supervisor knows at each point
  of `handleNotifications()`: a cookie that has ceased to be valid never becomes valid again, so what was read between two
  successful checks is the pathname of that call.

**Only model-checked**:

* liveness (`AttachedReaderDrains`, `CatchesUp`, `EverybodyServed`, `EverybodyEnds`, `ComesToRest`, `AllEnd`), which needs fairness;
* `ConsistentWhenCaughtUp`, `NoCacheProblem` and `FreshCacheExact` of `DTree`, which relate pathnames in the cache to the tree;
  their invariant has to follow a traversal through directories that were listed but not yet visited, and a rename through
  its two events, and there is no proof of it yet;
* `AgreesWithBigStep`, `PolicyHolds` and `FailedOnEveryAbi`: an evaluator and a BPF machine are recursive, and the filters test bits;
* the properties of `MCUnix`: they are about concrete texts, finitely many behaviours for each scene, with no constant to
  generalise over.

## Not modelled

* Most other programs of `tlpi-dist` are front ends of one system call that keep no state, viewers of kernel tables, or headers;
  those around timers are a matter of real time.
* Of `threads/`, the variants of `thread_incr` are the lost update that mutants show; the rest demonstrate one library call each.
* `src/APUE`: the lectures other than 08 and 09, and the homework, are copies of Unix tools and demonstrations of single calls.
* `src/algorithms-4th`, `src/acm-challenge`, `src/data-structures-and-algorithms-in-java`: sequential textbook algorithms.
* `src/Writing-An-Interpreter-In-Go`: a sequential lexer and parser on strings.
* `src/Notes`: text, but for `epoll_server.cc`, which prints what arrives on edge-triggered connections, and `coroutine.cc`,
  which switches between two contexts in a fixed order.
