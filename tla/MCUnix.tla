------------------------------- MODULE MCUnix -------------------------------
(***************************************************************************)
(* The programs on their stages, and what is asked of them.  A process     *)
(* is known by the order in which it was created: 1 is the first program   *)
(* of the scene.  What a program prints is kept in its `said'; obj[2] is   *)
(* the terminal, with what was written to it and with its settings.        *)
(***************************************************************************)
EXTENDS Unix, ProcPrograms, SignalPrograms, PipePrograms, NamespacePrograms, SocketPrograms, ApuePrograms, IpcPrograms
SX == INSTANCE SequencesExt

Texts == ProcTexts @@ SignalTexts @@ PipeTexts @@ JobTexts @@ NamespaceTexts @@ SocketTexts @@ ApueTexts @@ IpcTexts
Processes == ProcScenes @@ SignalScenes @@ PipeScenes @@ JobScenes @@ NamespaceScenes
Channels == SocketScenes @@ ApueScenes @@ IpcScenes

\* TLC evaluates a definition like Texts once, and the one that replaces a constant each time.
AllPrograms == LET t == Texts IN t
ProcessScenes == LET s == Processes IN s
ChannelScenes == LET s == Channels IN s
InitScene == LET s == [init |-> Processes["init"]] IN s

\* Where the kernel is taken to be fair.
Live == {"sig_receiver", "multi_SIGCHLD", "fork_sig_sync"}
NoScenes == {}

-----------------------------------------------------------------------------
Ended(p) == proc[p].st \notin {"run", "stop"}
Well(p) == Ended(p) /\ proc[p].status = "0"
Runs(p, block) == p \in Pids /\ proc[p].st = "run" /\ proc[p].b = block /\ proc[p].stk = << >>
Says(p, x) == p \in Pids /\ \E k \in DOMAIN proc[p].said : proc[p].said[k][1] = x
Told(p, x) == {proc[p].said[k][2] : k \in {j \in DOMAIN proc[p].said : proc[p].said[j][1] = x}}
Content(name) == obj[CHOOSE o \in DOMAIN obj : obj[o].name = name].buf
Printed == obj[2].buf
Settings == obj[2].at
AsTyped == Scenes[scene].in
NoFault == left.faults = Scenes[scene].faults
Quiet == \A p \in Pids : Waits(p)

-----------------------------------------------------------------------------
(* Progress.  A server at home, or a process that waits for what only the  *)
(* outside can do, has nothing more to expect.                             *)
Patient == {"pause", "sigwait", "read", "select", "accept", "recvfrom", "recvmsg", "msgrcv", "msgsnd", "epoll_wait", "wait", "sigsuspend", "semop", "mqreceive"}
Idle(p) == /\ p \in Scenes[scene].serve \/ <<proc[p].prog, proc[p].b>> \in Scenes[scene].homes
           /\ Ins(proc[p]).op \in Patient
AtRest == \/ \A p \in Pids : Ended(p) \/ Idle(p)
          \/ \E p \in Pids : proc[p].st = "run" /\ Is(p, "loop") /\ left.rounds = 0
          \/ \E s \in DOMAIN left.ext : left.ext[s] > 0

\* Programs that test a flag and then pause, or ask too late to be told: they can sleep for ever.
KnownRaces == {"catch_rtsigs", "demo_sigio", "orphaned_pgrp_SIGHUP", "init"}
\* A client of a datagram service waits for ever for an answer that is lost, or that nobody sends.
Unanswered == \/ scene \in {"id_echo", "i6d_ucase"} /\ left.faults = 0
              \/ scene = "ud_ucase" /\ proc[3].status = "KILL"
\* Two programs wait for each other: parent and child of 09/socketpair.c both read before either writes
\* (lines 69 and 78), and runCommand() waits for a command that fills the pipe before it reads from it
\* (command.c, lines 46 and 56).
MutualWait == \/ scene = "socketpair9" /\ \A p \in Pids : Is(p, "read")
              \/ scene = "commandFull" /\ Is(1, "wait") /\ Is(2, "write")

\* Nobody waits for something that cannot come any more: whenever no process can take a step, each
\* has ended or is a server at home (the sleeping in pause(), sigsuspend(), read(), wait(), semop() and
\* select() of the programs).  The exceptions are the programs whose waiting is known to race, a client of
\* a datagram service that is not answered, and the two mutual waits above.
Progress == Quiet => AtRest \/ scene \in KnownRaces \/ Unanswered \/ MutualWait

\* A program that waits for its children or for another process's signals ends, or is at rest, at last
\* (sig_receiver.c's loop, multi_SIGCHLD.c's and fork_sig_sync.c's sigsuspend()).
AllEnd == scene \in FairScenes => <>[]AtRest

\* What simple_init.c:239 says: "Will be interrupted by signal handler".  The init of a PID namespace that
\* pauses is woken by the end of its child.
InitIsWoken == scene = "init" /\ Quiet => AtRest

-----------------------------------------------------------------------------
(* Processes. *)
Maps == [userns_r |-> {"uid_map", "gid_map", "setgroups"}, userns_M |-> {"uid_map", "gid_map", "projid_map"}]

\* Nobody goes on before what they wait for has happened: the parent before its children have acted
\* (fork_sig_sync.c, pipe_sync.c, multi_SIGCHLD.c, t_vfork.c, whose child changes istack), an orphan before its parent has gone
\* (orphan.c), a command in a new user namespace before the maps of the namespace are written
\* (userns_child_exec.c; it also goes on when its parent has failed), a handler of t_sigsuspend.c inside
\* the critical section.
Synchronised ==
    CASE scene = "fork_sig_sync" -> Says(1, "parent goes on") => Says(2, "child has acted")
      [] scene = "pipe_sync" -> Says(1, "parent goes on") => \A c \in {2, 3} : Says(c, "child acted")
      [] scene = "t_vfork" -> Told(1, "istack") \subseteq {666}
      [] scene = "multi_SIGCHLD" -> Says(1, "all") => \A c \in {2, 3} : Says(c, "child") /\ proc[c].st = "gone"
      [] scene = "orphan" -> Says(2, "orphaned") => Ended(1)
      [] scene \in DOMAIN Maps -> 2 \in Pids /\ proc[2].prog = "sh" => (\A m \in Maps[scene] : Content(m) # << >>) \/ (Ended(1) /\ proc[1].status = "1")
      [] scene = "t_sigsuspend" -> LET s == proc[1].said IN \A k \in DOMAIN s : s[k][1] = "caught" => k > 1 /\ s[k - 1][1] # "enter"
      [] OTHER -> TRUE

Cooked == {"ECHO", "ICANON", "ISIG", "ICRNL", "OPOST"}
Detached(p) == /\ proc[p].sid \notin {0, p} /\ proc[p].fs = [umask |-> "0", cwd |-> "/"]
               /\ \A f \in {"in", "out", "err"} : obj[file[proc[p].files[f]].rd].name = "/dev/null"

\* What a program borrows it gives back.  The terminal has its old settings when script.c or unbuffer.c has
\* ended, when the other programs have ended by themselves, and while test_tty_functions.c is stopped by its
\* handler (the shell in between may have turned off the echo).  system() leaves the mask and the actions
\* for signals as they were, siglongjmp() the mask.  handling_SIGTSTP.c has its handler back when it goes on.  A daemon keeps no
\* session, terminal, directory or file of whoever started it.
Restored ==
    CASE scene \in {"script", "unbuffer"} -> Ended(1) => Settings = Cooked
      [] scene \in {"no_echo", "test_tty_typed", "demo_sigio"} -> Well(1) => Settings = Cooked
      [] scene = "test_tty_functions" -> Well(1) \/ (proc[1].st = "stop" /\ proc[1].b = "tstpHandler") => Settings \in {Cooked, Cooked \ {"ECHO"}}
      [] scene \in {"t_system", "t_simple_system"} -> Runs(1, "main") => proc[1].mask = {} /\ \A s \in {"INT", "QUIT"} : Disp(proc[1], s) = Default
      [] scene = "sigmask_siglongjmp" -> Told(1, "after jump") \subseteq {{}}
      [] scene = "handling_SIGTSTP" -> Runs(1, "loop") => proc[1].mask = {} /\ Disp(proc[1], "TSTP").h = "tstpHandler"
      [] scene = "test_become_daemon" -> \A p \in Pids : Runs(p, "sleeping") /\ Get(proc[p], "r") = 0 /\ proc[p].i = 1 => Detached(p)
      [] scene = "daemon_SIGHUP" -> Runs(4, "loop") => Detached(4)
      [] scene = "t_setsid" -> \A p \in Pids : ~ Says(p, "has a terminal")
      [] OTHER -> TRUE

\* The daemon has nothing more to do for the administrator.
Attentive == Runs(4, "loop") /\ proc[4].i = 1 /\ Deliverable(proc[4]) = {} /\ Get(proc[4], "hupReceived") = 0

\* What a program reports, or passes on, is what happened.  system() reports how the command ended, and
\* is not itself ended by the keyboard while the command runs; a parent sees its children's statuses and
\* all of its children; the two sides of demo_uts_namespaces.c see two names; cred_launcher.c runs the
\* command with both of the identities asked for; data come through pipes, FIFOs and a pseudoterminal
\* complete and in order; a signal that was caught wakes self_pipe.c, and one that tells daemon_SIGHUP.c
\* to read its configuration again is not forgotten.
TruthTold ==
    CASE scene = "t_system" -> /\ \A s \in Told(1, "status") : s = "-1" \/ \E c \in Pids \ {1} : proc[c].st = "gone" /\ proc[c].status = s
                               /\ Ended(1) => \A c \in Pids : Ended(c)
      [] scene = "child_status" -> \A s \in Told(1, "status") : proc[2].st = "gone" /\ proc[2].status = s
      [] scene = "multi_wait" -> Told(1, "dead") \subseteq {2}
      [] scene = "demo_uts_namespaces" -> Told(1, "parent") \subseteq {"bizarro"} /\ (2 \in Pids => Told(2, "child") \subseteq {"new"})
      [] scene = "cred_launcher" -> Ended(1) /\ NoFault => proc[1].prog = "sh" /\ proc[1].cred = [uid |-> "user", gid |-> "staff"]
      [] scene = "simple_pipe" -> SX!IsPrefix(Printed, <<"a", "b", "c", "\n">>) /\ (Well(1) => Len(Printed) = 4)
      [] scene = "change_case" -> SX!IsPrefix(Printed, [k \in DOMAIN AsTyped |-> toupper[AsTyped[k]]]) /\ (Well(1) => Len(Printed) = Len(AsTyped))
      [] scene = "pipe_ls_wc" -> \A p \in Pids : NoFault => Told(p, "lines") \subseteq {2}
      [] scene = "popen_glob" -> NoFault => Told(1, "files") \subseteq {2}
      [] scene = "epoll_input" -> Well(1) => Told(1, "fd1") = {<<"x">>} /\ Told(1, "fd2") = {<<"x">>}
      [] scene = "script" -> Runs(1, "loop") => Content("typescript") = Printed
      [] scene = "unbuffer" -> SX!IsPrefix(Printed, <<"o1", "o2">>) /\ (Well(1) /\ NoFault => Len(Printed) = 2)
      [] scene = "self_pipe" -> proc[1].st = "run" /\ Waits(1) => left.ext.INT = 2
      [] scene = "daemon_SIGHUP" -> NoFault /\ Ended(2) /\ Attentive => Get(proc[4], "str") = <<"new">>
      [] OTHER -> TRUE

-----------------------------------------------------------------------------
(* Channels. *)
Numbers(p, n) == UNION {v..(v + n - 1) : v \in Told(p, "number")}
Received == UNION {Told(p, "sent") : p \in Pids}

\* What goes into a channel comes out of it, once, in order, and to whom it is for.  An echo is what was
\* typed (is_echo_sv.c, is_echo_v2_sv.c, is_echo_inetd_sv.c with is_echo_cl.c); the servers of us_xfr and of
\* APUE print all that their clients send; readn(), writen(), readLine() and readLineBuf() lose
\* nothing although read() and write() transfer less than they are asked to; sendfile() returns how much it has
\* sent, and has sent exactly the part of the file that it moved on by, unless a write() was short: then it goes
\* on behind what was not sent, and the offset is ahead of the count (sendfile.c:48-55); a datagram is answered by its own
\* conversion, cut to the buffer; no sequence number is given to two clients; a passed descriptor reads the
\* file that was open, from where it was; threads that take the semaphore lose no increment; a pager gets all lines.
NothingLost ==
    CASE scene \in {"is_echo", "is_echo_v2", "inetd", "inetd2", "us_xfr_v2"} ->
            SX!IsPrefix(Printed, AsTyped) /\ (Quiet /\ NoFault /\ Well(2) => Printed = AsTyped)
      [] scene = "us_xfr" -> Quiet /\ proc[1].st = "run" /\ (Well(2) \/ Well(3)) =>
            Len(Printed) = Len(AsTyped) /\ SX!ToSet(Printed) = SX!ToSet(AsTyped)
      [] scene \in {"printLines", "printLinesBuf"} -> LET all == <<<<"a", "b">>, <<"\n">>, <<"d">>>> IN
            SX!IsPrefix([k \in DOMAIN proc[1].said |-> proc[1].said[k][2]], all) /\ (Well(1) => Len(proc[1].said) = Len(all))
      [] scene = "exchange" -> Told(1, "got") \subseteq {<<"a", "b", "c", "d">>}
      [] scene = "sendsFile" -> Well(1) => \A sent \in Told(1, "sent"), next \in Told(1, "next") :
            /\ Told(1, "file") = {0} /\ sent = Len(Printed) /\ sent <= next - 1
            /\ sent = next - 1 => Printed = SubSeq(<<"a", "b", "c", "d">>, 2, next)
      [] scene = "opener" -> \A p \in Pids : Told(p, "buf") \subseteq {<<"b", "c">>}
      [] scene \in {"scm_rights", "scm_rights_d"} -> SX!IsPrefix(Printed, <<"a", "b", "c", "d">>) /\ (Well(1) => Len(Printed) = 4)
      [] scene = "id_echo" -> Told(2, "echo a") \subseteq {<<"a">>} /\ Told(2, "echo b") \subseteq {<<"b", "b">>}
      [] scene = "i6d_ucase" -> Told(2, "a") \subseteq {<<"A">>} /\ Told(2, "b") \subseteq {<<"B", "B">>}
      [] scene = "ud_ucase" -> Told(2, "a") \subseteq {<<"A">>} /\ Told(2, "b") \subseteq {<<"B", "B">>} /\ Told(3, "c") \subseteq {<<"C">>}
      [] scene = "is_seqnum_v2" -> Numbers(2, 2) \cap Numbers(3, 1) = {}
      [] scene \in Streams \cup {"strchkread2"} -> Received \subseteq {<<"x", "y">>, <<"z">>} /\ (Quiet /\ Well(3) => <<"z">> \in Received)
      [] scene \in {"pipe2_8", "pipe2_9", "popen8", "popen9"} -> Quiet /\ NoFault => \E p \in Pids : Told(p, "line") = {<<"l1">>, <<"l2">>}
      [] scene = "thread_incr_psem" -> Told(1, "glob") \subseteq {4}
      [] OTHER -> TRUE

\* Processes that hold something at their block `b'.
At(b) == {p \in Pids : Runs(p, b)}
Alone(P) == Cardinality(P) <= 1

\* Only one has what only one may have: the semaphore of semdemo.c, although several try to create it; the
\* pid file of create_pid_file.c, which then holds the number of the daemon that runs; a file locked for
\* writing by t_flock.c; both semaphores of svsem_op.c; a new object (IPC_CREAT with IPC_EXCL) and the
\* abstract name of us_abstract_bind.c.  Of two processes that lock two records in opposite orders with
\* i_fcntl_locking.c only one is refused.  A process that waited for an event of event_flags.c has not
\* gone on before the event.
Exclusive ==
    CASE scene = "semdemo" -> Alone(At("locked"))
      [] scene = "create_pid_file" -> Alone(At("running")) /\ \A p \in At("running") : Content("/pid") = <<ToString(p), "\n">>
      [] scene = "t_flock" -> LET in == {p \in At("granted") : proc[p].i <= 2} IN Alone(in) \/ \A p \in in : proc[p].prog = "t_flockShared"
      [] scene = "svsem" -> Alone({p \in Pids : proc[p].st = "run" /\ proc[p].prog # "svsem_mon" /\ Len(proc[p].said) = 1})
      [] scene \in {"svmsg_create", "svsem_demo"} -> Alone({p \in Pids : Well(p)})
      [] scene = "i_fcntl_locking" -> Alone({p \in Pids : Says(p, "failed")})
      [] scene = "us_abstract_bind" -> Alone({p \in Pids : proc[p].st = "run" /\ proc[p].i >= 3})
      [] scene = "event_flags" -> Says(2, "seen") => Says(1, "event")
      [] OTHER -> TRUE

\* The reader waits in a call, or goes on sleeping because no signal was noted.
Asleep == \/ Waits(1)
          \/ Runs(1, "sleep") /\ Get(proc[1], "gotSig") = 0 /\ Deliverable(proc[1]) = {}

\* A message was in the queue before the first registration, which still stands: three of the programs register
\* and then wait, without a look at the queue.
TooEarly == /\ scene \in {"mq_notify_sig", "mq_notify_sigwaitinfo", "mq_notify_thread"}
            /\ \E o \in DOMAIN obj : obj[o].name = "/mq" /\ obj[o].reg # << >>
            /\ \A p \in Pids : ~ Says(p, "read")

\* A reader of a message queue that sleeps has read all messages, or the first one came too early for a
\* notification (mq_notify_*.c register again first and then empty the queue).  mqrecv.c of APUE does it in the
\* other order (lines 42-53) and can miss a message; nothing is asked of it here.
NotificationNotLost ==
    /\ scene \in Signalled /\ proc[1].st = "run" /\ Asleep => Content("/mq") = << >> \/ TooEarly
    /\ scene \in {"mq_notify_thread", "mq_notify_via_thread"} /\ proc[1].st = "run" /\ Quiet => Content("/mq") = << >> \/ TooEarly

\* The descriptor a server has of its client, by program.  Two servers that fork are not among them:
\* one-socket-select-fork.c (lines 109-118) and strchkread2.c (lines 156-169) never close the parent's copy.
Connection == [is_echo_sv |-> "cfd", is_echo_v2_sv |-> "cfd", us_xfr_sv |-> "cfd", us_xfr_v2_sv |-> "cfd", is_seqnum_v2_sv |-> "cfd",
               one_socket_select |-> "fd", strchkread9 |-> "fd", streamread9 |-> "fd", dualstack_streamread |-> "fd", two_sockets |-> "fd",
               two_sockets_select |-> "fd", strchkread8 |-> "msgsock", streamread8 |-> "msgsock"]

\* A server that waits for the next client has closed the connection of the last one, and one with a handler
\* for SIGCHLD that reaps all it finds (grimReaper) has no dead child left that it was not told of.  The handlers
\* of one-socket-select-fork.c and strchkread2.c (reap) wait once per signal, and may leave one.
Clean ==
    /\ \A p \in Pids : proc[p].prog \in DOMAIN Connection /\ proc[p].st = "run" /\ <<proc[p].prog, proc[p].b>> \in Scenes[scene].homes
            /\ proc[p].i = 1 => Connection[proc[p].prog] \notin DOMAIN proc[p].files
    /\ \A p \in Pids : proc[p].prog \in {"is_echo_sv", "is_echo_v2_sv"} /\ Runs(p, "accept") /\ "CHLD" \notin Pending(proc[p]) =>
            \A c \in Pids : proc[c].ppid = p => proc[c].st # "zombie"
=============================================================================
