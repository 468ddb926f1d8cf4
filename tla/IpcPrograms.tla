----------------------------- MODULE IpcPrograms -----------------------------
(***************************************************************************)
(* The programs of tlpi-dist/pmsg, svmsg, svsem, psem, pshm and filelock   *)
(* in the notation of UnixCode.  An identifier given on a command line is  *)
(* the name of an object.                                                  *)
(***************************************************************************)
EXTENDS UnixCode, FiniteSets

(* Notification about messages.  In a thread, mq_getattr() and malloc(),   *)
(* which fail alike, are one step.                                         *)

\* mq_notify_sig.c:27-31 handler
handlerSig == [handler |-> <<Return>>]

\* Mutant: the queue is emptied before the process registers again.
mq_notify_sig_Late == Program(<< >>, handlerSig @@
    [main |-> <<MqOpen("mqd", "/mq", {"NONBLOCK"}), Sys("mq_getattr"), Sys("malloc"), Block({"USR1"}), Sigaction("USR1", "handler", {}),
                MqNotify("mqd", "USR1"), Goto("loop")>>,
     loop |-> <<Sigsuspend({}), Goto("drain")>>,
     drain |-> <<On(MqReceive("mqd"), "drained"), Show("read", "buf"), Goto("drain")>>,
     drained |-> <<IfNot("e", "EAGAIN", "errExit"), MqNotify("mqd", "USR1"), Goto("loop")>>])

\* mq_notify_sig.c:38-103 main
mq_notify_sig == Program(<< >>, handlerSig @@
    [main |-> <<MqOpen("mqd", "/mq", {"NONBLOCK"}), Sys("mq_getattr"), Sys("malloc"), Block({"USR1"}), Sigaction("USR1", "handler", {}),
                MqNotify("mqd", "USR1"), Goto("loop")>>,
     loop |-> <<Sigsuspend({}), MqNotify("mqd", "USR1"), Goto("drain")>>,
     drain |-> <<On(MqReceive("mqd"), "drained"), Show("read", "buf"), Goto("drain")>>,
     drained |-> <<IfNot("e", "EAGAIN", "errExit"), Goto("loop")>>])

\* mq_notify_siginfo.c:33-39 handler
handlerSiginfo == [handler |-> <<Set("gotSig", 1), Say("signaled"), Return>>]

\* mq_notify_siginfo.c:41-98 main
mq_notify_siginfo == Program([gotSig |-> 1], handlerSiginfo @@
    [main |-> <<MqOpen("mqd", "/mq", {"NONBLOCK"}), Sigaction("USR1", "handler", {"SIGINFO"}), Goto("loop")>>,
     loop |-> <<IfNot("gotSig", 1, "sleep"), Set("gotSig", 0), MqNotify("mqd", "USR1"), Goto("drain")>>,
     drain |-> <<On(MqReceive("mqd"), "drained"), Show("read", "buf"), Goto("drain")>>,
     drained |-> <<IfNot("e", "EAGAIN", "errExit"), Goto("sleep")>>,
     sleep |-> <<Sleep, Goto("loop")>>])

\* mq_notify_via_signal.c:33-37 handler
handlerViaSignal == [handler |-> <<Set("gotSig", 1), Return>>]

\* mq_notify_via_signal.c:39-105 main
mq_notify_via_signal == Program([gotSig |-> 1], handlerViaSignal @@
    [main |-> <<MqOpen("mqd", "/mq", {"NONBLOCK"}), Sigaction("USR1", "handler", {}), Sys("mq_getattr"), Sys("malloc"), Goto("loop")>>,
     loop |-> <<IfNot("gotSig", 1, "sleep"), Set("gotSig", 0), MqNotify("mqd", "USR1"), Goto("drain")>>,
     drain |-> <<On(MqReceive("mqd"), "drained"), Show("read", "buf"), Goto("drain")>>,
     drained |-> <<IfNot("e", "EAGAIN", "errExit"), Goto("sleep")>>,
     sleep |-> <<Sleep, Goto("loop")>>])

\* mq_notify_sigwaitinfo.c:34-110 main
mq_notify_sigwaitinfo == Program(<< >>,
    [main |-> <<MqOpen("mqd", "/mq", {"NONBLOCK"}), Sys("mq_getattr"), Sys("malloc"), Block({"RT1"}), MqNotify("mqd", "RT1"), Goto("loop")>>,
     loop |-> <<Sigwait({"RT1"}, "si"), MqNotify("mqd", "RT1"), Goto("drain")>>,
     drain |-> <<On(MqReceive("mqd"), "drained"), Show("read", "buf"), Goto("drain")>>,
     drained |-> <<IfNot("e", "EAGAIN", "errExit"), Goto("loop")>>])

\* mq_notify_thread.c:64-77 notifySetup
notifySetup(mqdp) == [notifySetup |-> <<MqNotifyThread(mqdp, "threadFunc"), Return>>]

\* mq_notify_thread.c:30-62 threadFunc
threadFunc(mqdp) ==
    [threadFunc |-> <<Sys("mq_getattr, malloc"), Call("notifySetup"), Goto("receive")>>,
     receive |-> <<On(MqReceive(mqdp), "received"), Show("read", "buf"), Goto("receive")>>,
     received |-> <<IfNot("e", "EAGAIN", "errExit"), ThreadExit>>]

\* mq_notify_thread.c:79-93 main
mq_notify_thread == Program(<< >>, notifySetup("mqd") @@ threadFunc("mqd") @@
    [main |-> <<MqOpen("mqd", "/mq", {"NONBLOCK"}), Call("notifySetup"), Goto("pause")>>,
     pause |-> <<Pause, Exit("0")>>])

\* mq_notify_via_thread.c:29-55 drainQueue
drainQueue(mqd) ==
    [drainQueue |-> <<Sys("mq_getattr, malloc"), Goto("receive")>>,
     receive |-> <<On(MqReceive(mqd), "received"), Show("read", "buf"), Goto("receive")>>,
     received |-> <<IfNot("e", "EAGAIN", "errExit"), Return>>]

\* mq_notify_via_thread.c:57-66 threadFunc
threadFuncVia == [threadFunc |-> <<Call("notifySetup"), Call("drainQueue"), ThreadExit>>]

\* mq_notify_via_thread.c:68-81 notifySetup
notifySetupVia(mqdp) == notifySetup(mqdp)

\* mq_notify_via_thread.c:83-98 main
mq_notify_via_thread == Program(<< >>, notifySetupVia("mqd") @@ threadFuncVia @@ drainQueue("mqd") @@
    [main |-> <<MqOpen("mqd", "/mq", {"NONBLOCK"}), Call("notifySetup"), Call("drainQueue"), Goto("pause")>>,
     pause |-> <<Pause, Exit("0")>>])

\* pmsg_create.c:38-96 main
pmsg_create(name, flags) == Program(<< >>, [main |-> <<MqOpen("mqd", name, flags), Exit("0")>>])

\* pmsg_receive.c:36-82 main
pmsg_receive(flags) == Program(<< >>,
    [main |-> <<MqOpen("mqd", "/mq", flags), Sys("mq_getattr"), Sys("malloc"), MqReceive("mqd"), Show("received", "buf"), Exit("0")>>])

\* pmsg_send.c:36-63 main
pmsg_send(flags, data, prio) == Program(<< >>,
    [main |-> <<MqOpen("mqd", "/mq", flags), MqSend("mqd", data, prio), Exit("0")>>])

\* pmsg_getattr.c:22-42 main
pmsg_getattr == Program(<< >>, [main |-> <<MqOpen("mqd", "/mq", {}), Sys("mq_getattr"), Exit("0")>>])

\* pmsg_unlink.c:24-33 main
pmsg_unlink == Program(<< >>, [main |-> <<Remove("/mq"), Exit("0")>>])

-----------------------------------------------------------------------------
(* System V message queues and semaphores. *)

\* svmsg_create.c:38-99 main
svmsg_create(flags) == Program(<< >>, [main |-> <<Sys("ftok"), Msgget("msqid", "id", flags), Exit("0")>>])

\* svmsg_send.c:43-83 main
svmsg_send(type, text, nowait) == Program(<< >>,
    [main |-> <<IF nowait THEN MsgsndNow("id", [type |-> type, data |-> text]) ELSE Msgsnd("id", [type |-> type, data |-> text]), Exit("0")>>])

\* svmsg_receive.c:50-94 main
svmsg_receive(types, maxBytes, flags) == Program(<< >>,
    [main |-> <<MsgrcvWith("id", types, maxBytes, flags), Show("received", "buf"), Exit("0")>>])

\* svmsg_rm.c:21-34 main
svmsg_rm == Program(<< >>, [main |-> <<Rmid("id"), Exit("0")>>])

\* svsem_create.c:40-103 main
svsem_create(numSems, flags) == Program(<< >>, [main |-> <<Sys("ftok"), Semget("semid", "set", numSems, flags), Exit("0")>>])

\* svsem_op.c:100-123 main
svsem_op(args) == Program(<< >>,
    [main |-> [k \in 1..(2 * Len(args)) |-> IF k % 2 = 1 THEN Semop("set", args[(k + 1) \div 2]) ELSE Say("complete")] \o <<Exit("0")>>])

\* svsem_setall.c:25-64 main
svsem_setall(vals) == Program(<< >>, [main |-> <<Otime("set", "ds"), Sys("calloc"), SetAll("set", vals), Exit("0")>>])

\* svsem_mon.c:27-63 main
svsem_mon == Program(<< >>, [main |-> <<Otime("set", "ds"), Sys("calloc"), GetVal("set", "val"), Show("value", "val"), Exit("0")>>])

\* svsem_rm.c:23-35 main
svsem_rm == Program(<< >>, [main |-> <<Rmid("set"), Exit("0")>>])

\* svsem_demo.c:24-65 main
svsem_demo(init, op) == Program(<< >>,
    [main |-> IF op = "" THEN <<Semget("semid", "demo", 1, {"CREAT", "EXCL"}), SetAll("semid", <<init>>), Exit("0")>>
              ELSE <<Semop("demo", <<Sops(1, init, {})>>), Exit("0")>>])

\* svsem_bad_init.c:25-63 main
svsem_bad_init == Program(<< >>,
    [main |-> <<On(Semget("semid", "12345", 1, {"CREAT", "EXCL"}), "exists"), SetAll("semid", <<0>>), Goto("operate")>>,
     exists |-> <<IfNot("e", "EEXIST", "errExit"), Semget("semid", "12345", 1, {}), Goto("operate")>>,
     operate |-> <<Semop("semid", <<Sops(1, 1, {})>>), Exit("0")>>])

\* Mutant: an interrupted wait counts as the event.
waitForEventFlag_Once(semId) ==
    [waitForEventFlag |-> <<On(Semop(semId, <<Sops(1, 0, {})>>), "waitFailed"), Set("r", 0), Return>>,
     waitFailed |-> <<Set("r", 0), Return>>]

\* event_flags.c:27-43 waitForEventFlag
waitForEventFlag(semId) ==
    [waitForEventFlag |-> <<On(Semop(semId, <<Sops(1, 0, {})>>), "waitFailed"), Set("r", 0), Return>>,
     waitFailed |-> <<If("e", "EINTR", "waitForEventFlag"), Set("r", -1), Return>>]

\* event_flags.c:47-54 clearEventFlag
clearEventFlag(semId) == SetAll(semId, <<1>>)

\* event_flags.c:58-65 setEventFlag
setEventFlag(semId) == SetAll(semId, <<0>>)

\* event_flags.c:69-80 getFlagState
getFlagState(semId) == GetVal(semId, "sem_val")

\* external: a process that clears the flag, starts a child that waits for it, and sets it
eventUser == Program(<< >>, waitForEventFlag("flag") @@
    [main |-> <<clearEventFlag("flag"), Fork("child"), getFlagState("flag"), Say("event"), setEventFlag("flag"), Exit("0")>>,
     child |-> <<Sigaction("USR1", "ignored", {}), Call("waitForEventFlag"), IfLess("r", 0, "errExit"), Say("seen"), Exit("0")>>,
     ignored |-> <<Return>>])

-----------------------------------------------------------------------------
(* POSIX semaphores and shared memory. *)

SemOpen(id, name, value, flags) == Get0(id, "sem", name, <<value>>, flags)

\* psem_create.c:36-68 main
psem_create(value) == Program(<< >>, [main |-> <<SemOpen("sem", "/sem", value, {"CREAT", "EXCL"}), Exit("0")>>])

\* psem_wait.c:25-42 main
psem_wait == Program(<< >>, [main |-> <<SemOpen("sem", "/sem", 0, {}), Semop("sem", <<Sops(1, -1, {})>>), Say("succeeded"), Exit("0")>>])

\* psem_trywait.c:24-38 main
psem_trywait == Program(<< >>, [main |-> <<SemOpen("sem", "/sem", 0, {}), Semop("sem", <<Sops(1, -1, {"NOWAIT"})>>), Exit("0")>>])

\* psem_timedwait.c:27-52 main
psem_timedwait == Program(<< >>,
    [main |-> <<SemOpen("sem", "/sem", 0, {}), Sys("clock_gettime"), Semop("sem", <<Sops(1, -1, {"TIMEOUT"})>>), Say("succeeded"), Exit("0")>>])

\* psem_post.c:25-40 main
psem_post == Program(<< >>, [main |-> <<SemOpen("sem", "/sem", 0, {}), Semop("sem", <<Sops(1, 1, {})>>), Exit("0")>>])

\* psem_getvalue.c:23-41 main
psem_getvalue == Program(<< >>, [main |-> <<SemOpen("sem", "/sem", 0, {}), GetVal("sem", "value"), Show("value", "value"), Exit("0")>>])

\* psem_unlink.c:23-32 main
psem_unlink == Program(<< >>, [main |-> <<Remove("/sem"), Exit("0")>>])

loops == 2

\* Mutant: the semaphore is given back before the increment is stored.
threadFuncPsem_Early ==
    [threadFunc |-> <<If("j", loops, "done"), Semop("sem", <<Sops(1, -1, {})>>), Copy("loc", "glob"), Add("loc", 1),
                      Semop("sem", <<Sops(1, 1, {})>>), Copy("glob", "loc"), Add("j", 1), Goto("threadFunc")>>,
     done |-> <<ThreadExit>>]

\* thread_incr_psem.c:27-46 threadFunc
threadFuncPsem ==
    [threadFunc |-> <<If("j", loops, "done"), Semop("sem", <<Sops(1, -1, {})>>), Copy("loc", "glob"), Add("loc", 1), Copy("glob", "loc"),
                      Semop("sem", <<Sops(1, 1, {})>>), Add("j", 1), Goto("threadFunc")>>,
     done |-> <<ThreadExit>>]

\* thread_incr_psem.c:48-81 main
thread_incr_psem == Program([glob |-> 0], threadFuncPsem @@
    [main |-> <<SemOpen("sem", "private", 1, {"CREAT"}), Thread("threadFunc"), Copy("t1", "r"), Thread("threadFunc"), Copy("t2", "r"),
                Join("t1"), Join("t2"), Show("glob", "glob"), Exit("0")>>])

\* The mapping of a shared memory object outlives its descriptor.
Mmap(addr, fd) == Dup2(fd, addr)

\* pshm_create.c:33-73 main
pshm_create(size, flags) == Program(<< >>,
    [main |-> <<Open("fd", "/shm", flags), Ftruncate("fd", size), Mmap("addr", "fd"), Exit("0")>>])

\* pshm_write.c:25-56 main
pshm_write(string) == Program(<< >>,
    [main |-> <<Open("fd", "/shm", {}), Ftruncate("fd", Len(string)), Mmap("addr", "fd"), Close("fd")>>
              \o [k \in DOMAIN string |-> Write("addr", <<string[k]>>)] \o <<Exit("0")>>])

\* pshm_read.c:27-57 main
pshm_read == Program(<< >>,
    [main |-> <<Open("fd", "/shm", {"RDONLY"}), Fsize("fd", "st_size"), Mmap("addr", "fd"), Close("fd"), ReadN("addr", "st_size"),
                Show("memory", "buf"), Exit("0")>>])

\* pshm_unlink.c:23-32 main
pshm_unlink == Program(<< >>, [main |-> <<Remove("/shm"), Exit("0")>>])

-----------------------------------------------------------------------------
(* Locks on files. *)
Whole == {1}

\* region_locking.c:35-39 lockRegion
lockRegion(fd, type, bytes) == Lock(fd, type, bytes, FALSE, "proc")

\* region_locking.c:41-45 lockRegionWait
lockRegionWait(fd, type, bytes) == Lock(fd, type, bytes, TRUE, "proc")

\* region_locking.c:50-64 regionIsLocked
regionIsLocked(fd, type, bytes) == Getlk(fd, type, bytes, "proc", "pid")

\* Mutant: the file is emptied and written before it is locked.
createPidFile_Early(pidFile, cloexec) ==
    [createPidFile |-> <<Open("fd", pidFile, {"CREAT"})>> \o When(cloexec, <<Cloexec("fd")>>) \o
                       <<Ftruncate("fd", 0), Getpid("buf"), Itoa("buf", "buf"), WriteLine("fd", "buf"), On(lockRegion("fd", "w", Whole), "locked"), Return>>,
     locked |-> <<Exit("1")>>]

\* create_pid_file.c:36-81 createPidFile
createPidFile(pidFile, cloexec) ==
    [createPidFile |-> <<Open("fd", pidFile, {"CREAT"})>> \o When(cloexec, <<Cloexec("fd")>>) \o
                       <<On(lockRegion("fd", "w", Whole), "locked"), Ftruncate("fd", 0), Getpid("buf"), Itoa("buf", "buf"), WriteLine("fd", "buf"), Return>>,
     locked |-> <<Exit("1")>>]

\* external: a daemon that runs once, and one that looks who runs
pidDaemon == Program(<< >>, createPidFile("/pid", TRUE) @@ [main |-> <<Call("createPidFile"), Goto("running")>>, running |-> <<Sleep, Exit("0")>>])
pidLooker == Program(<< >>, [main |-> <<Open("fd", "/pid", {}), regionIsLocked("fd", "w", Whole), Show("holder", "pid"), lockRegionWait("fd", "w", Whole), Exit("0")>>])

\* t_flock.c:22-66 main
t_flock(type, nb) == Program(<< >>,
    [main |-> <<Open("fd", "locked", {"RDONLY"}), On(Lock("fd", type, Whole, ~ nb, "file"), "denied"), Goto("granted")>>,
     granted |-> <<Sleep, Lock("fd", "u", Whole, FALSE, "file"), Exit("0")>>,
     denied |-> <<Exit("1")>>])

\* i_fcntl_locking.c:94-218 main
i_fcntl_locking(cmds) ==
    LET label(k) == "cmd" \o ToString(k)
        by(c) == IF c.cmd \in {"G", "S", "W"} THEN "file" ELSE "proc"
        act(k) == LET c == cmds[k] IN
            IF c.cmd \in {"g", "G"} THEN <<Getlk("fd", c.lock, c.bytes, by(c), "l_pid"), Show("held by", "l_pid"), Goto(label(k + 1))>>
            ELSE <<On(Lock("fd", c.lock, c.bytes, c.cmd \in {"w", "W"}, by(c)), label(k) \o "no"), Say(IF c.lock = "u" THEN "unlocked" ELSE "got lock"), Goto(label(k + 1))>>
        blocks == {label(k) : k \in 1..(Len(cmds) + 1)}
        denied == {label(k) \o "no" : k \in DOMAIN cmds}
    IN  Program(<< >>, [main |-> <<Sys("calloc"), Open("fd", "records", {}), Goto(label(1))>>] @@
            [b \in blocks |-> LET k == CHOOSE k \in 1..(Len(cmds) + 1) : label(k) = b IN IF k > Len(cmds) THEN <<Exit("0")>> ELSE act(k)] @@
            [b \in denied |-> LET k == CHOOSE k \in DOMAIN cmds : label(k) \o "no" = b IN <<Show("failed", "e"), Goto(label(k + 1))>>])
Cmd(cmd, lock, bytes) == [cmd |-> cmd, lock |-> lock, bytes |-> bytes]

-----------------------------------------------------------------------------
Records == <<NewObj("file", "records", << >>, 0)>>
Signalled == {"mq_notify_sig", "mq_notify_siginfo", "mq_notify_via_signal", "mq_notify_sigwaitinfo"}

IpcTexts ==
    [mq_notify_sig |-> mq_notify_sig, mq_notify_siginfo |-> mq_notify_siginfo, mq_notify_via_signal |-> mq_notify_via_signal,
     mq_notify_sigwaitinfo |-> mq_notify_sigwaitinfo, mq_notify_thread |-> mq_notify_thread, mq_notify_via_thread |-> mq_notify_via_thread,
     pmsg_create |-> pmsg_create("/mq", {"CREAT"}), pmsg_send |-> pmsg_send({}, <<"m">>, 0), pmsg_sendHigh |-> pmsg_send({"NONBLOCK"}, <<"h">>, 1),
     pmsg_receive |-> pmsg_receive({}), pmsg_receiveNow |-> pmsg_receive({"NONBLOCK"}), pmsg_getattr |-> pmsg_getattr, pmsg_unlink |-> pmsg_unlink,
     svmsg_create |-> svmsg_create({"CREAT", "EXCL"}), svmsg_send |-> svmsg_send(1, <<"a", "b">>, FALSE), svmsg_sendNow |-> svmsg_send(2, <<"c">>, TRUE),
     svmsg_receive |-> svmsg_receive({2}, 2, {}), svmsg_receiveShort |-> svmsg_receive({}, 1, {"NOERROR"}), svmsg_receiveNow |-> svmsg_receive({}, 1, {"NOWAIT"}),
     svmsg_rm |-> svmsg_rm,
     svsem_create |-> svsem_create(2, {"CREAT"}), svsem_take |-> svsem_op(<< <<Sops(1, -1, {}), Sops(2, -1, {})>>, <<Sops(2, 1, {}), Sops(1, 1, {})>> >>),
     svsem_undo |-> svsem_op(<< <<Sops(2, -1, {"UNDO"})>>, <<Sops(1, -1, {"UNDO", "NOWAIT"})>> >>), svsem_setall |-> svsem_setall(<<1, 1>>), svsem_mon |-> svsem_mon,
     svsem_rm |-> svsem_rm, svsem_demo |-> svsem_demo(1, ""), svsem_demoOp |-> svsem_demo(-1, "op"), svsem_bad_init |-> svsem_bad_init, eventUser |-> eventUser,
     psem_create |-> psem_create(1), psem_wait |-> psem_wait, psem_trywait |-> psem_trywait, psem_timedwait |-> psem_timedwait, psem_post |-> psem_post,
     psem_getvalue |-> psem_getvalue, psem_unlink |-> psem_unlink, thread_incr_psem |-> thread_incr_psem,
     pshm_create |-> pshm_create(0, {"CREAT", "EXCL"}), pshm_write |-> pshm_write(<<"a", "b">>), pshm_read |-> pshm_read, pshm_unlink |-> pshm_unlink,
     pidDaemon |-> pidDaemon, pidLooker |-> pidLooker, t_flockShared |-> t_flock("r", FALSE), t_flock |-> t_flock("w", FALSE), t_flockNow |-> t_flock("w", TRUE),
     lockForward |-> i_fcntl_locking(<<Cmd("w", "w", {1}), Cmd("w", "w", {2}), Cmd("g", "r", {1}), Cmd("s", "u", {1, 2})>>),
     lockBackward |-> i_fcntl_locking(<<Cmd("w", "w", {2}), Cmd("w", "w", {1}), Cmd("s", "u", {2})>>),
     lockOfd |-> i_fcntl_locking(<<Cmd("S", "r", {1}), Cmd("G", "w", {2}), Cmd("S", "u", {1})>>)]

IpcScenes ==
    [x \in Signalled |-> ServingAt(With(Scene(<<x, "pmsg_send", "pmsg_sendHigh">>), <<NewObj("mq", "/mq", << >>, 2)>>), Home(x, "loop"))] @@
    [mq_notify_thread |-> ServingAt(With(Sure(Scene(<<"mq_notify_thread", "pmsg_send", "pmsg_sendHigh">>)), <<NewObj("mq", "/mq", << >>, 2)>>), Home("mq_notify_thread", "pause")),
     mq_notify_via_thread |-> ServingAt(With(Scene(<<"mq_notify_via_thread", "pmsg_send">>), <<NewObj("mq", "/mq", << [data |-> <<"q">>, prio |-> 0] >>, 2)>>),
                                        Home("mq_notify_via_thread", "pause")),
     pmsg |-> ServingAt(Scene(<<"pmsg_create", "pmsg_send", "pmsg_sendHigh", "pmsg_receive">>), Home("pmsg_receive", "main")),
     pmsg_now |-> With(Scene(<<"pmsg_sendHigh", "pmsg_receiveNow", "pmsg_getattr", "pmsg_unlink">>), <<NewObj("mq", "/mq", << >>, 1)>>),
     svmsg_create |-> Scene(<<"svmsg_create", "svmsg_create">>),
     svmsg |-> ServingAt(With(Scene(<<"svmsg_send", "svmsg_sendNow", "svmsg_receive", "svmsg_receiveShort">>), <<NewObj("msgq", "id", << >>, 1)>>),
                         Home("svmsg_receive", "main") \cup Home("svmsg_receiveShort", "main") \cup Home("svmsg_send", "main")),
     svmsg_rm |-> With(Sure(Scene(<<"svmsg_send", "svmsg_receiveNow", "svmsg_receive", "svmsg_rm">>)), <<NewObj("msgq", "id", << >>, 1)>>),
     svsem_create |-> Scene(<<"svsem_create", "svsem_create">>),
     svsem |-> With(Sure(Scene(<<"svsem_take", "svsem_take", "svsem_undo", "svsem_mon">>)), <<NewObj("sem", "set", <<1, 1>>, 2)>>),
     svsem_rm |-> With(Sure(Scene(<<"svsem_take", "svsem_setall", "svsem_rm">>)), <<NewObj("sem", "set", <<0, 0>>, 2)>>),
     svsem_demo |-> Sure(Scene(<<"svsem_demo", "svsem_demo">>)),
     svsem_demoOp |-> With(Scene(<<"svsem_demoOp">>), <<NewObj("sem", "demo", <<1>>, 2)>>),
     svsem_bad_init |-> Sure(Scene(<<"svsem_bad_init", "svsem_bad_init", "svsem_bad_init">>)),
     event_flags |-> WithSignals(With(Scene(<<"eventUser">>), <<NewObj("sem", "flag", <<0>>, 2)>>), 2, [USR1 |-> 1]),
     psem |-> ServingAt(Scene(<<"psem_create", "psem_wait", "psem_post", "psem_getvalue">>), Home("psem_wait", "main")),
     psem_timed |-> With(Scene(<<"psem_trywait", "psem_timedwait", "psem_unlink">>), <<NewObj("sem", "/sem", <<1>>, 2)>>),
     thread_incr_psem |-> Sure(Scene(<<"thread_incr_psem">>)),
     pshm |-> Sure(Scene(<<"pshm_create", "pshm_write", "pshm_read", "pshm_unlink">>)),
     create_pid_file |-> WithSignals(With(Scene(<<"pidDaemon", "pidDaemon", "pidLooker">>), <<NewObj("file", "/pid", <<"old">>, 0)>>), 1, [INT |-> 1]),
     t_flock |-> With(Sure(Scene(<<"t_flockShared", "t_flock", "t_flockNow">>)), <<NewObj("file", "locked", << >>, 0)>>),
     i_fcntl_locking |-> With(Scene(<<"lockForward", "lockBackward">>), Records), ofd_locking |-> With(Scene(<<"lockForward", "lockOfd">>), Records)]
=============================================================================
