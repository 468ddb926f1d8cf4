---------------------------- MODULE PipePrograms ----------------------------
(***************************************************************************)
(* The programs of tlpi-dist/pipes (the FIFO server apart), altio, tty and *)
(* pty in the notation of UnixCode.  A buffer of two items stands for      *)
(* BUF_SIZE, two children or threads for those of a command line.          *)
(***************************************************************************)
EXTENDS UnixCode

\* external: wc, which reads its standard input to the end
wc == Program(<< >>,
    [main |-> <<Read("in", 2), If("r", 0, "done"), If("r", 1, "one"), Add("lines", 2), Goto("main")>>,
     one |-> <<Add("lines", 1), Goto("main")>>,
     done |-> <<Show("lines", "lines"), Exit("0")>>])

\* external: ls in a directory of two files
ls2 == Program(<< >>, [main |-> <<Write("out", <<"f1">>), Write("out", <<"f2">>), Exit("0")>>])

\* pipe_ls_wc.c:22-90 main
pipe_ls_wc == Program(<< >>,
    [main |-> <<Pipe("pfd0", "pfd1"), Fork("ls"), Fork("wc"), Close("pfd0"), Close("pfd1"), Wait, Wait, Exit("0")>>,
     ls |-> <<Close("pfd0"), Dup2("pfd1", "out"), Close("pfd1"), Exec("ls2")>>,
     wc |-> <<Close("pfd1"), Dup2("pfd0", "in"), Close("pfd0"), Exec("wc")>>])

\* Mutant: a child closes its end before it acts.
pipe_sync_Early == Program(<< >>,
    [main |-> <<Pipe("pfd0", "pfd1"), Goto("fork")>>,
     fork |-> <<If("j", 2, "wait"), Fork("child"), Add("j", 1), Goto("fork")>>,
     child |-> <<Close("pfd0"), Close("pfd1"), Sleep, Say("child acted"), UExit("0")>>,
     wait |-> <<Close("pfd1"), Read("pfd0", 1), IfNot("r", 0, "errExit"), Say("parent goes on"), Exit("0")>>])

\* pipe_sync.c:30-87 main
pipe_sync == Program(<< >>,
    [main |-> <<Pipe("pfd0", "pfd1"), Goto("fork")>>,
     fork |-> <<If("j", 2, "wait"), Fork("child"), Add("j", 1), Goto("fork")>>,
     child |-> <<Close("pfd0"), Sleep, Say("child acted"), Close("pfd1"), UExit("0")>>,
     wait |-> <<Close("pfd1"), Read("pfd0", 1), IfNot("r", 0, "errExit"), Say("parent goes on"), Exit("0")>>])

\* simple_pipe.c:30-78 main
simple_pipe == Program(<< >>,
    [main |-> <<Pipe("pfd0", "pfd1"), Fork("child"), Close("pfd0"), Write("pfd1", <<"a", "b", "c">>), Close("pfd1"),
                Try(Wait), Exit("0")>>,
     child |-> <<Close("pfd1"), Goto("copy")>>,
     copy |-> <<Read("pfd0", 2), If("r", 0, "end"), WriteBuf("out"), Goto("copy")>>,
     end |-> <<Try(Write("out", <<"\n">>)), Close("pfd0"), Exit("0")>>])

toupper == [a |-> "A", b |-> "B"]

\* change_case.c:27-100 main
change_case == Program(<< >>,
    [main |-> <<Pipe("outbound0", "outbound1"), Pipe("inbound0", "inbound1"), Fork("child"),
                Close("outbound0"), Close("inbound1"), Goto("parent")>>,
     child |-> <<Close("outbound1"), Close("inbound0"), Goto("convert")>>,
     convert |-> <<Read("outbound0", 2), If("r", 0, "end"), Map("buf", toupper), WriteBuf("inbound1"), Goto("convert")>>,
     parent |-> <<Read("in", 2), If("r", 0, "end"), WriteBuf("outbound1"), Read("inbound0", 2), If("r", 0, "parent"),
                  WriteBuf("out"), Goto("parent")>>,
     end |-> <<Exit("0")>>])

\* external: popen() for reading, and pclose()
popenText ==
    [popen |-> <<On(Pipe("fp", "fp1"), "noStream"), On(Fork("popenChild"), "noFork"), Copy("popenPid", "r"), Close("fp1"),
                 Set("opened", 1), Return>>,
     noFork |-> <<Close("fp"), Close("fp1"), Goto("noStream")>>,
     noStream |-> <<Set("opened", 0), Return>>,
     popenChild |-> <<Close("fp"), Dup2("fp1", "out"), Close("fp1"), Try(Exec("ls2")), UExit("127")>>,
     pclose |-> <<Close("fp"), On(WaitPid("popenPid", {}), "noStatus"), Return>>,
     noStatus |-> <<Set("status", "-1"), Return>>]

\* popen_glob.c:30-96 main
popen_glob == Program(<< >>, popenText @@
    [main |-> <<Read("in", 1), If("r", 0, "end"), Item("pat", "buf", 1), If("pat", "bad", "main"), Call("popen"),
                If("opened", 0, "main"), Set("fileCnt", 0), Goto("list")>>,
     list |-> <<Read("fp", 1), If("r", 0, "close"), Add("fileCnt", 1), Goto("list")>>,
     close |-> <<Call("pclose"), Show("files", "fileCnt"), Show("status", "status"), Goto("main")>>,
     end |-> <<Exit("0")>>])

\* Mutant: the handler notes the signal only in a variable.
self_pipe_Flag == Program([caught |-> 0],
    [main |-> <<Pipe("pfd0", "pfd1"), Nonblock("pfd0"), Nonblock("pfd1"), Signal("INT", "handler"), Goto("wait")>>,
     wait |-> <<On(Select({"in", "pfd0"}, "readfds"), "interrupted"), Goto("ready")>>,
     interrupted |-> <<IfNot("e", "EINTR", "errExit"), Goto("wait")>>,
     ready |-> <<IfHas("readfds", "pfd0", "signal"), Exit("0")>>,
     signal |-> <<Say("A signal was caught"), Goto("drain")>>,
     drain |-> <<On(Read("pfd0", 1), "drained"), Goto("drain")>>,
     drained |-> <<IfNot("e", "EAGAIN", "errExit"), Exit("0")>>,
     handler |-> <<Set("caught", 1), Return>>])

\* self_pipe.c:32-153 handler, main
self_pipe == Program(<< >>,
    [main |-> <<Pipe("pfd0", "pfd1"), Nonblock("pfd0"), Nonblock("pfd1"), Signal("INT", "handler"), Goto("wait")>>,
     wait |-> <<On(Select({"in", "pfd0"}, "readfds"), "interrupted"), Goto("ready")>>,
     interrupted |-> <<IfNot("e", "EINTR", "errExit"), Goto("wait")>>,
     ready |-> <<IfHas("readfds", "pfd0", "signal"), Exit("0")>>,
     signal |-> <<Say("A signal was caught"), Goto("drain")>>,
     drain |-> <<On(Read("pfd0", 1), "drained"), Goto("drain")>>,
     drained |-> <<IfNot("e", "EAGAIN", "errExit"), Exit("0")>>,
     handler |-> <<Copy("savedErrno", "e"), On(Write("pfd1", <<"x">>), "full"), Goto("handled")>>,
     full |-> <<IfNot("e", "EAGAIN", "errExit"), Goto("handled")>>,
     handled |-> <<Copy("e", "savedErrno"), Return>>])

\* poll_pipes.c:28-90 main
poll_pipes == Program(<< >>,
    [main |-> <<Pipe("r1", "w1"), Pipe("r2", "w2"), Goto("write")>>,
     write |-> <<If("j", 2, "poll"), Choose("randPipe", {1, 2}), Add("j", 1), If("randPipe", 2, "second"),
                 Write("w1", <<"a">>), Goto("write")>>,
     second |-> <<Write("w2", <<"a">>), Goto("write")>>,
     poll |-> <<SelectFor({"r1", "r2"}, "revents"), Show("ready", "r"), Show("revents", "revents"), Exit("0")>>])

\* t_select.c:38-99 main
t_select == Program(<< >>,
    [main |-> <<Choose("pto", {"-", "timeout"}), If("pto", "timeout", "timed"),
                SelectRW({"in"}, {"out"}, "readfds", "writefds", FALSE), Goto("report")>>,
     timed |-> <<SelectRW({"in"}, {}, "readfds", "writefds", TRUE), Goto("report")>>,
     report |-> <<Show("ready", "r"), Exit("0")>>])

\* external: a program that writes into a FIFO
fifoWriter(name) == Program(<< >>,
    [main |-> <<Open("fifo", name, {"WRONLY"}), Try(Write("fifo", <<"x">>)), Close("fifo"), Exit("0")>>])

\* Mutant: readable descriptors are not distinguished from those that only hang up.
epoll_input_NoRead == Program(<< >>,
    [main |-> <<EpollCreate("epfd"), Open("fd1", "fifo1", {"RDONLY"}), EpollAdd("epfd", "fd1", {}),
                Open("fd2", "fifo2", {"RDONLY"}), EpollAdd("epfd", "fd2", {}), Set("numOpenFds", 2), Goto("loop")>>,
     loop |-> <<If("numOpenFds", 0, "end"), EpollWait("epfd", "evlist"), Goto("first")>>,
     first |-> <<IfHas("evlist", "fd1", "close1"), Goto("other")>>,
     close1 |-> <<Close("fd1"), Add("numOpenFds", -1), Goto("other")>>,
     other |-> <<IfHas("hup", "fd2", "close2"), IfHas("evlist", "fd2", "read2"), Goto("loop")>>,
     read2 |-> <<Read("fd2", 2), Show("fd2", "buf"), Goto("loop")>>,
     close2 |-> <<Close("fd2"), Add("numOpenFds", -1), Goto("loop")>>,
     end |-> <<Exit("0")>>])

\* epoll_input.c:32-113 main
epoll_input == Program(<< >>,
    [main |-> <<EpollCreate("epfd"), Open("fd1", "fifo1", {"RDONLY"}), EpollAdd("epfd", "fd1", {}),
                Open("fd2", "fifo2", {"RDONLY"}), EpollAdd("epfd", "fd2", {}), Set("numOpenFds", 2), Goto("loop")>>,
     loop |-> <<If("numOpenFds", 0, "end"), EpollWait("epfd", "evlist"), Goto("first")>>,
     first |-> <<IfHas("hup", "fd1", "close1"), IfHas("evlist", "fd1", "read1"), Goto("other")>>,
     read1 |-> <<Read("fd1", 2), Show("fd1", "buf"), Goto("other")>>,
     close1 |-> <<Close("fd1"), Add("numOpenFds", -1), Goto("other")>>,
     other |-> <<IfHas("hup", "fd2", "close2"), IfHas("evlist", "fd2", "read2"), Goto("loop")>>,
     read2 |-> <<Read("fd2", 2), Show("fd2", "buf"), Goto("loop")>>,
     close2 |-> <<Close("fd2"), Add("numOpenFds", -1), Goto("loop")>>,
     end |-> <<Exit("0")>>])

\* epoll_flags_fork.c:82-219 main
epoll_flags_fork(opts) ==
    LET flags == (IF "e" \in opts THEN {"ET"} ELSE {}) \cup (IF "o" \in opts THEN {"ONESHOT"} ELSE {})
        openFifo == <<Open("fd", "fifo1", {"RDONLY", "NONBLOCK"})>>
        makeEpoll == <<EpollCreate("epfd"), EpollAdd("epfd", "fd", flags)>>
    IN  Program(<< >>,
    [main |-> When("p" \notin opts, openFifo) \o When("s" \in opts, makeEpoll) \o <<Goto("fork")>>,
     fork |-> <<If("childNum", 2, "parent"), Fork("child"), Add("childNum", 1), Goto("fork")>>,
     child |-> When("p" \in opts, openFifo) \o When("s" \notin opts, makeEpoll) \o <<Goto("wait")>>,
     wait |-> <<EpollWait("epfd", "rev"), Show("ready", "childNum")>>
              \o When("r" \in opts, <<Sleep, Try(Read("fd", 2)), If("r", 0, "end")>>)
              \o <<Goto(IF "l" \in opts THEN "wait" ELSE "end")>>,
     end |-> <<Exit("0")>>,
     parent |-> <<Sleep, Try(Wait), Try(Wait), Exit("0")>>])

\* demo_sigio.c:27-90 sigioHandler, main
demo_sigio(tty) == Program([gotSigio |-> 0], tty @@
    [main |-> <<Signal("IO", "sigioHandler"), Async("in"), Nonblock("in"), Call("ttySetCbreak"), IfLess("r", 0, "errExit"),
                Copy("origTermios", "prevTermios"), Goto("loop")>>,
     loop |-> <<If("gotSigio", 0, "loop"), Set("gotSigio", 0), Goto("read")>>,
     read |-> <<Try(Read("in", 1)), IfLess("r", 1, "loop"), Show("read", "buf"), If("buf", <<"#">>, "last"), Goto("read")>>,
     last |-> <<Try(Read("in", 1)), Goto("end")>>,
     end |-> <<Tcsetattr("origTermios"), Exit("0")>>,
     sigioHandler |-> <<Set("gotSigio", 1), Return>>])

\* external: the sender of two messages, one of them empty
msgSender == Program(<< >>,
    [main |-> <<Msgsnd("mq", [type |-> 1, data |-> <<"m">>]), Choose("len", {0, 1}), If("len", 1, "full"),
                Msgsnd("mq", [type |-> 1, data |-> << >>]), Exit("0")>>,
     full |-> <<Msgsnd("mq", [type |-> 1, data |-> <<"n">>]), Exit("0")>>])

\* select_mq.c:55-155 childMon, main
select_mq == Program(<< >>,
    [main |-> <<Pipe("pfd0", "pfd1"), On(Fork("childMon"), "noFork"), Goto("loop")>>,
     noFork |-> <<Kill("group", "TERM"), Exit("1")>>,
     childMon |-> <<Msgrcv("mq", {}), Prefix("buf", "r"), WriteBuf("pfd1"), Goto("childMon")>>,
     loop |-> <<Select({"in", "pfd0"}, "readfds"), IfHas("readfds", "in", "terminal"), Goto("queue")>>,
     terminal |-> <<Read("in", 2), Goto("queue")>>,
     queue |-> <<IfHas("readfds", "pfd0", "message"), Goto("loop")>>,
     message |-> <<Read("pfd0", 1), If("r", 0, "errExit"), Item("len", "buf", 1),
                   ReadN("pfd0", "len"), If("r", 0, "errExit"), Show("MQ", "buf"), Goto("loop")>>])

\* multithread_epoll_wait.c:61-110 threadFunc, main
multithread_epoll_wait(epollet) == Program(<< >>,
    [main |-> <<EpollCreate("epfd"), Pipe("pipe0", "pipe1"), EpollAdd("epfd", "pipe0", epollet), Goto("create")>>,
     create |-> <<If("j", 2, "write"), Thread("threadFunc"), Add("j", 1), Goto("create")>>,
     write |-> <<Sleep, Try(Write("pipe1", <<"x">>)), Sleep, Say("main ends"), Exit("0")>>,
     threadFunc |-> <<EpollWait("epfd", "evlist"), Show("completed", "j"), ThreadExit>>])

-----------------------------------------------------------------------------
\* tty_functions.c:29-52 ttySetCbreak
ttySetCbreak ==
    [ttySetCbreak |-> <<On(Tcgetattr("t"), "ttyFailed"), Copy("prevTermios", "t"), Without1("t", {"ICANON", "ECHO"}),
                        With1("t", {"ISIG"}), Without1("t", {"ICRNL"}), On(Tcsetattr("t"), "ttyFailed"), Return>>,
     ttyFailed |-> <<Return>>]

\* tty_functions.c:59-89 ttySetRaw
ttySetRaw ==
    [ttySetRaw |-> <<On(Tcgetattr("t"), "rawFailed"), Copy("prevTermios", "t"),
                     Without1("t", {"ICANON", "ISIG", "IEXTEN", "ECHO"}), Without1("t", {"ICRNL", "IXON"}),
                     Without1("t", {"OPOST"}), On(Tcsetattr("t"), "rawFailed"), Return>>,
     rawFailed |-> <<Return>>]

\* demo_SIGWINCH.c:24-49 sigwinchHandler, main
demo_SIGWINCH == Program(<< >>,
    [main |-> <<Sigaction("WINCH", "sigwinchHandler", {}), Goto("loop")>>,
     loop |-> <<Pause, Say("new window size"), Goto("loop")>>,
     sigwinchHandler |-> <<Return>>])

\* new_intr.c:22-53 main
new_intr == Program(<< >>,
    [main |-> <<Choose("argc", {1, 2}), Tcgetattr("tp"), If("argc", 1, "disable"), With1("tp", {"INTR"}), Goto("set")>>,
     disable |-> <<Without1("tp", {"INTR"}), Goto("set")>>,
     set |-> <<Tcsetattr("tp"), Exit("0")>>])

\* no_echo.c:23-53 main
no_echo == Program(<< >>,
    [main |-> <<Tcgetattr("tp"), Copy("save", "tp"), Without1("tp", {"ECHO"}), Tcsetattr("tp"), Try(Read("in", 1)),
                Tcsetattr("save"), Exit("0")>>])

\* Mutant: the handler does not restore the settings before it stops.
test_tty_functions_Stop == Program([userTermios |-> {}], ttySetCbreak @@ ttySetRaw @@
    [main |-> <<Choose("argc", {1, 2}), IfLess("argc", 2, "raw"), Call("ttySetCbreak"), IfLess("r", 0, "errExit"),
                Copy("userTermios", "prevTermios"), Sigaction("QUIT", "handler", {"RESTART"}),
                Sigaction("INT", "handler", {"RESTART"}), Sigaction("TSTP", "tstpHandler", {"RESTART"}), Goto("term")>>,
     raw |-> <<Call("ttySetRaw"), IfLess("r", 0, "errExit"), Copy("userTermios", "prevTermios"), Goto("term")>>,
     term |-> <<Sigaction("TERM", "handler", {"RESTART"}), Goto("loop")>>,
     loop |-> <<On(Read("in", 1), "end"), If("r", 0, "end"), If("buf", <<"q">>, "end"), Goto("loop")>>,
     end |-> <<Tcsetattr("userTermios"), Exit("0")>>,
     handler |-> <<Tcsetattr("userTermios"), UExit("0")>>,
     tstpHandler |-> <<Copy("savedErrno", "e"), Tcgetattr("ourTermios"), Signal("TSTP", "dfl"),
                       Kill("self", "TSTP"), SaveMask("prevMask"), Unblock({"TSTP"}), RestoreMask("prevMask"),
                       Sigaction("TSTP", "tstpHandler", {"RESTART"}), Tcgetattr("now"), Copy("userTermios", "now"),
                       Tcsetattr("ourTermios"), Copy("e", "savedErrno"), Return>>])

\* test_tty_functions.c:34-173 handler, tstpHandler, main
test_tty_functions == Program([userTermios |-> {}], ttySetCbreak @@ ttySetRaw @@
    [main |-> <<Choose("argc", {1, 2}), IfLess("argc", 2, "raw"), Call("ttySetCbreak"), IfLess("r", 0, "errExit"),
                Copy("userTermios", "prevTermios"), Sigaction("QUIT", "handler", {"RESTART"}),
                Sigaction("INT", "handler", {"RESTART"}), Sigaction("TSTP", "tstpHandler", {"RESTART"}), Goto("term")>>,
     raw |-> <<Call("ttySetRaw"), IfLess("r", 0, "errExit"), Copy("userTermios", "prevTermios"), Goto("term")>>,
     term |-> <<Sigaction("TERM", "handler", {"RESTART"}), Goto("loop")>>,
     loop |-> <<On(Read("in", 1), "end"), If("r", 0, "end"), If("buf", <<"q">>, "end"), Goto("loop")>>,
     end |-> <<Tcsetattr("userTermios"), Exit("0")>>,
     handler |-> <<Tcsetattr("userTermios"), UExit("0")>>,
     tstpHandler |-> <<Copy("savedErrno", "e"), Tcgetattr("ourTermios"), Tcsetattr("userTermios"), Signal("TSTP", "dfl"),
                       Kill("self", "TSTP"), SaveMask("prevMask"), Unblock({"TSTP"}), RestoreMask("prevMask"),
                       Sigaction("TSTP", "tstpHandler", {"RESTART"}), Tcgetattr("now"), Copy("userTermios", "now"),
                       Tcsetattr("ourTermios"), Copy("e", "savedErrno"), Return>>])
\* pty_master_open.c:52-93 ptyMasterOpen
ptyMasterOpen ==
    [ptyMasterOpen |-> <<On(OpenMaster("mfd"), "noMaster"), On(Sys("grantpt"), "closeMaster"), On(Sys("unlockpt"), "closeMaster"),
                         On(Sys("ptsname"), "closeMaster"), Return>>,
     closeMaster |-> <<Copy("savedErrno", "e"), Try(Close("mfd")), Copy("e", "savedErrno"), Goto("noMaster")>>,
     noMaster |-> <<Set("r", -1), Return>>]

\* pty_fork.c:43-117 ptyFork
ptyFork == ptyMasterOpen @@
    [ptyFork |-> <<Call("ptyMasterOpen"), IfLess("r", 0, "noPty"), On(Fork("ptyChild"), "noPtyChild"), Return>>,
     noPty |-> <<Return>>,
     noPtyChild |-> <<Copy("savedErrno", "e"), Try(Close("mfd")), Copy("e", "savedErrno"), Set("r", -1), Return>>,
     ptyChild |-> <<On(Setsid, "err_exit"), Try(Close("mfd")), On(OpenSlave("slaveFd"), "err_exit"),
                    On(Sys("TIOCSCTTY"), "err_exit"), On(Sys("tcsetattr"), "err_exit"), On(Sys("TIOCSWINSZ"), "err_exit"),
                    On(Dup2("slaveFd", "in"), "err_exit"), On(Dup2("slaveFd", "out"), "err_exit"), Try(Close("slaveFd")),
                    Set("r", 0), Return>>]

\* Mutant: the terminal is reset only when the shell ends.
script_NoReset == Program(<< >>, ptyFork @@ ttySetRaw @@
    [main |-> <<Tcgetattr("ttyOrig"), Sys("TIOCGWINSZ"), Call("ptyFork"), IfLess("r", 0, "errExit"), If("r", 0, "shell"),
                Open("scriptFd", "typescript", {"CREAT", "TRUNC"}), Call("ttySetRaw"), Copy("ttyOrig", "prevTermios"), Goto("loop")>>,
     shell |-> <<Exec("ptyShell")>>,
     ttyReset |-> <<Tcsetattr("ttyOrig"), Exit("0")>>,
     loop |-> <<Select({"in", "mfd"}, "inFds"), IfHas("inFds", "in", "stdin"), Goto("output")>>,
     stdin |-> <<Try(Read("in", 2)), IfLess("r", 1, "end"), WriteBuf("mfd"), Goto("output")>>,
     output |-> <<IfHas("inFds", "mfd", "master"), Goto("loop")>>,
     master |-> <<Try(Read("mfd", 2)), IfLess("r", 1, "ttyReset"), WriteBuf("out"), WriteBuf("scriptFd"), Goto("loop")>>,
     end |-> <<Exit("0")>>])

\* script.c:34-131 ttyReset, main
script == Program(<< >>, ptyFork @@ ttySetRaw @@
    [main |-> <<Tcgetattr("ttyOrig"), Sys("TIOCGWINSZ"), Call("ptyFork"), IfLess("r", 0, "errExit"), If("r", 0, "shell"),
                Open("scriptFd", "typescript", {"CREAT", "TRUNC"}), Call("ttySetRaw"), Copy("ttyOrig", "prevTermios"),
                Atexit("ttyReset"), Goto("loop")>>,
     shell |-> <<Exec("ptyShell")>>,
     ttyReset |-> <<Tcsetattr("ttyOrig"), Return>>,
     loop |-> <<Select({"in", "mfd"}, "inFds"), IfHas("inFds", "in", "stdin"), Goto("output")>>,
     stdin |-> <<Try(Read("in", 2)), IfLess("r", 1, "end"), WriteBuf("mfd"), Goto("output")>>,
     output |-> <<IfHas("inFds", "mfd", "master"), Goto("loop")>>,
     master |-> <<Try(Read("mfd", 2)), IfLess("r", 1, "end"), WriteBuf("out"), WriteBuf("scriptFd"), Goto("loop")>>,
     end |-> <<Exit("0")>>])

\* unbuffer.c:36-112 ttyReset, main
unbuffer == Program(<< >>, ptyFork @@ ttySetRaw @@
    [main |-> <<Tcgetattr("ttyOrig"), Sys("TIOCGWINSZ"), Call("ptyFork"), IfLess("r", 0, "errExit"), If("r", 0, "program"),
                Call("ttySetRaw"), Copy("ttyOrig", "prevTermios"), Atexit("ttyReset"), Goto("loop")>>,
     program |-> <<Exec("ptyShell")>>,
     ttyReset |-> <<Tcsetattr("ttyOrig"), Return>>,
     loop |-> <<Select({"in", "mfd"}, "inFds"), IfHas("inFds", "in", "stdin"), Goto("output")>>,
     stdin |-> <<Try(Read("in", 2)), IfLess("r", 1, "end"), WriteBuf("mfd"), Goto("output")>>,
     output |-> <<IfHas("inFds", "mfd", "master"), Goto("loop")>>,
     master |-> <<Try(Read("mfd", 2)), IfLess("r", 1, "end"), WriteBuf("out"), Goto("loop")>>,
     end |-> <<Exit("0")>>])

\* external: a program on the slave, which answers one line
ptyShell == Program(<< >>, [main |-> <<Read("in", 2), Write("out", <<"o1">>), Write("out", <<"o2">>), Exit("0")>>])

\* external: the user types, and then leaves or stays at the terminal
userTypes(line, stays) == Program(<< >>,
    [main |-> <<Write("kbd", SubSeq(line, 1, 1)), Write("kbd", SubSeq(line, 2, Len(line))), Goto(IF stays THEN "stay" ELSE "leave")>>,
     stay |-> <<Pause, Goto("stay")>>,
     leave |-> <<Exit("0")>>])

\* external: the shell of a stopped job changes the settings and continues the job
jobShell == Program(<< >>,
    [main |-> <<Set("job", 1), Kill("job", "TSTP"), Goto("watch")>>,
     watch |-> <<Status("job", "st"), IfNot("st", "stop", "again"), Tcgetattr("t"), Without1("t", {"ECHO"}), Tcsetattr("t"),
                 Kill("job", "CONT"), Kill("job", "TERM"), Exit("0")>>,
     again |-> <<IfIn("st", {"gone", "zombie"}, "end"), Goto("watch")>>,
     end |-> <<Exit("0")>>])

PipeTexts ==
    [wc |-> wc, ls2 |-> ls2, pipe_ls_wc |-> pipe_ls_wc, pipe_sync |-> pipe_sync, simple_pipe |-> simple_pipe,
     change_case |-> change_case, popen_glob |-> popen_glob, self_pipe |-> self_pipe, poll_pipes |-> poll_pipes,
     t_select |-> t_select, fifoWriter1 |-> fifoWriter("fifo1"), fifoWriter2 |-> fifoWriter("fifo2"), epoll_input |-> epoll_input,
     epoll_level |-> epoll_flags_fork({"s"}), epoll_edge |-> epoll_flags_fork({"s", "e"}),
     epoll_oneshot |-> epoll_flags_fork({"o"}), epoll_read |-> epoll_flags_fork({"s", "r"}),
     demo_sigio |-> demo_sigio(ttySetCbreak), msgSender |-> msgSender, select_mq |-> select_mq,
     multi_epoll |-> multithread_epoll_wait({}), multi_epoll_et |-> multithread_epoll_wait({"ET"}),
     demo_SIGWINCH |-> demo_SIGWINCH, new_intr |-> new_intr, no_echo |-> no_echo, test_tty_functions |-> test_tty_functions,
     script |-> script, unbuffer |-> unbuffer, ptyShell |-> ptyShell, jobShell |-> jobShell,
     types_a |-> userTypes(<<"a", "b">>, FALSE), types_hash |-> userTypes(<<"a", "#">>, FALSE), types_stay |-> userTypes(<<"a", "q">>, TRUE),
     user |-> Program(<< >>, [main |-> <<Pause, Goto("main")>>])]

Fifo(name) == NewObj("pipe", name, << >>, 3)

PipeScenes ==
    [x \in {"pipe_ls_wc", "pipe_sync", "simple_pipe", "poll_pipes", "t_select", "multi_epoll", "multi_epoll_et", "new_intr"} |-> Scene(<<x>>)] @@
    [x \in {"epoll_level", "epoll_edge", "epoll_oneshot", "epoll_read"} |->
        Serving(Sure(With(Scene(<<x, "fifoWriter1">>), <<Fifo("fifo1")>>)), IF x = "epoll_edge" THEN {1, 3, 4} ELSE {})] @@
    [change_case |-> WithInput(Scene(<<"change_case">>), <<"a", "b", "a">>),
     popen_glob |-> WithInput(Scene(<<"popen_glob">>), <<"*", "bad", "*">>),
     self_pipe |-> WithUser(Serving(WithSignals(Scene(<<"self_pipe", "user">>), 1, [INT |-> 2]), {2}), 2),
     epoll_input |-> Sure(With(Scene(<<"epoll_input", "fifoWriter1", "fifoWriter2">>), <<Fifo("fifo1"), Fifo("fifo2")>>)),
     demo_sigio |-> WithUser(Scene(<<"demo_sigio", "types_hash">>), 2),
     select_mq |-> With(WithUser(Serving(Scene(<<"select_mq", "user", "msgSender">>), {1, 2, 3, 4}), 2), <<NewObj("msgq", "mq", << >>, 1)>>),
     demo_SIGWINCH |-> Serving(WithSignals(Scene(<<"demo_SIGWINCH">>), 1, [WINCH |-> 2]), {1}),
     no_echo |-> WithUser(WithSignals(Scene(<<"no_echo", "types_a">>), 1, [INT |-> 1]), 2),
     test_tty_functions |-> WithUser(Serving(Scene(<<"test_tty_functions", "user", "jobShell">>), {2}), 2),
     test_tty_typed |-> WithUser(WithSignals(Scene(<<"test_tty_functions", "types_a">>), 1, [INT |-> 1, TERM |-> 1]), 2),
     script |-> WithUser(Scene(<<"script", "types_a">>), 2),
     unbuffer |-> WithUser(Serving(Scene(<<"unbuffer", "types_stay">>), {2}), 2)]
=============================================================================
