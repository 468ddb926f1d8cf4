---------------------------- MODULE ProcPrograms ----------------------------
(***************************************************************************)
(* The programs of tlpi-dist/procexec in the notation of UnixCode.  Two    *)
(* children stand for `argc - 1' of them; what is printed is kept only     *)
(* where a property of MCUnix is about it.                                 *)
(***************************************************************************)
EXTENDS UnixCode

\* Mutant: the handler reaps one child per signal.
multi_SIGCHLD_Once == Program([numLiveChildren |-> 2],
    [main |-> <<Sigaction("CHLD", "sigchldHandler", {}), SetMask({"CHLD"}), Set("j", 1), Goto("fork")>>,
     fork |-> <<If("j", 3, "wait"), Fork("child"), Add("j", 1), Goto("fork")>>,
     child |-> <<Sleep, Say("child"), Exit("0")>>,
     wait |-> <<If("numLiveChildren", 0, "done"), Sigsuspend({}), Goto("wait")>>,
     done |-> <<Say("all"), Exit("0")>>,
     sigchldHandler |-> <<Try(WaitPid("any", {"NOHANG"})), IfLess("r", 1, "handled"),
                          Add("numLiveChildren", -1), Goto("handled")>>,
     handled |-> <<Sleep, Return>>])

\* multi_SIGCHLD.c:25-119 main, sigchldHandler
multi_SIGCHLD == Program([numLiveChildren |-> 2],
    [main |-> <<Sigaction("CHLD", "sigchldHandler", {}), SetMask({"CHLD"}), Set("j", 1), Goto("fork")>>,
     fork |-> <<If("j", 3, "wait"), Fork("child"), Add("j", 1), Goto("fork")>>,
     child |-> <<Sleep, Say("child"), Exit("0")>>,
     wait |-> <<If("numLiveChildren", 0, "done"), Sigsuspend({}), Goto("wait")>>,
     done |-> <<Say("all"), Exit("0")>>,
     sigchldHandler |-> <<Try(WaitPid("any", {"NOHANG"})), IfLess("r", 1, "handled"),
                          Add("numLiveChildren", -1), Goto("sigchldHandler")>>,
     handled |-> <<Sleep, Return>>])

\* fork_sig_sync.c:24-93 main, handler
fork_sig_sync == Program(<< >>,
    [main |-> <<Block({"USR1"}), Sigaction("USR1", "handler", {"RESTART"}), Fork("child"), Sigsuspend({}),
                Say("parent goes on"), SetMask({}), Exit("0")>>,
     child |-> <<Sleep, Say("child has acted"), Getppid("to"), Kill("to", "USR1"), Exit("0")>>,
     handler |-> <<Return>>])

\* orphan.c:25-52 main
orphan == Program(<< >>,
    [main |-> <<Fork("child"), Sleep, Say("parent exits"), Exit("0")>>,
     child |-> <<Getppid("ppid"), IfLess("ppid", 1, "orphaned"), Sleep, Goto("child")>>,
     orphaned |-> <<Say("orphaned"), Exit("0")>>])

\* child_status.c:31-75 main
child_status == Program(<< >>,
    [main |-> <<Choose("argc", {1, 2}), Fork("child"), WaitPid("any", {}), Show("status", "status"), Exit("0")>>,
     child |-> <<If("argc", 2, "exit"), Goto("forever")>>,
     exit |-> <<Exit("exit-status")>>,
     forever |-> <<Pause, Goto("forever")>>])

\* make_zombie.c:26-59 main
make_zombie == Program(<< >>,
    [main |-> <<Fork("child"), Copy("childPid", "r"), Sleep, Try(Kill("childPid", "KILL")), Sleep,
                Say("after SIGKILL"), Exit("0")>>,
     child |-> <<Exit("0")>>])

\* multi_wait.c:30-75 main
multi_wait == Program(<< >>,
    [main |-> <<Set("j", 1), Goto("fork")>>,
     fork |-> <<If("j", 3, "loop"), Fork("child"), Add("j", 1), Goto("fork")>>,
     child |-> <<Sleep, Exit("0")>>,
     loop |-> <<On(Wait, "none"), Add("numDead", 1), Goto("loop")>>,
     none |-> <<IfNot("e", "ECHILD", "errExit"), Show("dead", "numDead"), Exit("0")>>])

\* vfork_fd_test.c:22-45 main
vfork_fd_test == Program(<< >>,
    [main |-> <<VFork("child"), Try(Close("out")), Show("first", "r"), Try(Close("out")), Show("second", "r"), Exit("0")>>,
     child |-> <<Try(Close("out")), Exit("0")>>])

\* fork_whos_on_first.c:26-56 main
fork_whos_on_first == Program(<< >>,
    [main |-> <<If("j", 2, "done"), Fork("child"), Show("parent", "j"), Try(Wait), Add("j", 1), Goto("main")>>,
     child |-> <<Show("child", "j"), Exit("0")>>,
     done |-> <<Exit("0")>>])

\* fork_file_sharing.c:23-78 main
fork_file_sharing == Program(<< >>,
    [main |-> <<Open("fd", "/tmp/testXXXXXX", {"CREAT"}), Fork("child"), Wait,
                Offset("fd", "off"), Show("offset", "off"), Flags("fd", "append"), Show("append", "append"), Exit("0")>>,
     child |-> <<Lseek("fd", 3), Append0("fd"), Exit("0")>>])

\* fork_stdio_buf.c:19-31 main
fork_stdio_buf == Program(<< >>,
    [main |-> <<Printf("Hello world"), Try(Write("out", <<"Ciao">>)), Fork("end"), Goto("end")>>,
     end |-> <<Exit("0")>>])

\* t_fork.c:20-48 main
t_fork == Program([idata |-> 111, istack |-> 222],
    [main |-> <<Fork("child"), Sleep, Goto("end")>>,
     child |-> <<Set("idata", 333), Set("istack", 666), Goto("end")>>,
     end |-> <<Show("idata", "idata"), Exit("0")>>])

\* t_vfork.c:21-42 main
t_vfork == Program([istack |-> 222],
    [main |-> <<VFork("child"), Say("Parent executing"), Show("istack", "istack"), Exit("0")>>,
     child |-> <<Sleep, Say("Child executing"), Set("istack", 666), Exit("0")>>])

\* footprint.c:29-71 main, func
footprint == Program(<< >>,
    [main |-> <<Fork("func"), Wait, Show("status", "status"), Exit("0")>>,
     func |-> <<Exit("arg")>>])

\* external: a command that the shell runs
sh == Program(<< >>,
    [main |-> <<Choose("x", {0, 1}), If("x", 1, "three"), Exit("0")>>,
     three |-> <<Exit("3")>>])

\* Mutant: the caller does not ignore SIGINT.
systemText_NoIgnore ==
    [system |-> <<SaveMask("origMask"), Block({"CHLD"}), SaveAction("INT", "saOrigInt"),
                  SaveAction("QUIT", "saOrigQuit"), Sigaction("QUIT", "ign", {}),
                  On(Fork("systemChild"), "noChild"), Copy("childPid", "r"), Goto("await")>>,
     noChild |-> <<Set("status", "-1"), Goto("restore")>>,
     systemChild |-> <<If("saOrigInt", Ignore, "childQuit"), Sigaction("INT", "dfl", {}), Goto("childQuit")>>,
     childQuit |-> <<If("saOrigQuit", Ignore, "childExec"), Sigaction("QUIT", "dfl", {}), Goto("childExec")>>,
     childExec |-> <<RestoreMask("origMask"), Try(Exec("sh")), UExit("127")>>,
     await |-> <<On(WaitPid("childPid", {}), "failed"), Goto("restore")>>,
     failed |-> <<If("e", "EINTR", "await"), Set("status", "-1"), Goto("restore")>>,
     restore |-> <<RestoreMask("origMask"), RestoreAction("INT", "saOrigInt"), RestoreAction("QUIT", "saOrigQuit"), Return>>]

\* system.c:23-100 system
systemText ==
    [system |-> <<SaveMask("origMask"), Block({"CHLD"}), SaveAction("INT", "saOrigInt"), Sigaction("INT", "ign", {}),
                  SaveAction("QUIT", "saOrigQuit"), Sigaction("QUIT", "ign", {}),
                  On(Fork("systemChild"), "noChild"), Copy("childPid", "r"), Goto("await")>>,
     noChild |-> <<Set("status", "-1"), Goto("restore")>>,
     systemChild |-> <<If("saOrigInt", Ignore, "childQuit"), Sigaction("INT", "dfl", {}), Goto("childQuit")>>,
     childQuit |-> <<If("saOrigQuit", Ignore, "childExec"), Sigaction("QUIT", "dfl", {}), Goto("childExec")>>,
     childExec |-> <<RestoreMask("origMask"), Try(Exec("sh")), UExit("127")>>,
     await |-> <<On(WaitPid("childPid", {}), "failed"), Goto("restore")>>,
     failed |-> <<If("e", "EINTR", "await"), Set("status", "-1"), Goto("restore")>>,
     restore |-> <<RestoreMask("origMask"), RestoreAction("INT", "saOrigInt"), RestoreAction("QUIT", "saOrigQuit"), Return>>]

\* simple_system.c:23-43 system
simpleSystemText ==
    [system |-> <<On(Fork("systemChild"), "failed"), Copy("childPid", "r"), On(WaitPid("childPid", {}), "failed"), Return>>,
     systemChild |-> <<Try(Exec("sh")), UExit("127")>>,
     failed |-> <<Set("status", "-1"), Return>>]

\* t_system.c:23-50 main
t_system(lib) == Program(<< >>, lib @@
    [main |-> <<Read("in", 1), If("r", 0, "done"), Call("system"), Show("status", "status"),
                If("status", "-1", "errExit"), Goto("main")>>,
     done |-> <<Exit("0")>>])

\* demo_clone.c:49-191 childFunc, grimReaper, main
demo_clone(flags) == Program(<< >>,
    [main |-> <<Fs("umask", "002"), Open("fd", "/dev/null", {"CREAT"}), Signal("TERM", "ign"),
                Sigaction("USR1", "grimReaper", {"RESTART"}), Clone("childFunc", flags, "USR1"),
                WaitPid("any", {"CLONE"}), Show("status", "status"),
                GetFs("umask", "mask"), Fs("umask", "0"), Show("umask", "mask"),
                Try(Write("fd", <<"Hello">>)), Show("write", "r"),
                SaveAction("TERM", "sa"), Show("signal", "sa"), Exit("0")>>,
     childFunc |-> <<Fs("umask", "020"), Close("fd"), Signal("TERM", "dfl"), Exit("22")>>,
     grimReaper |-> <<Return>>])

\* t_clone.c:29-92 childFunc, main
t_clone(flags) == Program(<< >>,
    [main |-> <<Open("fd", "/dev/null", {"CREAT"}), Signal("USR1", "ign"), Clone("childFunc", flags, "USR1"),
                WaitPid("any", {"CLONE"}), Try(Write("fd", <<"x">>)), Show("write", "r"), Exit("0")>>,
     childFunc |-> <<Close("fd"), Exit("0")>>])

\* exit_handlers.c:28-66 atexitFunc1, atexitFunc2, onexitFunc, main
exit_handlers == Program(<< >>,
    [main |-> <<Atexit("onexitFunc10"), Atexit("atexitFunc1"), Atexit("atexitFunc2"), Atexit("onexitFunc20"), Exit("2")>>,
     atexitFunc1 |-> <<Say("atexit 1"), Return>>,
     atexitFunc2 |-> <<Say("atexit 2"), Return>>,
     onexitFunc10 |-> <<Say("on_exit 10"), Return>>,
     onexitFunc20 |-> <<Say("on_exit 20"), Return>>])

\* external: ls, which fails when its standard output is closed
ls == Program(<< >>,
    [main |-> <<On(Write("out", <<"f1", "f2">>), "closed"), Exit("0")>>,
     closed |-> <<Exit("2")>>])

\* closeonexec.c:21-39 main
closeonexec == Program(<< >>,
    [main |-> <<Choose("argc", {1, 2}), Show("argc", "argc"), IfLess("argc", 2, "exec"), Cloexec("out"), Goto("exec")>>,
     exec |-> <<Exec("ls")>>])

\* envargs.c:21-38 main
envargs == Program(<< >>, [main |-> <<Show("argc", "argc"), Show("GREET", "GREET"), Exit("0")>>])

\* t_execve.c:19-43 main
t_execve == Program(<< >>, [main |-> <<ExecWith("envargs", [argc |-> 3, GREET |-> "salut", BYE |-> "adieu"])>>])

\* t_execle.c:19-38 main
t_execle == Program(<< >>, [main |-> <<ExecWith("envargs", [argc |-> 3, GREET |-> "salut", BYE |-> "adieu"])>>])

\* pdeath_signal.c:91-368 handler, createChild, performPerThreadSteps, threadStartFunc, createThreads, createAncestor, main
pdeath_signal == Program([cnt |-> 0],
    [main |-> <<Fork("ancestor1"), Try(Wait), Exit("0")>>,
     ancestor1 |-> <<Prctl("reaper", TRUE), Sleep, Fork("ancestor2"), Sleep, ThreadExit>>,
     ancestor2 |-> <<Thread("threadStartFunc"), Sleep, ThreadExit>>,
     threadStartFunc |-> <<Fork("createChild"), Sleep, ThreadExit>>,
     createChild |-> <<Sigaction("USR1", "handler", {}), Sleep, Prctl("pdeath", "USR1"), Sleep, Show("signals", "cnt"), Exit("0")>>,
     handler |-> <<Add("cnt", 1), Getppid("ppid"), Show("parent", "ppid"), Return>>])

ProcTexts ==
    [multi_SIGCHLD |-> multi_SIGCHLD, fork_sig_sync |-> fork_sig_sync, orphan |-> orphan, child_status |-> child_status,
     make_zombie |-> make_zombie, multi_wait |-> multi_wait, vfork_fd_test |-> vfork_fd_test,
     fork_whos_on_first |-> fork_whos_on_first, fork_file_sharing |-> fork_file_sharing,
     fork_stdio_buf |-> fork_stdio_buf, t_fork |-> t_fork, t_vfork |-> t_vfork, footprint |-> footprint,
     sh |-> sh, ls |-> ls, envargs |-> envargs, t_system |-> t_system(systemText),
     t_simple_system |-> t_system(simpleSystemText),
     demo_clone |-> demo_clone({}), demo_clone_d |-> demo_clone({"FILES"}), demo_clone_f |-> demo_clone({"FS"}),
     demo_clone_s |-> demo_clone({"SIGHAND"}), demo_clone_sv |-> demo_clone({"SIGHAND", "VM"}),
     t_clone |-> t_clone({}), t_clone_d |-> t_clone({"FILES"}), exit_handlers |-> exit_handlers,
     closeonexec |-> closeonexec, t_execve |-> t_execve, t_execle |-> t_execle, pdeath_signal |-> pdeath_signal]

ProcScenes == [x \in DOMAIN ProcTexts \ {"sh", "ls", "envargs"} |->
    CASE x = "child_status" -> WithSignals(Scene(<<x>>), 2, [TERM |-> 1])
      [] x \in {"t_system", "t_simple_system"} -> WithInput(WithSignals(Scene(<<x>>), 0, [INT |-> 1]), <<"command">>)
      [] OTHER -> Scene(<<x>>)]
=============================================================================
