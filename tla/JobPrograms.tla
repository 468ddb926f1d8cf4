----------------------------- MODULE JobPrograms -----------------------------
(***************************************************************************)
(* The programs of tlpi-dist/pgsjc and tlpi-dist/daemons in the notation   *)
(* of UnixCode.  Two children, or two commands of a pipeline, stand for    *)
(* any number of them.                                                     *)
(***************************************************************************)
EXTENDS UnixCode

\* catch_SIGHUP.c:26-62 handler, main
catch_SIGHUP == Program(<< >>,
    [main |-> <<Sigaction("HUP", "handler", {}), Choose("argc", {1, 2}), Fork("child"), Goto("start")>>,
     child |-> <<IfLess("argc", 2, "start"), Setpgid, Goto("start")>>,
     start |-> <<Alarm(TRUE), Goto("loop")>>,
     loop |-> <<Pause, Getpid("pid"), Show("caught SIGHUP", "pid"), Goto("loop")>>,
     handler |-> <<Return>>])

\* disc_SIGHUP.c:31-82 handler, main
disc_SIGHUP == Program(<< >>,
    [main |-> <<Fork("d"), Fork("s"), Goto("start")>>,
     d |-> <<Setpgid, Goto("s")>>,
     s |-> <<Sigaction("HUP", "handler", {}), Goto("start")>>,
     start |-> <<Alarm(TRUE), Goto("loop")>>,
     loop |-> <<Pause, Goto("loop")>>,
     handler |-> <<Getpid("pid"), Show("caught", "pid"), Return>>])

\* handling_SIGTSTP.c:22-82 tstpHandler, main
handling_SIGTSTP == Program(<< >>,
    [main |-> <<SaveAction("TSTP", "sa"), If("sa", Ignore, "loop"), Sigaction("TSTP", "tstpHandler", {"RESTART"}), Goto("loop")>>,
     loop |-> <<Pause, Say("Main"), Goto("loop")>>,
     tstpHandler |-> <<Copy("savedErrno", "e"), Signal("TSTP", "dfl"), Kill("self", "TSTP"), SaveMask("prevMask"),
                       Unblock({"TSTP"}), RestoreMask("prevMask"), Sigaction("TSTP", "tstpHandler", {"RESTART"}),
                       Copy("e", "savedErrno"), Return>>])

\* job_mon.c:44-107 handler, main
job_mon(first, last) == Program([cmdNum |-> 0],
    [main |-> <<Sigaction("INT", "handler", {"RESTART"}), Sigaction("TSTP", "handler", {"RESTART"}),
                Sigaction("CONT", "handler", {"RESTART"}), Goto(IF first THEN "count" ELSE "read")>>,
     read |-> <<Try(Read("in", 1)), IfLess("r", 1, "errExit"), Item("n", "buf", 1), Copy("cmdNum", "n"), Goto("count")>>,
     count |-> <<Add("cmdNum", 1), Show("command", "cmdNum"), Goto(IF last THEN "loop" ELSE "write")>>,
     write |-> <<Copy("n", "cmdNum"), Set("buf", << >>), Prefix("buf", "n"), Try(WriteBuf("out")), Goto("loop")>>,
     loop |-> <<Pause, Goto("loop")>>,
     handler |-> <<IfNot("sig", "TSTP", "return"), Kill("self", "STOP"), Return>>,
     return |-> <<Return>>])

\* external: a shell starts a pipeline of two commands in one process group
pipeline == Program(<< >>,
    [main |-> <<Pipe("r", "w"), Fork("first"), Dup2("r", "in"), Close("r"), Close("w"), Exec("job_mon2")>>,
     first |-> <<Dup2("w", "out"), Close("r"), Close("w"), Exec("job_mon1")>>])

\* external: what the user types reaches the foreground process group, and the shell ends the job
keys == Program(<< >>,
    [main |-> <<Set("job", 1), Choose("key", {"INT", "TSTP"}), If("key", "INT", "int"), Killpg("job", "TSTP"), Goto("kill")>>,
     int |-> <<Killpg("job", "INT"), Goto("kill")>>,
     kill |-> <<Killpg("job", "KILL"), Exit("0")>>])

\* orphaned_pgrp_SIGHUP.c:39-102 handler, main
orphaned_pgrp_SIGHUP == Program(<< >>,
    [main |-> <<Sigaction("HUP", "handler", {}), Sigaction("CONT", "handler", {}), Fork("stopping"), Fork("pausing"), Sleep,
                Say("parent exiting"), Exit("0")>>,
     stopping |-> <<Say("stopping"), Kill("self", "STOP"), UExit("0")>>,
     pausing |-> <<Alarm(TRUE), Pause, UExit("0")>>,
     handler |-> <<Show("caught", "sig"), Return>>])

\* t_setsid.c:24-41 main
t_setsid == Program(<< >>,
    [main |-> <<On(Fork("child"), "leave"), Goto("leave")>>,
     leave |-> <<UExit("0")>>,
     child |-> <<Setsid, Open("tty", "/dev/tty", {}), Say("has a terminal"), Exit("0")>>])

\* Mutant: no second fork, so that the daemon stays the leader of its session.
becomeDaemon_Leader(flags) ==
    [becomeDaemon |-> <<On(Fork("setsid"), "failed"), UExit("0")>>,
     setsid |-> <<On(Setsid, "failed"), Goto("daemon")>>,
     failed |-> <<Set("r", -1), Return>>,
     daemon |-> When("UMASK" \notin flags, <<Fs("umask", "0")>>) \o When("CHDIR" \notin flags, <<Fs("cwd", "/")>>)
                \o When("CLOSE" \notin flags, <<CloseAll>>) \o When("REOPEN" \notin flags, <<Call("reopen"), IfLess("r", 0, "failed")>>)
                \o <<Set("r", 0), Return>>,
     reopen |-> <<Try(Close("in")), On(Open("in", "/dev/null", {}), "failed"), On(Dup2("in", "out"), "failed"),
                  On(Dup2("in", "err"), "failed"), Return>>]

\* become_daemon.c:22-71 becomeDaemon
becomeDaemon(flags) ==
    [becomeDaemon |-> <<On(Fork("setsid"), "failed"), UExit("0")>>,
     setsid |-> <<On(Setsid, "failed"), On(Fork("daemon"), "failed"), UExit("0")>>,
     failed |-> <<Set("r", -1), Return>>,
     daemon |-> When("UMASK" \notin flags, <<Fs("umask", "0")>>) \o When("CHDIR" \notin flags, <<Fs("cwd", "/")>>)
                \o When("CLOSE" \notin flags, <<CloseAll>>) \o When("REOPEN" \notin flags, <<Call("reopen"), IfLess("r", 0, "failed")>>)
                \o <<Set("r", 0), Return>>,
     reopen |-> <<Try(Close("in")), On(Open("in", "/dev/null", {}), "failed"), On(Dup2("in", "out"), "failed"),
                  On(Dup2("in", "err"), "failed"), Return>>]

\* test_become_daemon.c:20-30 main
test_become_daemon(lib) == Program(<< >>, lib @@
    [main |-> <<Call("becomeDaemon"), Goto("sleeping")>>,
     sleeping |-> <<Sleep, Exit("0")>>])

\* Mutant: the flag is cleared after the work.
daemon_SIGHUP_Late(lib) == Program([hupReceived |-> 0], lib @@
    [main |-> <<Sigaction("HUP", "sighupHandler", {"RESTART"}), Call("becomeDaemon"), IfLess("r", 0, "errExit"),
                Call("logOpen"), Call("readConfigFile"), Goto("loop")>>,
     loop |-> <<Sleep, Copy("unslept", "r"), IfNot("hupReceived", 0, "reread"), Goto("tick")>>,
     reread |-> <<Call("logClose"), Call("logOpen"), Call("readConfigFile"), Set("hupReceived", 0), Goto("tick")>>,
     tick |-> <<IfNot("unslept", 0, "loop"), Write("logfp", <<"Main">>), Goto("loop")>>,
     logOpen |-> <<GetFs("umask", "m"), Fs("umask", "077"), On(Open("logfp", "/tmp/ds.log", {"CREAT", "APPEND"}), "noLog"),
                   ResetFs("umask", "m"), Write("logfp", <<"Opened">>), Return>>,
     noLog |-> <<Exit("1")>>,
     logClose |-> <<Write("logfp", <<"Closing">>), Close("logfp"), Return>>,
     readConfigFile |-> <<On(Open("configfp", "/tmp/ds.conf", {"RDONLY"}), "noConfig"), Read("configfp", 1), Copy("str", "buf"),
                          Write("logfp", <<"Read">>), Close("configfp"), Return>>,
     noConfig |-> <<Return>>,
     sighupHandler |-> <<Set("hupReceived", 1), Return>>])

\* daemon_SIGHUP.c:39-163 logMessage, logOpen, logClose, readConfigFile, sighupHandler, main
daemon_SIGHUP(lib) == Program([hupReceived |-> 0], lib @@
    [main |-> <<Sigaction("HUP", "sighupHandler", {"RESTART"}), Call("becomeDaemon"), IfLess("r", 0, "errExit"),
                Call("logOpen"), Call("readConfigFile"), Goto("loop")>>,
     loop |-> <<Sleep, Copy("unslept", "r"), IfNot("hupReceived", 0, "reread"), Goto("tick")>>,
     reread |-> <<Set("hupReceived", 0), Call("logClose"), Call("logOpen"), Call("readConfigFile"), Goto("tick")>>,
     tick |-> <<IfNot("unslept", 0, "loop"), Write("logfp", <<"Main">>), Goto("loop")>>,
     logOpen |-> <<GetFs("umask", "m"), Fs("umask", "077"), On(Open("logfp", "/tmp/ds.log", {"CREAT", "APPEND"}), "noLog"),
                   ResetFs("umask", "m"), Write("logfp", <<"Opened">>), Return>>,
     noLog |-> <<Exit("1")>>,
     logClose |-> <<Write("logfp", <<"Closing">>), Close("logfp"), Return>>,
     readConfigFile |-> <<On(Open("configfp", "/tmp/ds.conf", {"RDONLY"}), "noConfig"), Read("configfp", 1), Copy("str", "buf"),
                          Write("logfp", <<"Read">>), Close("configfp"), Return>>,
     noConfig |-> <<Return>>,
     sighupHandler |-> <<Set("hupReceived", 1), Return>>])

\* external: the administrator has the log reopened, changes the configuration and tells the daemon
admin(daemon) == Program(<< >>,
    [main |-> <<Set("daemon", daemon), Try(Kill("daemon", "HUP")), Open("f", "/tmp/ds.conf", {"TRUNC"}), Write("f", <<"new">>),
                Try(Kill("daemon", "HUP")), Exit("0")>>])

JobTexts ==
    [catch_SIGHUP |-> catch_SIGHUP, disc_SIGHUP |-> disc_SIGHUP, handling_SIGTSTP |-> handling_SIGTSTP,
     job_mon1 |-> job_mon(TRUE, FALSE), job_mon2 |-> job_mon(FALSE, TRUE), pipeline |-> pipeline, keys |-> keys,
     orphaned_pgrp_SIGHUP |-> orphaned_pgrp_SIGHUP, t_setsid |-> t_setsid,
     test_become_daemon |-> test_become_daemon(becomeDaemon({})), daemon_SIGHUP |-> daemon_SIGHUP(becomeDaemon({})), admin |-> admin(4)]

Null(name) == NewObj("null", name, << >>, 0)

JobScenes ==
    [x \in {"orphaned_pgrp_SIGHUP", "t_setsid"} |-> Scene(<<x>>)] @@
    [catch_SIGHUP |-> WithSignals(Scene(<<"catch_SIGHUP">>), 0, [HUP |-> 1]),
     disc_SIGHUP |-> WithSignals(Login(Scene(<<"disc_SIGHUP">>)), 1, [HUP |-> 1]),
     handling_SIGTSTP |-> Scene(<<"handling_SIGTSTP", "jobShell">>),
     job_mon |-> Sure(Scene(<<"pipeline", "keys">>)),
     test_become_daemon |-> With(Scene(<<"test_become_daemon">>), <<Null("/dev/null")>>),
     daemon_SIGHUP |-> With(Scene(<<"daemon_SIGHUP", "admin">>), <<Null("/dev/null"), Null("/tmp/ds.log"), NewObj("file", "/tmp/ds.conf", <<"old">>, 0)>>)]
=============================================================================
