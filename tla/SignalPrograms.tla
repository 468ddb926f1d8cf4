--------------------------- MODULE SignalPrograms ---------------------------
(***************************************************************************)
(* The programs of tlpi-dist/signals in the notation of UnixCode.  SIGUSR1 *)
(* stands for the standard signals, RT1 for the realtime signals; the PID  *)
(* that a sender is given on its command line is that of the first process *)
(* of the scene.                                                           *)
(***************************************************************************)
EXTENDS UnixCode

\* catch_rtsigs.c:41-122 siginfoHandler, main
catch_rtsigs == Program([sigCnt |-> 0, allDone |-> 0],
    [main |-> <<Sigaction("RT1", "siginfoHandler", {"FILL"}), Sigaction("USR1", "siginfoHandler", {"FILL"}),
                Sigaction("INT", "siginfoHandler", {"FILL"}), Choose("argc", {1, 2}), If("argc", 1, "loop"),
                SaveMask("prevMask"), SetMask(AllSignals \ {"INT", "TERM"}), Say("blocked"), Sleep,
                RestoreMask("prevMask"), Goto("loop")>>,
     loop |-> <<IfNot("allDone", 0, "done"), Pause, Goto("loop")>>,
     done |-> <<Show("caught", "sigCnt"), Exit("0")>>,
     siginfoHandler |-> <<If("sig", "INT", "stop"), Add("sigCnt", 1), Sleep, Return>>,
     stop |-> <<Set("allDone", 1), Return>>])

\* demo_SIGFPE.c:36-91 sigfpeCatcher, main
demo_SIGFPE == Program(<< >>,
    [main |-> <<Choose("how", {"i", "c"}), If("how", "i", "ignore"), Sigaction("FPE", "sigfpeCatcher", {"RESTART"}), Goto("block")>>,
     ignore |-> <<Signal("FPE", "ign"), Goto("block")>>,
     block |-> <<Choose("blocking", {0, 1}), If("blocking", 0, "divide"), SaveMask("prevMask"), Block({"FPE"}), Goto("divide")>>,
     divide |-> <<Trap("FPE", ""), If("blocking", 0, "end"), Sleep, RestoreMask("prevMask"), Goto("end")>>,
     end |-> <<Say("Shouldn't get here!"), Exit("1")>>,
     sigfpeCatcher |-> <<Sleep, Loop("return")>>,
     return |-> <<Return>>])

\* ignore_pending_sig.c:29-111 handler, main
ignore_pending_sig == Program(<< >>,
    [main |-> <<Sigaction("INT", "handler", {}), SetMask({"INT"}), Sleep, Sigpending("INT", "pending"), Show("pending", "pending"),
                Sleep, Signal("INT", "ign"), Sigpending("INT", "pending"), Show("then", "pending"), Sleep,
                Sigaction("INT", "handler", {}), Sleep, SetMask({}), Exit("0")>>,
     handler |-> <<Say("caught"), Return>>])

\* intquit.c:24-59 sigHandler, main
intquit == Program([count |-> 0],
    [main |-> <<Signal("INT", "sigHandler"), Signal("QUIT", "sigHandler"), Goto("loop")>>,
     loop |-> <<Pause, Goto("loop")>>,
     sigHandler |-> <<IfNot("sig", "INT", "quit"), Add("count", 1), Show("caught", "count"), Return>>,
     quit |-> <<Say("that's all"), Exit("0")>>])

\* nonatomic_uint64.c:51-101 handler, main
nonatomic_uint64 == Program([lo |-> 0, hi |-> 0],
    [main |-> <<Sigaction("USR1", "handler", {}), Fork("child"), Goto("loop")>>,
     child |-> <<Getppid("ppid"), Kill("ppid", "USR1"), Loop("child")>>,
     loop |-> <<Copy("l", "lo"), Copy("h", "hi"), If("l", 0, "zero"), If("h", 0, "torn"), Loop("loop")>>,
     zero |-> <<IfNot("h", 0, "torn"), Loop("loop")>>,
     torn |-> <<Say("unexpected"), Loop("loop")>>,
     handler |-> <<If("lo", 0, "set"), Set("lo", 0), Set("hi", 0), Return>>,
     set |-> <<Set("lo", 1), Set("hi", 1), Return>>])

\* nonreentrant.c:26-70 handler, main
nonreentrant == Program([buffer |-> "", handled |-> 0],
    [main |-> <<Set("buffer", "str1"), Sigaction("INT", "handler", {}), Goto("loop")>>,
     loop |-> <<Set("buffer", "str1"), IfNot("buffer", "str1", "mismatch"), Loop("loop")>>,
     mismatch |-> <<Show("mismatch", "handled"), Loop("loop")>>,
     handler |-> <<Set("buffer", "str2"), Add("handled", 1), Return>>])

\* ouch.c:23-48 sigHandler, main
ouch == Program(<< >>,
    [main |-> <<Signal("INT", "sigHandler"), Goto("loop")>>,
     loop |-> <<Show("j", "j"), Sleep, Add("j", 1), Loop("loop")>>,
     sigHandler |-> <<Say("Ouch!"), Return>>])

\* Mutant: the signals are never unblocked.
sig_receiver_Blocked == Program([sigCnt |-> 0, gotSigint |-> 0],
    [main |-> <<Signal("USR1", "handler"), Signal("INT", "handler"), Choose("argc", {1, 2}), If("argc", 1, "wait"),
                SetMask(AllSignals), Say("blocked"), Sleep, Sigpending("INT", "last"), Show("last is pending", "last"), Goto("wait")>>,
     wait |-> <<If("gotSigint", 0, "wait"), Show("caught", "sigCnt"), Exit("0")>>,
     handler |-> <<If("sig", "INT", "int"), Add("sigCnt", 1), Return>>,
     int |-> <<Set("gotSigint", 1), Return>>])

\* sig_receiver.c:27-89 handler, main
sig_receiver == Program([sigCnt |-> 0, gotSigint |-> 0],
    [main |-> <<Signal("USR1", "handler"), Signal("INT", "handler"), Choose("argc", {1, 2}), If("argc", 1, "wait"),
                SetMask(AllSignals), Say("blocked"), Sleep, Sigpending("INT", "last"), Show("last is pending", "last"),
                SetMask({}), Goto("wait")>>,
     wait |-> <<If("gotSigint", 0, "wait"), Show("caught", "sigCnt"), Exit("0")>>,
     handler |-> <<If("sig", "INT", "int"), Add("sigCnt", 1), Return>>,
     int |-> <<Set("gotSigint", 1), Return>>])

\* sig_sender.c:26-56 main
sig_sender(sig, numSigs) == Program(<< >>,
    [main |-> <<Set("pid", 1), Goto("send")>>,
     send |-> <<If("j", numSigs, "last"), Kill("pid", sig), Add("j", 1), Goto("send")>>,
     last |-> <<Kill("pid", "INT"), Exit("0")>>])

\* sig_speed_sigsuspend.c:37-92 handler, main
sig_speed_sigsuspend == Program(<< >>,
    [main |-> <<Sigaction("USR1", "handler", {}), SetMask({"USR1"}), Fork("child"), Copy("childPid", "r"), Goto("parent")>>,
     child |-> <<If("scnt", 2, "end"), Getppid("ppid"), Kill("ppid", "USR1"), Sigsuspend({}), Add("scnt", 1), Goto("child")>>,
     parent |-> <<If("scnt", 2, "end"), Sigsuspend({}), Kill("childPid", "USR1"), Add("scnt", 1), Goto("parent")>>,
     end |-> <<Exit("0")>>,
     handler |-> <<Return>>])

\* sigmask_longjmp.c:28-86 handler, main
sigmask_longjmp(how) == Program([canJump |-> 0],
    [main |-> <<Sigaction("INT", "handler", {}), Set("canJump", 1), Goto("loop")>>,
     jumped |-> <<SaveMask("mask"), Show("after jump", "mask"), Goto("loop")>>,
     loop |-> <<Pause, Goto("loop")>>,
     handler |-> <<If("canJump", 0, "notYet"), Longjmp("jumped", how)>>,
     notYet |-> <<Return>>])

\* signalfd_sigval.c:26-62 main
signalfd_sigval == Program(<< >>,
    [main |-> <<Block({"RT1", "USR1"}), Goto("loop")>>,
     loop |-> <<Sigwait({"RT1", "USR1"}, "ssi_signo"), Show("got", "ssi_signo"), Goto("loop")>>])

\* t_kill.c:20-51 main
t_kill(pid, sig) == Program(<< >>,
    [main |-> <<Set("pid", pid), On(Kill("pid", sig), "failed"), Say("exists"), Exit("0")>>,
     failed |-> <<IfNot("e", "ESRCH", "errExit"), Say("does not exist"), Exit("0")>>])

\* t_sigaltstack.c:23-85 sigsegvHandler, overflowStack, main
t_sigaltstack == Program(<< >>,
    [main |-> <<Sigaction("SEGV", "sigsegvHandler", {"ONSTACK"}), Goto("overflowStack")>>,
     overflowStack |-> <<Trap("SEGV", "stack"), Goto("overflowStack")>>,
     sigsegvHandler |-> <<Say("caught"), UExit("1")>>])

\* t_sigqueue.c:26-53 main
t_sigqueue(sig, numSigs) == Program(<< >>,
    [main |-> <<Set("pid", 1), Goto("send")>>,
     send |-> <<If("j", numSigs, "end"), Kill("pid", sig), Add("j", 1), Goto("send")>>,
     end |-> <<Exit("0")>>])

\* Mutant: the wrong way, which the source keeps under USE_PAUSE.
t_sigsuspend_Pause == Program([sigintCnt |-> 0, gotSigquit |-> 0],
    [main |-> <<SaveMask("origMask"), Block({"INT", "QUIT"}), Sigaction("INT", "handler", {}),
                Sigaction("QUIT", "handler", {}), Goto("loop")>>,
     loop |-> <<IfNot("gotSigquit", 0, "exited"), Goto("critical")>>,
     critical |-> <<Say("enter"), Sleep, Say("leave"), SetMask({}), Pause, Goto("loop")>>,
     exited |-> <<RestoreMask("origMask"), Exit("0")>>,
     handler |-> <<Show("caught", "sig"), IfNot("sig", "QUIT", "count"), Set("gotSigquit", 1), Goto("count")>>,
     count |-> <<Add("sigintCnt", 1), Return>>])

\* t_sigsuspend.c:40-153 handler, main
t_sigsuspend == Program([sigintCnt |-> 0, gotSigquit |-> 0],
    [main |-> <<SaveMask("origMask"), Block({"INT", "QUIT"}), Sigaction("INT", "handler", {}),
                Sigaction("QUIT", "handler", {}), Goto("loop")>>,
     loop |-> <<IfNot("gotSigquit", 0, "exited"), Goto("critical")>>,
     critical |-> <<Say("enter"), Sleep, Say("leave"), Sigsuspend({}), Goto("loop")>>,
     exited |-> <<RestoreMask("origMask"), Exit("0")>>,
     handler |-> <<Show("caught", "sig"), IfNot("sig", "QUIT", "count"), Set("gotSigquit", 1), Goto("count")>>,
     count |-> <<Add("sigintCnt", 1), Return>>])

\* t_sigwaitinfo.c:23-65 main
t_sigwaitinfo == Program(<< >>,
    [main |-> <<SetMask(AllSignals), Say("blocked"), Sleep, Goto("loop")>>,
     loop |-> <<Sigwait(AllSignals, "sig"), IfIn("sig", {"INT", "TERM"}, "end"), Show("got", "sig"), Goto("loop")>>,
     end |-> <<Exit("0")>>])

SignalTexts ==
    [catch_rtsigs |-> catch_rtsigs, demo_SIGFPE |-> demo_SIGFPE, ignore_pending_sig |-> ignore_pending_sig, intquit |-> intquit,
     nonatomic_uint64 |-> nonatomic_uint64, nonreentrant |-> nonreentrant, ouch |-> ouch, sig_receiver |-> sig_receiver,
     sig_sender |-> sig_sender("USR1", 2), sig_sender_rt |-> sig_sender("RT1", 2), sig_speed_sigsuspend |-> sig_speed_sigsuspend,
     sigmask_longjmp |-> sigmask_longjmp(""), sigmask_siglongjmp |-> sigmask_longjmp("mask"),
     signalfd_sigval |-> signalfd_sigval, t_kill |-> t_kill(2, "0"), t_sigaltstack |-> t_sigaltstack,
     t_sigqueue |-> t_sigqueue("RT1", 2), t_sigsuspend |-> t_sigsuspend, t_sigwaitinfo |-> t_sigwaitinfo]

SignalScenes ==
    [catch_rtsigs |-> Scene(<<"catch_rtsigs", "sig_sender_rt">>),
     demo_SIGFPE |-> WithRounds(Scene(<<"demo_SIGFPE">>), 2),
     ignore_pending_sig |-> WithSignals(Scene(<<"ignore_pending_sig">>), 1, [INT |-> 1]),
     intquit |-> WithSignals(Scene(<<"intquit">>), 1, [INT |-> 2, QUIT |-> 1]),
     nonatomic_uint64 |-> WithRounds(Scene(<<"nonatomic_uint64">>), 3),
     nonreentrant |-> WithRounds(WithSignals(Scene(<<"nonreentrant">>), 1, [INT |-> 2]), 2),
     ouch |-> WithRounds(WithSignals(Scene(<<"ouch">>), 1, [INT |-> 2]), 2),
     sig_receiver |-> Scene(<<"sig_receiver", "sig_sender">>),
     sig_speed_sigsuspend |-> Scene(<<"sig_speed_sigsuspend">>),
     sigmask_longjmp |-> WithSignals(Scene(<<"sigmask_longjmp">>), 1, [INT |-> 2, QUIT |-> 1]),
     sigmask_siglongjmp |-> WithSignals(Scene(<<"sigmask_siglongjmp">>), 1, [INT |-> 2, QUIT |-> 1]),
     signalfd_sigval |-> Serving(Scene(<<"signalfd_sigval", "t_sigqueue">>), {1}),
     t_kill |-> Scene(<<"t_kill", "t_sigaltstack">>),
     t_sigsuspend |-> WithSignals(Scene(<<"t_sigsuspend">>), 1, [INT |-> 2, QUIT |-> 1]),
     t_sigwaitinfo |-> Scene(<<"t_sigwaitinfo", "sig_sender_rt">>)]
=============================================================================
