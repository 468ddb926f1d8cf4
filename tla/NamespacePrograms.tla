-------------------------- MODULE NamespacePrograms --------------------------
(***************************************************************************)
(* The programs of tlpi-dist/namespaces in the notation of UnixCode.  PID, *)
(* UTS and user namespaces stand for the seven kinds, which the programs   *)
(* do not tell apart.  The command that is executed is `sh' or `creds'.    *)
(***************************************************************************)
EXTENDS UnixCode

\* ns_child_exec.c:57-124 childFunc, main
ns_child_exec(flags, cmd) == Program(<< >>,
    [main |-> <<Sys("mmap"), Clone("childFunc", flags, "CHLD"), Copy("child_pid", "r"), WaitPid("child_pid", {}), Exit("0")>>,
     childFunc |-> <<Exec(cmd)>>])

\* ns_exec.c:45-99 main
ns_exec(do_fork) == Program(<< >>,
    [main |-> <<Set("pid", 1), OpenNs("fd", "pid"), Cloexec("fd"), Setns("fd", "uts"), Goto(IF do_fork THEN "fork" ELSE "exec")>>,
     fork |-> <<Fork("exec"), Try(Wait), Exit("0")>>,
     exec |-> <<Exec("hostname_get")>>])

\* ns_run.c:48-111 main
ns_run(do_fork) == Program(<< >>,
    [main |-> <<Set("pid", 1), OpenNs("fd", "pid"), Cloexec("fd"), Setns("fd", "uts"), Try(Close("fd")), Goto(IF do_fork THEN "fork" ELSE "exec")>>,
     fork |-> <<Fork("exec"), Copy("pid", "r"), WaitPid("pid", {}), Exit("0")>>,
     exec |-> <<Exec("hostname_get")>>])

\* unshare.c:59-104 main
unshare(flags, do_fork, cmd) == Program(<< >>,
    [main |-> <<Unshare(flags), Goto(IF do_fork THEN "fork" ELSE "exec")>>,
     fork |-> <<On(Fork("exec"), "wait"), Goto("wait")>>,
     wait |-> <<Try(Wait), Exit("0")>>,
     exec |-> <<Exec(cmd)>>])

\* hostname.c:29-48 main
hostname(set) == Program(<< >>,
    [main |-> <<Goto(IF set THEN "set" ELSE "get")>>,
     set |-> <<Sethostname("new"), Exit("0")>>,
     get |-> <<Hostname("buf"), Show("hostname", "buf"), Exit("0")>>])

\* Mutant: the child is cloned without CLONE_NEWUTS.
demo_uts_namespaces_Same == Program(<< >>,
    [main |-> <<Sys("mmap"), Clone("childFunc", {}, "CHLD"), Copy("child_pid", "r"), Sleep, Hostname("nodename"),
                Show("parent", "nodename"), WaitPid("child_pid", {}), Exit("0")>>,
     childFunc |-> <<Sethostname("new"), Hostname("nodename"), Show("child", "nodename"), Sleep, Exit("0")>>])

\* demo_uts_namespaces.c:35-101 childFunc, main
demo_uts_namespaces == Program(<< >>,
    [main |-> <<Sys("mmap"), Clone("childFunc", {"NEWUTS"}, "CHLD"), Copy("child_pid", "r"), Sleep, Hostname("nodename"),
                Show("parent", "nodename"), WaitPid("child_pid", {}), Exit("0")>>,
     childFunc |-> <<Sethostname("new"), Hostname("nodename"), Show("child", "nodename"), Sleep, Exit("0")>>])

\* multi_pidns.c:39-114 childFunc, main
multi_pidns == Program(<< >>,
    [main |-> <<Set("first_call", 1), Set("level", 2), Call("childFunc"), Exit("0")>>,
     childFunc |-> <<If("first_call", 1, "descend"), Try(Sys("mkdir")), Sys("mount"), Goto("descend")>>,
     descend |-> <<Set("first_call", 0), IfLess("level", 1, "last"), Add("level", -1), Sys("mmap"),
                   Clone("childFunc", {"NEWPID"}, "CHLD"), Copy("child_pid", "r"), WaitPid("child_pid", {}), Sys("munmap"), Return>>,
     last |-> <<Exec("sleep")>>])

\* pidns_init_sleep.c:38-80 childFunc, main
pidns_init_sleep == Program(<< >>,
    [main |-> <<Sys("mmap"), Choose("arg", {0, 1}), Clone("childFunc", {"NEWPID"}, "CHLD"), Copy("child_pid", "r"),
                WaitPid("child_pid", {}), Exit("0")>>,
     childFunc |-> <<If("arg", 0, "exec"), Try(Sys("mkdir")), Sys("mount"), Goto("exec")>>,
     exec |-> <<Exec("sleep")>>])

\* external: sleep(1)
sleepProgram == Program(<< >>, [main |-> <<Sleep, Exit("0")>>])

\* orphan.c:32-64 main
ns_orphan == Program(<< >>,
    [main |-> <<Getpid("ppidOrig"), Fork("child"), Say("parent"), Exit("0")>>,
     child |-> <<Sleep, Getppid("ppid"), Copy("moved", "ppid"), Minus("moved", "ppidOrig"), If("moved", 0, "child"), Show("adopted by", "ppid"), Sleep, Exit("0")>>])

\* simple_init.c:41-258 child_handler, expand_words, main
simple_init(proc_path) == Program(<< >>,
    [main |-> <<Sigaction("CHLD", "child_handler", {"RESTART", "NOCLDSTOP"}), Signal("TTOU", "ign"), Setpgid, Sys("tcsetpgrp"),
                Goto(IF proc_path THEN "mount" ELSE "loop")>>,
     mount |-> <<Try(Sys("mount-slave")), Sys("mount-procfs"), Goto("loop")>>,
     loop |-> <<Try(Read("in", 1)), IfLess("r", 1, "end"), If("buf", <<"empty">>, "loop"), On(Fork("child"), "end"),
                Pause, Sys("tcsetpgrp"), Goto("loop")>>,
     child |-> <<On(Sys("wordexp"), "failed"), Setpgid, Sys("tcsetpgrp"), Exec("sh")>>,
     failed |-> <<Exit("1")>>,
     end |-> <<Goto(IF proc_path THEN "umount" ELSE "exit")>>,
     umount |-> <<Sys("umount-procfs"), Goto("exit")>>,
     exit |-> <<Exit("0")>>,
     child_handler |-> <<Try(WaitPid("any", {"NOHANG", "UNTRACED"})), If("r", 0, "handled"), IfLess("r", 0, "error"), Goto("child_handler")>>,
     error |-> <<If("e", "ECHILD", "handled"), Goto("child_handler")>>,
     handled |-> <<Return>>])

\* userns_functions.c:31-48 display_creds_and_caps
display_creds_and_caps ==
    [display_creds_and_caps |-> <<Getcred("uid", "euid"), Show("eUID", "euid"), Getcred("gid", "egid"), Show("eGID", "egid"),
                                  Sys("cap_get_proc"), Sys("cap_to_text"), Return>>]

\* show_creds.c:26-51 main
show_creds == Program(<< >>,
    [main |-> <<Choose("argc", {1, 2}), Goto("loop")>>,
     loop |-> <<Sys("cap_get_proc"), Getcred("uid", "euid"), Show("eUID", "euid"), Getcred("gid", "egid"), Show("eGID", "egid"),
                Sys("cap_to_text"), If("argc", 1, "end"), Sleep, Loop("loop")>>,
     end |-> <<Exit("0")>>])

\* demo_userns.c:34-90 childFunc, main
demo_userns == Program(<< >>,
    [main |-> <<Sys("mmap"), Choose("arg", {0, 1}), Clone("childFunc", {"NEWUSER"}, "CHLD"), Copy("pid", "r"), WaitPid("pid", {}), Exit("0")>>,
     childFunc |-> <<Getcred("uid", "euid"), Getcred("gid", "egid"), Sys("cap_get_proc"), Sys("cap_to_text"), If("arg", 0, "end"),
                     Sleep, Loop("childFunc")>>,
     end |-> <<Exit("0")>>])

\* Mutant: the user first; the group can no longer be set then.
cred_launcher_User(newuid, newgid) == Program(<< >>, display_creds_and_caps @@
    [main |-> <<Set("newuid", newuid), Set("newgid", newgid), If("newuid", "", "gid"), Setid("uid", "newuid"), Goto("gid")>>,
     gid |-> <<If("newgid", "", "exec"), Setid("gid", "newgid"), Goto("exec")>>,
     exec |-> <<Call("display_creds_and_caps"), Exec("sh")>>])

\* cred_launcher.c:39-84 main
cred_launcher(newuid, newgid) == Program(<< >>, display_creds_and_caps @@
    [main |-> <<Set("newuid", newuid), Set("newgid", newgid), If("newgid", "", "uid"), Setid("gid", "newgid"), Goto("uid")>>,
     uid |-> <<If("newuid", "", "exec"), Setid("uid", "newuid"), Goto("exec")>>,
     exec |-> <<Call("display_creds_and_caps"), Exec("sh")>>])

\* t_setns_userns.c:30-50 main
t_setns_userns == Program(<< >>, display_creds_and_caps @@
    [main |-> <<Call("display_creds_and_caps"), Set("pid", 1), OpenNs("fd", "pid"), Setns("fd", "user"),
                Call("display_creds_and_caps"), Exit("0")>>])

\* userns_setns_test.c:43-128 display_symlink, test_setns, childFunc, main
userns_setns_test == Program(<< >>, display_creds_and_caps @@
    [main |-> <<Set("pid", 2), OpenNs("fd", "pid"), Sys("mmap"), Clone("childFunc", {"NEWUSER"}, "CHLD"), Copy("child_pid", "r"),
                Call("test_setns"), WaitPid("child_pid", {}), Exit("0")>>,
     childFunc |-> <<Sleep, Call("test_setns"), UExit("0")>>,
     test_setns |-> <<Sys("readlink"), Call("display_creds_and_caps"), On(Setns("fd", "user"), "failed"), Say("joined"),
                      Sys("readlink"), Call("display_creds_and_caps"), Return>>,
     failed |-> <<Say("not joined"), Return>>])

\* userns_functions.c:64-90 update_map
update_map(path) ==
    <<On(Open("map", path, {}), "mapFailed"), On(Write("map", <<"0 1000 1">>), "mapWrite"), Try(Close("map"))>>

\* userns_functions.c:110-148 proc_setgroups_write
proc_setgroups_write(path) ==
    <<On(Open("setgroups", path, {}), "groupsFailed"), On(Write("setgroups", <<"deny">>), "mapFailed"), Try(Close("setgroups"))>>

\* userns_child_exec.c:407-453 update_child_maps
update_child_maps(o) ==
    [update_child_maps |-> When(o \cap {"M", "r"} # {}, update_map("uid_map")) \o <<Goto("gid_map")>>,
     gid_map |-> When(o \cap {"G", "r"} # {}, When("D" \notin o, proc_setgroups_write("setgroups")) \o <<Goto("write_gid_map")>>)
                 \o <<Goto("projid_map")>>,
     write_gid_map |-> update_map("gid_map") \o <<Goto("projid_map")>>,
     projid_map |-> When("P" \in o, update_map("projid_map")) \o <<Return>>,
     groupsFailed |-> <<If("e", "ENOENT", "write_gid_map"), Goto("errExit")>>,
     mapWrite |-> <<Try(Close("map")), Goto("errExit")>>,
     mapFailed |-> <<Goto("errExit")>>]

(* The options of userns_child_exec: a letter and what follows it. *)
Opt(opt, val) == [opt |-> opt, val |-> val]
Letters(argv) == {argv[k].opt : k \in DOMAIN argv}

\* userns_child_exec.c:455-533 parse_command_options
parse_command_options(argv) ==
    LET o == Letters(argv)
        repeatable == {"I", "A", "b", "s", "d", "x", "X", "w"}
        maps == {"M", "G", "P", "r"}
    IN  [usage |-> \/ ~ o \subseteq repeatable \cup maps \cup {"C", "i", "m", "n", "p", "u", "U", "D", "v"}
                   \/ o \cap maps # {} /\ "U" \notin o
                   \/ "r" \in o /\ o \cap {"M", "G"} # {},
         flags |-> {f \in {"NEWPID", "NEWUTS", "NEWUSER"} : [NEWPID |-> "p", NEWUTS |-> "u", NEWUSER |-> "U"][f] \in o},
         opt_list |-> SelectSeq(argv, LAMBDA x : x.opt \in repeatable)]

\* userns_child_exec.c:146-159 raiseInheritableAndAmbientCaps
raiseInheritableAndAmbientCaps(doAmbient) ==
    <<Try(Setcap("inheritable", "all"))>> \o When(doAmbient, <<Try(Setcap("ambient", "all"))>>)

\* userns_child_exec.c:178-253 modify_individual_capability
modify_individual_capability(val) ==
    LET one(s) == CASE s = "b" -> IF val.op = "+" THEN <<Exit("1")>> ELSE <<Setcap("bounding", "-")>>
                    [] s = "a" -> <<Setcap("ambient", val.op)>>
                    [] OTHER -> <<Setcap(s, val.op)>>
        all[k \in 0..Len(val.sets)] == IF k = 0 THEN << >> ELSE all[k - 1] \o one(val.sets[k])
    IN  IF val.cap = "" \/ \E k \in DOMAIN val.sets : val.sets[k] \notin {"p", "e", "i", "b", "a"}
        THEN <<Exit("1")>> ELSE all[Len(val.sets)]

\* userns_child_exec.c:257-281 set_securebits
set_securebits(val) ==
    LET reset == {k \in DOMAIN val : val[k] = "0"}
        bits == {val[k] : k \in {j \in DOMAIN val : \A z \in reset : j > z}}
    IN  IF \A k \in DOMAIN val : val[k] \in {"a", "A", "k", "K", "r", "R", "s", "S", "0"}
        THEN <<Setcap("securebits", bits)>> ELSE <<Exit("1")>>

\* userns_child_exec.c:286-301 set_process_uids
set_process_uids(val) == IF Len(val) = 3 THEN <<Set("uid", val[2]), Setid("uid", "uid")>> ELSE <<Exit("1")>>

\* userns_child_exec.c:306-368 perform_repeatable_options
perform_repeatable_options(list) ==
    LET perform(o) == CASE o.opt = "a" -> raiseInheritableAndAmbientCaps(TRUE)
                        [] o.opt = "b" -> set_securebits(o.val)
                        [] o.opt = "d" -> <<Call("display_creds_and_caps")>>
                        [] o.opt = "h" -> raiseInheritableAndAmbientCaps(FALSE)
                        [] o.opt = "s" -> <<Set("newuid", o.val), Setid("uid", "newuid")>>
                        [] o.opt = "S" -> set_process_uids(o.val)
                        [] o.opt = "w" -> <<Sleep>>
                        [] o.opt = "x" -> <<Sys("cap_from_text"), Setcap("permitted", o.val)>>
                        [] o.opt = "X" -> modify_individual_capability(o.val)
                        [] OTHER -> <<Say("Unexpected option")>>
        upTo[k \in 0..Len(list)] == IF k = 0 THEN << >> ELSE upTo[k - 1] \o perform(list[k])
    IN  upTo[Len(list)]

\* Mutant: the child is let go before the maps are written.
userns_main_Early(opts, o) ==
    [main |-> IF opts.usage THEN <<Exit("1")>>
              ELSE <<Sys("prctl"), Pipe("pipe_r", "pipe_w"), Sys("mmap"), Clone("childFunc", opts.flags, "CHLD"), Copy("child_pid", "r"),
                     Try(Close("pipe_w")), Call("update_child_maps"), WaitPid("child_pid", {}), Exit("0")>>]

\* userns_child_exec.c:537-606 main
userns_main(opts, o) ==
    [main |-> IF opts.usage THEN <<Exit("1")>>
              ELSE <<Sys("prctl"), Pipe("pipe_r", "pipe_w"), Sys("mmap"), Clone("childFunc", opts.flags, "CHLD"), Copy("child_pid", "r"),
                     Call("update_child_maps"), Try(Close("pipe_w")), WaitPid("child_pid", {}), Exit("0")>>]

\* userns_child_exec.c:372-403 childFunc
userns_child_exec(argv) ==
    LET opts == parse_command_options(argv) IN
    Program(<< >>, userns_main(opts, Letters(argv)) @@ update_child_maps(Letters(argv)) @@ display_creds_and_caps @@
    [childFunc |-> <<Try(Close("pipe_w")), Try(Read("pipe_r", 1)), IfNot("r", 0, "failed"), Try(Close("pipe_r"))>>
                   \o perform_repeatable_options(opts.opt_list) \o <<Exec("sh")>>,
     failed |-> <<Exit("1")>>])

\* external: a process of another namespace, which lasts for a while
member == Program(<< >>, [main |-> <<Unshare({"NEWUTS", "NEWUSER"}), Sethostname("new"), Sleep, Exit("0")>>])

NamespaceTexts ==
    [ns_child_exec |-> ns_child_exec({"NEWPID"}, "ns_orphan"), ns_exec |-> ns_exec(FALSE), ns_exec_f |-> ns_exec(TRUE), ns_run |-> ns_run(FALSE),
     ns_run_f |-> ns_run(TRUE), unshare_uf |-> unshare({"NEWUTS"}, TRUE, "hostname_set"), unshare_p |-> unshare({"NEWPID"}, TRUE, "ns_orphan"),
     hostname_set |-> hostname(TRUE), hostname_get |-> hostname(FALSE), demo_uts_namespaces |-> demo_uts_namespaces,
     multi_pidns |-> multi_pidns, pidns_init_sleep |-> pidns_init_sleep, sleep |-> sleepProgram, ns_orphan |-> ns_orphan,
     simple_init |-> simple_init(TRUE), init |-> ns_child_exec({"NEWPID"}, "simple_init"), show_creds |-> show_creds,
     demo_userns |-> demo_userns, cred_launcher |-> cred_launcher("user", "staff"), cred_launcher_g |-> cred_launcher("", "staff"),
     t_setns_userns |-> t_setns_userns, userns_setns_test |-> userns_setns_test, member |-> member,
     userns_r |-> userns_child_exec(<<Opt("U", ""), Opt("r", ""), Opt("s", "user"), Opt("d", "")>>),
     userns_M |-> userns_child_exec(<<Opt("U", ""), Opt("M", "map"), Opt("G", "map"), Opt("P", "map"), Opt("D", ""), Opt("I", ""), Opt("w", "1")>>),
     userns_X |-> userns_child_exec(<<Opt("U", ""), Opt("b", <<"k", "0", "s">>), Opt("x", "caps"),
                                      Opt("X", [sets |-> <<"p", "a", "b">>, op |-> "-", cap |-> "net"])>>),
     userns_plus |-> userns_child_exec(<<Opt("p", ""), Opt("X", [sets |-> <<"e", "b">>, op |-> "+", cap |-> "net"])>>),
     userns_S |-> userns_child_exec(<<Opt("S", <<"u", "u", "u">>)>>), userns_rM |-> userns_child_exec(<<Opt("U", ""), Opt("r", ""), Opt("M", "map")>>)]

NamespaceScenes ==
    [x \in {"unshare_uf", "unshare_p", "demo_uts_namespaces", "multi_pidns", "pidns_init_sleep", "cred_launcher", "cred_launcher_g",
            "ns_child_exec", "userns_plus", "userns_S", "userns_rM"} |-> Scene(<<x>>)] @@
    [x \in {"show_creds", "demo_userns"} |-> WithRounds(Scene(<<x>>), 1)] @@
    [x \in {"ns_exec", "ns_exec_f", "ns_run", "ns_run_f", "t_setns_userns"} |-> Scene(<<"member", x>>)] @@
    [x \in {"userns_r", "userns_M", "userns_X"} |->
        With(Scene(<<x>>), <<NewObj("file", "uid_map", << >>, 0), NewObj("file", "gid_map", << >>, 0), NewObj("file", "projid_map", << >>, 0),
                             NewObj("file", "setgroups", << >>, 0)>>)] @@
    [userns_setns_test |-> Sure(Scene(<<"userns_setns_test", "member">>)),
     init |-> WithInput(Scene(<<"init">>), <<"cmd", "empty", "cmd">>)]
=============================================================================
