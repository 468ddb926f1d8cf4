---------------------------- MODULE ApuePrograms ----------------------------
(***************************************************************************)
(* The programs of chapters 8 and 9 of src/APUE/apue-code in the notation  *)
(* of UnixCode.  The kernel picks the port a server binds to, so that it   *)
(* is always free; a client is given the port on its command line.         *)
(***************************************************************************)
EXTENDS UnixCode, FiniteSets

(* Servers that print what their clients write. *)

\* 09/one-socket-select-fork.c:28-65 createSocket
createSocket(sock, port) == <<Socket(sock, "stream"), Bind(sock, port), Sys("getsockname"), Listen(sock, 5)>>

\* 09/one-socket-select-fork.c:67-94 handleConnection
handleConnection(fd) ==
    [connection |-> <<On(Read(fd, 3), "connection"), If("r", 0, "ending"), Show("sent", "buf"), Goto("connection")>>,
     ending |-> <<Say("ending"), Try(Close(fd)), Exit("0")>>]

\* 09/one-socket-select-fork.c:95-118 handleSocket
handleSocketFork(s) == [handleSocket |-> <<On(Accept(s, "fd"), "return"), Fork("connection"), Return>>, return |-> <<Return>>]

\* 09/one-socket-select-fork.c:120-123 reap
reap == [reap |-> <<Try(Wait), Return>>]

\* 09/one-socket-select-fork.c:125-160 main
one_socket_select_fork == Program(<< >>, handleConnection("fd") @@ handleSocketFork("s1") @@ reap @@
    [main |-> <<Signal("CHLD", "reap")>> \o createSocket("s1", "port") \o <<Goto("loop")>>,
     loop |-> <<On(SelectFor({"s1"}, "ready"), "loop"), IfHas("ready", "s1", "client"), Goto("loop")>>,
     client |-> <<Call("handleSocket"), Goto("loop")>>])

\* 09/strchkread2.c:55-58 reap
reap2 == reap

\* 09/strchkread2.c:60-87 handleConnection
handleConnection2(fd) == handleConnection(fd)

\* 09/strchkread2.c:93-176 main
strchkread2 == Program(<< >>, handleConnection2("fd") @@ reap2 @@
    [main |-> <<Signal("CHLD", "reap"), Socket("sock", "stream"), Bind("sock", "port"), Sys("getsockname"), Listen("sock", 5), Goto("loop")>>,
     loop |-> <<On(SelectFor({"sock"}, "ready"), "loop"), IfHas("ready", "sock", "client"), Goto("loop")>>,
     client |-> <<On(Accept("sock", "fd"), "loop"), Fork("connection"), Goto("loop")>>])

\* 09/one-socket-select.c:54-91 createSocket
createSocketOne(sock, port) == createSocket(sock, port)

\* 09/one-socket-select.c:93-126 handleSocket
handleSocket(s) ==
    [handleSocket |-> <<On(Accept(s, "fd"), "return"), Goto("connection")>>,
     connection |-> <<On(Read("fd", 3), "connection"), If("r", 0, "ending"), Show("sent", "buf"), Goto("connection")>>,
     ending |-> <<Say("ending"), Try(Close("fd")), Return>>,
     return |-> <<Return>>]

\* 09/one-socket-select.c:132-159 main
one_socket_select == Program(<< >>, handleSocket("s1") @@
    [main |-> createSocketOne("s1", "port") \o <<Goto("loop")>>,
     loop |-> <<On(SelectFor({"s1"}, "ready"), "loop"), IfHas("ready", "s1", "client"), Goto("loop")>>,
     client |-> <<Call("handleSocket"), Goto("loop")>>])

\* 09/strchkread.c:53-78 handleConnection
handleConnection1(fd) ==
    [connection |-> <<On(Read(fd, 3), "connection"), If("r", 0, "ending"), Show("sent", "buf"), Goto("connection")>>,
     ending |-> <<Say("ending"), Try(Close(fd)), Return>>]

\* 09/strchkread.c:84-149 main
strchkread9 == Program(<< >>, handleConnection1("fd") @@
    [main |-> <<Socket("sock", "stream"), Bind("sock", "port"), Sys("getsockname"), Listen("sock", 5), Goto("loop")>>,
     loop |-> <<On(SelectFor({"sock"}, "ready"), "loop"), IfHas("ready", "sock", "client"), Goto("loop")>>,
     client |-> <<On(Accept("sock", "fd"), "loop"), Call("connection"), Goto("loop")>>])

\* 08/strchkread.c:50-117 main
strchkread8 == Program(<< >>,
    [main |-> <<Socket("sock", "stream"), Bind("sock", "port"), Sys("getsockname"), Try(Listen("sock", 5)), Goto("loop")>>,
     loop |-> <<On(SelectFor({"sock"}, "ready"), "loop"), IfHas("ready", "sock", "client"), Goto("loop")>>,
     client |-> <<On(Accept("sock", "msgsock"), "close"), Goto("read")>>,
     read |-> <<On(Read("msgsock", 3), "close"), If("r", 0, "ending"), Show("sent", "buf"), Goto("read")>>,
     ending |-> <<Say("ending"), Goto("close")>>,
     close |-> <<Try(Close("msgsock")), Goto("loop")>>])

\* 08/streamread.c:53-109 main
streamread8 == Program(<< >>,
    [main |-> <<Socket("sock", "stream"), Bind("sock", "port"), Sys("getsockname"), Try(Listen("sock", 5)), Goto("loop")>>,
     loop |-> <<On(Accept("sock", "msgsock"), "close"), Goto("read")>>,
     read |-> <<On(Read("msgsock", 3), "read"), If("r", 0, "ending"), Show("sent", "buf"), Goto("read")>>,
     ending |-> <<Say("ending"), Goto("close")>>,
     close |-> <<Try(Close("msgsock")), Goto("loop")>>])

\* 09/streamread.c:53-123 main
streamread9 == Program(<< >>,
    [main |-> <<Socket("sock", "stream"), Bind("sock", "port"), Sys("getsockname"), Listen("sock", 5), Goto("loop")>>,
     loop |-> <<On(Accept("sock", "fd"), "loop"), Goto("read")>>,
     read |-> <<On(Read("fd", 3), "read"), If("r", 0, "ending"), Show("sent", "buf"), Goto("read")>>,
     ending |-> <<Say("ending"), Try(Close("fd")), Goto("loop")>>])

\* 09/dualstack-streamread.c:28-175 main
dualstack_streamread == Program(<< >>,
    [main |-> <<Socket("sock", "stream"), Sys("setsockopt"), Bind("sock", "port"), Sys("getsockname"), Listen("sock", 5), Goto("loop")>>,
     loop |-> <<On(Accept("sock", "fd"), "loop"), Goto("read")>>,
     read |-> <<On(Read("fd", 3), "close"), If("r", 0, "ending"), On(Sys("getpeername"), "close"), Show("sent", "buf"), Goto("read")>>,
     ending |-> <<Say("ending"), Goto("close")>>,
     close |-> <<Try(Close("fd")), Goto("loop")>>])

\* 09/two-sockets.c:25-62 createSocket
createSocketTwo(sock, port) == createSocket(sock, port)

\* 09/two-sockets.c:64-98 handleSocket
handleSocketTwo(s, name) ==
    LET label(x) == name \o x IN
    (name :> <<On(Accept(s, "fd"), label("return")), Goto(label("read"))>>) @@
    (label("read") :> <<On(Read("fd", 3), label("read")), If("r", 0, label("ending")), Show("sent", "buf"), Goto(label("read"))>>) @@
    (label("ending") :> <<Say("ending"), Try(Close("fd")), Return>>) @@
    (label("return") :> <<Return>>)

\* 09/two-sockets.c:104-118 main
two_sockets == Program(<< >>, handleSocketTwo("s1", "one") @@ handleSocketTwo("s2", "two") @@
    [main |-> createSocketTwo("s1", "port") \o createSocketTwo("s2", "port2") \o <<Goto("loop")>>,
     loop |-> <<Call("one"), Call("two"), Goto("loop")>>])

\* 09/two-sockets-select.c:28-65 createSocket
createSocketBoth(sock, port) == createSocket(sock, port)

\* 09/two-sockets-select.c:67-101 handleSocket
handleSocketBoth(s, name) == handleSocketTwo(s, name)

\* 09/two-sockets-select.c:107-138 main
two_sockets_select == Program(<< >>, handleSocketBoth("s1", "one") @@ handleSocketBoth("s2", "two") @@
    [main |-> createSocketBoth("s1", "port") \o createSocketBoth("s2", "port2") \o <<Goto("loop")>>,
     loop |-> <<On(SelectFor({"s1", "s2"}, "ready"), "loop"), IfHas("ready", "s1", "first"), Goto("second")>>,
     first |-> <<Call("one"), Goto("second")>>,
     second |-> <<IfHas("ready", "s2", "last"), Goto("loop")>>,
     last |-> <<Call("two"), Goto("loop")>>])

\* 09/streamwrite.c:51-89 main
streamwrite9(port, data) == Program(<< >>,
    [main |-> <<Socket("sock", "stream"), Sys("gethostbyname2"), Connect("sock", port), Try(Write("sock", data)), Try(Close("sock")), Exit("1")>>])

\* 08/streamwrite.c:51-92 main
streamwrite8(port, data) == Program(<< >>,
    [main |-> <<Socket("sock", "stream"), On(Sys("gethostbyname"), "unknown"), Connect("sock", port), Try(Write("sock", data)), Try(Close("sock")), Exit("0")>>,
     unknown |-> <<Exit("2")>>])

-----------------------------------------------------------------------------
(* Datagrams and pairs of sockets. *)

\* 08/dgramread.c:51-83 main
dgramread8 == Program(<< >>,
    [main |-> <<Socket("sock", "udp"), Bind("sock", "port"), Sys("getsockname"), Try(Recvfrom("sock", 3)), Show("got", "buf"), Try(Close("sock")), Exit("0")>>])

\* 09/dgramread.c:51-83 main
dgramread9 == dgramread8

\* 08/dgramsend.c:50-91 main
dgramsend8 == Program(<< >>,
    [main |-> <<Socket("sock", "udp"), On(Sys("gethostbyname"), "unknown"), Try(Sendto("sock", "port", <<"d">>)), Try(Close("sock")), Exit("0")>>,
     unknown |-> <<Exit("2")>>])

\* 09/dgramsend.c:50-92 main
dgramsend9 == Program(<< >>,
    [main |-> <<Socket("sock", "udp"), Sys("gethostbyname"), Try(Sendto("sock", "port", <<"d">>)), Try(Close("sock")), Exit("0")>>])

\* 08/udgramread.c:56-84 main
udgramread8 == Program(<< >>,
    [main |-> <<Socket("sock", "dgram"), BindPath("sock", "socket"), Try(Recvfrom("sock", 3)), Show("got", "buf"), Try(Close("sock")),
                Try(Remove("socket")), Exit("0")>>])

\* 09/udgramread.c:56-84 main
udgramread9 == udgramread8

\* 08/udgramsend.c:49-74 main
udgramsend8 == Program(<< >>,
    [main |-> <<Socket("sock", "dgram"), Try(Sendto("sock", "socket", <<"d">>)), Try(Close("sock")), Exit("0")>>])

\* 09/udgramsend.c:49-74 main
udgramsend9 == udgramsend8

\* 08/socketpair.c:51-88 main
socketpair8 == Program(<< >>,
    [main |-> <<Socketpair("s0", "s1"), On(Fork("child"), "end"), Close("s0"), Try(Write("s1", <<"x">>)), Try(Read("s1", 3)), Show("parent", "buf"),
                Close("s1"), Goto("end")>>,
     child |-> <<Close("s1"), Try(Write("s0", <<"y">>)), Try(Read("s0", 3)), Show("child", "buf"), Close("s0"), Goto("end")>>,
     end |-> <<Exit("0")>>])

\* 09/socketpair.c:50-87 main
socketpair9 == Program(<< >>,
    [main |-> <<Socketpair("s0", "s1"), On(Fork("child"), "end"), Close("s0"), Try(Read("s1", 3)), Show("parent", "buf"), Try(Write("s1", <<"x">>)),
                Close("s1"), Goto("end")>>,
     child |-> <<Close("s1"), Try(Read("s0", 3)), Show("child", "buf"), Try(Write("s0", <<"y">>)), Close("s0"), Goto("end")>>,
     end |-> <<Exit("0")>>])

-----------------------------------------------------------------------------
(* Pipes and commands. *)

\* external: a pager, which shows its standard input to the end
more == Program(<< >>, [main |-> <<Read("in", 1), If("r", 0, "quit"), Show("line", "buf"), Goto("main")>>, quit |-> <<Exit("0")>>])

\* 08/pipe1.c:25-75 main
pipe1_8 == Program(<< >>,
    [main |-> <<Pipe("fd0", "fd1"), Fork("child"), Close("fd0"), Try(Write("fd1", <<"hello">>)), Close("fd1"), Goto("end")>>,
     child |-> <<Close("fd1"), On(Read("fd0", 3), "close"), Show("child", "buf"), Goto("close")>>,
     close |-> <<Close("fd0"), Goto("end")>>,
     end |-> <<Try(Wait), Exit("0")>>])

\* 09/pipe1.c:21-60 main
pipe1_9 == Program(<< >>,
    [main |-> <<Pipe("fd0", "fd1"), Fork("child"), Close("fd0"), Try(Write("fd1", <<"hello">>)), Close("fd1"), Exit("0")>>,
     child |-> <<Close("fd1"), Try(Read("fd0", 3)), Close("fd0"), Show("child", "buf"), Exit("0")>>])

\* 08/pipe2.c:22-102 main
pipe2_8 == Program(<< >>,
    [main |-> <<Open("fp", "text", {"RDONLY"}), Pipe("fd0", "fd1"), Fork("child"), Close("fd0"), Goto("fgets")>>,
     fgets |-> <<Read("fp", 1), If("r", 0, "eof"), WriteBuf("fd1"), Goto("fgets")>>,
     eof |-> <<Close("fd1"), Wait, Exit("0")>>,
     child |-> <<Close("fd1"), Dup2("fd0", "in"), Exec("more")>>])

\* 09/pipe2.c:19-93 main
pipe2_9 == pipe2_8

\* external: popen() for writing, and pclose(); a line is what its buffer holds
popenForWriting(pager) ==
    [popen |-> <<Pipe("pipe0", "pipe"), Fork("popenChild"), Close("pipe0"), Return>>,
     popenChild |-> <<Close("pipe"), Dup2("pipe0", "in"), Close("pipe0"), Try(Exec(pager)), UExit("127")>>,
     pclose |-> <<Close("pipe"), Wait, Return>>]

\* 08/popen.c:21-64 main
popen8 == Program(<< >>, popenForWriting("more") @@
    [main |-> <<Call("popen"), Open("fp", "text", {"RDONLY"}), Goto("fgets")>>,
     fgets |-> <<Read("fp", 1), If("r", 0, "eof"), WriteBuf("pipe"), Goto("fgets")>>,
     eof |-> <<Call("pclose"), Exit("0")>>])

\* 09/popen.c:18-58 main
popen9 == popen8

\* external: a command that the shell runs, which writes to both of its streams
shCommand == Program(<< >>, [main |-> <<Write("err", <<"e">>), Write("out", <<"o">>), Write("out", <<"p">>), Exit("0")>>])

\* external: a command that writes more than a pipe holds
shCommandFull == Program(<< >>, [main |-> <<Write("out", <<"o">>), Write("out", <<"p">>), Write("out", <<"q">>), Write("out", <<"r">>), Exit("0")>>])

\* 08/command.c:8-65 runCommand: the number of bytes read is unsigned, so that a read() that fails does not end a loop
runCommand(cmd, outlen, errlen) ==
    [runCommand |-> <<On(Pipe("opipe0", "opipe1"), "failed"), On(Pipe("epipe0", "epipe1"), "failed"), On(Fork("child"), "failed"),
                      Close("opipe1"), Close("epipe1"), On(Wait, "failed"), Goto("err")>>,
     child |-> <<Close("opipe0"), Close("epipe0"), On(Dup2("opipe1", "out"), "failed"), On(Dup2("epipe1", "err"), "failed"),
                 On(Exec(cmd), "failed"), Goto("failed")>>,
     err |-> <<Try(Read("epipe0", 1)), If("r", 0, "out"), Plus("total", "r"), IfLess("total", errlen + 1, "keepErr"), Goto("err")>>,
     keepErr |-> <<Show("err", "buf"), Goto("err")>>,
     out |-> <<Try(Read("opipe0", 1)), If("r", 0, "ran"), Plus("total", "r"), IfLess("total", outlen + 1, "keepOut"), Goto("out")>>,
     keepOut |-> <<Show("out", "buf"), Goto("out")>>,
     ran |-> <<Set("r", 0), Return>>,
     failed |-> <<Set("r", -1), Return>>]

\* 08/command.c:67-73 main
command(cmd) == Program(<< >>, runCommand(cmd, 2, 2) @@
    [main |-> <<Call("runCommand"), Printf("stdout:"), Printf("stderr:"), Fflush, Exit("0")>>])

-----------------------------------------------------------------------------
(* System V and POSIX objects. *)

\* 08/msgsend.c:39-76 main
msgsend8(text) == Program(<< >>,
    [main |-> <<Msgget("msqid", "key", {"CREAT"}), MsgsndNow("msqid", [type |-> 1, data |-> text]), Exit("0")>>])

\* 09/msgsend.c:37-74 main
msgsend9(text) == msgsend8(text)

\* 08/msgrecv.c:38-66 main
msgrecv8 == Program(<< >>,
    [main |-> <<Msgget("msqid", "key", {}), Msgrcv("msqid", {1}), Show("got", "buf"), Exit("0")>>])

\* 09/msgrecv.c:36-64 main
msgrecv9 == msgrecv8

MAX_RETRIES == 2

\* 08/semdemo.c:42-118 initsem
initsem(semid) ==
    [initsem |-> <<On(Semget(semid, "semkey", 1, {"CREAT", "EXCL"}), "exists"), Goto("free")>>,
     free |-> <<On(Semop(semid, <<Sops(1, 1, {})>>), "notFreed"), Return>>,
     notFreed |-> <<Try(Rmid(semid)), Goto("noSem")>>,
     exists |-> <<IfNot("e", "EEXIST", "noSem"), On(Semget(semid, "semkey", 1, {}), "noSem"), Set("i", 0), Goto("poll")>>,
     poll |-> <<If("i", MAX_RETRIES, "noSem"), On(Otime(semid, "ready"), "noSem"), If("ready", TRUE, "ready"), Sleep, Add("i", 1), Goto("poll")>>,
     ready |-> <<Set("r", 0), Return>>,
     noSem |-> <<Set("r", -1), Return>>]

\* 08/semdemo.c:120-185 main
semdemo8 == Program(<< >>, initsem("semid") @@
    [main |-> <<Sys("ftok"), Call("initsem"), IfLess("r", 0, "errExit"), Semop("semid", <<Sops(1, -1, {"UNDO"})>>), Goto("locked")>>,
     locked |-> <<Say("locked"), Semop("semid", <<Sops(1, 1, {"UNDO"})>>), Goto("unlocked")>>,
     unlocked |-> <<Exit("0")>>])

\* 09/semdemo.c:33-104 initsem
initsem9(semid) == initsem(semid)

\* 09/semdemo.c:106-161 main
semdemo9 == semdemo8

\* 08/shmdemo.c:27-67 main
shmdemo8(text) == Program(<< >>,
    [main |-> <<Sys("ftok"), Get0("data", "file", "shmkey", <<"-", "-">>, {"CREAT"}), Sys("shmat")>>
              \o (IF text # << >> THEN [k \in DOMAIN text |-> Write("data", <<text[k]>>)] ELSE <<Read("data", 2), Show("segment", "buf")>>)
              \o <<Sys("shmdt"), Exit("0")>>])

\* 09/shmdemo.c:20-59 main
shmdemo9(text) == shmdemo8(text)

\* 08/memory-layout.c:33-128 main
memory_layout8 == Program(<< >>,
    [main |-> <<Get0("shmid", "file", "IPC_PRIVATE", << >>, {"CREAT", "EXCL"}), Sys("shmat"), Rmid("shmid"), Sys("malloc"), Exit("0")>>])

\* 09/memory-layout.c:24-66 main
memory_layout9 == Program(<< >>,
    [main |-> <<Sys("malloc"), Get0("shmid", "file", "IPC_PRIVATE", << >>, {"CREAT", "EXCL"}), Sys("shmat"), Rmid("shmid"), Exit("0")>>])

\* 08/mqrecv.c:22-59 emptyQueue
emptyQueue(mq) ==
    [emptyQueue |-> <<IfNot("msgreceived", 1, "emptied"), Sys("mq_getattr"), Goto("drain")>>,
     drain |-> <<On(MqReceive(mq), "drained"), Show("message", "buf"), Goto("drain")>>,
     drained |-> <<MqNotify(mq, "USR1"), Goto("emptied")>>,
     emptied |-> <<Set("msgreceived", 0), Return>>]

\* 08/mqrecv.c:61-64 msghandler
msghandler == [msghandler |-> <<Set("msgreceived", 1), Return>>]

\* 08/mqrecv.c:66-123 main
mqrecv(waits) == Program([msgreceived |-> 0], emptyQueue("mq") @@ msghandler @@
    [main |-> <<Try(Remove("/sandwiches")), Signal("USR1", "msghandler"), MqOpen("mq", "/sandwiches", {"CREAT", "EXCL", "NONBLOCK"}),
                MqNotify("mq", "USR1"), Goto("loop")>>,
     loop |-> <<Pause>> \o When(waits, <<Sleep>>) \o <<Call("emptyQueue"), Goto("loop")>>])

\* 08/mqsend.c:13-63 main
mqsend(msg, waits) == Program(<< >>,
    [main |-> <<MqOpen("mq", "/sandwiches", {}), Try(MqSend("mq", <<msg>>, 0))>> \o When(waits, <<Sleep>>)
              \o <<MqSend("mq", <<"TUNA">>, 1), Exit("0")>>])

-----------------------------------------------------------------------------
Poem == <<NewObj("file", "text", <<"l1", "l2">>, 0)>>

ApueTexts ==
    [one_socket_select_fork |-> one_socket_select_fork, strchkread2 |-> strchkread2, one_socket_select |-> one_socket_select,
     strchkread9 |-> strchkread9, strchkread8 |-> strchkread8, streamread8 |-> streamread8, streamread9 |-> streamread9,
     dualstack_streamread |-> dualstack_streamread, two_sockets |-> two_sockets, two_sockets_select |-> two_sockets_select,
     streamwrite9 |-> streamwrite9("port", <<"x", "y">>), streamwrite8 |-> streamwrite8("port", <<"z">>),
     streamwriteTwo |-> streamwrite9("port2", <<"w">>),
     dgramread8 |-> dgramread8, dgramread9 |-> dgramread9, dgramsend8 |-> dgramsend8, dgramsend9 |-> dgramsend9,
     udgramread8 |-> udgramread8, udgramread9 |-> udgramread9, udgramsend8 |-> udgramsend8, udgramsend9 |-> udgramsend9,
     socketpair8 |-> socketpair8, socketpair9 |-> socketpair9, more |-> more, pipe1_8 |-> pipe1_8, pipe1_9 |-> pipe1_9,
     pipe2_8 |-> pipe2_8, pipe2_9 |-> pipe2_9, popen8 |-> popen8, popen9 |-> popen9, shCommand |-> shCommand, command |-> command("shCommand"),
     shCommandFull |-> shCommandFull, commandFull |-> command("shCommandFull"),
     msgsend8 |-> msgsend8(<<"m">>), msgsend9 |-> msgsend9(<<"n">>), msgrecv8 |-> msgrecv8, msgrecv9 |-> msgrecv9,
     semdemo8 |-> semdemo8, semdemo9 |-> semdemo9, shmdemo8 |-> shmdemo8(<<"a", "b">>), shmdemo9 |-> shmdemo9(<<"c", "d">>),
     shmshow |-> shmdemo8(<< >>), memory_layout8 |-> memory_layout8, memory_layout9 |-> memory_layout9,
     mqrecv |-> mqrecv(FALSE), mqrecvSlow |-> mqrecv(TRUE), mqsend |-> mqsend("BLT", FALSE), mqsendSlow |-> mqsend("PBJ", TRUE)]

\* The servers wait in their loop, or in a handler of one socket when there are two.
Streams == {"one_socket_select", "strchkread9", "strchkread8", "streamread8", "streamread9",
            "dualstack_streamread"}
Waiting(program, start) == ServingAt(Scene(start), Home(program, "main"))
ApueScenes ==
    [x \in Streams |-> ServingAt(Sure(Scene(<<x, "streamwrite9", "streamwrite8">>)), Home(x, "loop"))] @@
    [strchkread2 |-> ServingAt(Sure(Scene(<<"strchkread2", "streamwrite9", "streamwrite8">>)), Home("strchkread2", "loop")),
     one_socket_select_fork |-> ServingAt(Scene(<<"one_socket_select_fork", "streamwrite9">>), Home("one_socket_select_fork", "loop")),
     two_sockets |-> ServingAt(Sure(Scene(<<"two_sockets", "streamwrite9", "streamwriteTwo">>)), Home("two_sockets", "one") \cup Home("two_sockets", "two")),
     two_sockets_select |-> ServingAt(Sure(Scene(<<"two_sockets_select", "streamwrite9", "streamwriteTwo">>)), Home("two_sockets_select", "loop")),
     dgram8 |-> Waiting("dgramread8", <<"dgramread8", "dgramsend8">>), dgram9 |-> Waiting("dgramread9", <<"dgramread9", "dgramsend9">>),
     udgram8 |-> Waiting("udgramread8", <<"udgramread8", "udgramsend8">>), udgram9 |-> Waiting("udgramread9", <<"udgramread9", "udgramsend9", "udgramread9">>),
     socketpair8 |-> Scene(<<"socketpair8">>), socketpair9 |-> Scene(<<"socketpair9">>), commandFull |-> Scene(<<"commandFull">>), pipe1_8 |-> Scene(<<"pipe1_8">>), pipe1_9 |-> Scene(<<"pipe1_9">>),
     pipe2_8 |-> With(Scene(<<"pipe2_8">>), Poem), pipe2_9 |-> With(Scene(<<"pipe2_9">>), Poem),
     popen8 |-> With(Scene(<<"popen8">>), Poem), popen9 |-> With(Scene(<<"popen9">>), Poem), command |-> Scene(<<"command">>),
     msg8 |-> Waiting("msgrecv8", <<"msgsend8", "msgsend9", "msgrecv8">>), msg9 |-> Waiting("msgrecv9", <<"msgrecv9", "msgsend9">>),
     semdemo |-> WithSignals(Scene(<<"semdemo8", "semdemo9">>), 1, [INT |-> 1]),
     shmdemo |-> Sure(Scene(<<"shmdemo8", "shmdemo9", "shmshow">>)),
     memory_layout8 |-> Scene(<<"memory_layout8">>), memory_layout9 |-> Scene(<<"memory_layout9">>),
     mqrecv |-> ServingAt(Sure(Scene(<<"mqrecv", "mqsend">>)), Home("mqrecv", "loop")),
     mqrecvSlow |-> ServingAt(Sure(Scene(<<"mqrecvSlow", "mqsendSlow">>)), Home("mqrecvSlow", "loop"))]
=============================================================================
