--------------------------- MODULE SocketPrograms ---------------------------
(***************************************************************************)
(* The programs of tlpi-dist/sockets in the notation of UnixCode.  A       *)
(* service has an IPv6 and an IPv4 address, which getaddrinfo() lists in   *)
(* this order.  A buffer of two items stands for BUF_SIZE.                 *)
(***************************************************************************)
EXTENDS JobPrograms

Service(name) == [v6 |-> name \o "/6", v4 |-> name \o "/4"]

\* inet_sockets.c:39-78 inetConnect
inetConnect(f, service, type) ==
    [inetConnect |-> <<On(Sys("getaddrinfo"), "noConnection"), On(Socket(f, type), "connect4"), On(Connect(f, service.v6), "close6"), Return>>,
     close6 |-> <<Close(f), Goto("connect4")>>,
     connect4 |-> <<On(Socket(f, type), "noConnection"), On(Connect(f, service.v4), "close4"), Return>>,
     close4 |-> <<Close(f), Goto("noConnection")>>,
     noConnection |-> <<Set("r", -1), Return>>]

\* inet_sockets.c:88-147 inetPassiveSocket
inetPassiveSocket(f, service, type, doListen, backlog) ==
    LET reuse == When(doListen, <<On(Sys("setsockopt"), "notReused")>>) IN
    [passive |-> <<On(Sys("getaddrinfo"), "notPassive"), On(Socket(f, type), "passive4")>> \o reuse \o <<On(Bind(f, service.v6), "unbound6"), Goto("bound")>>,
     unbound6 |-> <<Close(f), Goto("passive4")>>,
     passive4 |-> <<On(Socket(f, type), "notPassive")>> \o reuse \o <<On(Bind(f, service.v4), "notReused"), Goto("bound")>>,
     notReused |-> <<Close(f), Goto("notPassive")>>,
     bound |-> When(doListen, <<On(Listen(f, backlog), "notPassive")>>) \o <<Set("r", 0), Return>>,
     notPassive |-> <<Set("r", -1), Return>>]

\* inet_sockets.c:153-157 inetListen
inetListen(f, service, backlog) == inetPassiveSocket(f, service, "stream", TRUE, backlog)

\* inet_sockets.c:162-166 inetBind
inetBind(f, service, type) == inetPassiveSocket(f, service, type, FALSE, 0)

\* unix_sockets.c:46-67 unixConnect
unixConnect(sd, path, type) ==
    [unixConnect |-> <<On(Socket(sd, type), "unixFailed"), On(Connect(sd, path), "unixRefused"), Return>>,
     unixRefused |-> <<Close(sd), Goto("unixFailed")>>,
     unixFailed |-> <<Set("r", -1), Return>>]

\* unix_sockets.c:72-92 unixBind
unixBind(sd, path, type) ==
    [unixBind |-> <<On(Socket(sd, type), "bindFailed"), On(BindPath(sd, path), "bindRefused"), Return>>,
     bindRefused |-> <<Close(sd), Goto("bindFailed")>>,
     bindFailed |-> <<Set("r", -1), Return>>]

-----------------------------------------------------------------------------
echo == Service("echo")

\* is_echo_sv.c:34-43 grimReaper
grimReaper ==
    [grimReaper |-> <<Copy("savedErrno", "e"), Goto("reap")>>,
     reap |-> <<Try(WaitPid("any", {"NOHANG"})), IfIn("r", {-1, 0}, "reaped"), Goto("reap")>>,
     reaped |-> <<Copy("e", "savedErrno"), Return>>]

\* is_echo_sv.c:47-64 handleRequest
handleRequest(cfd) ==
    [handleRequest |-> <<On(Read(cfd, 2), "failure"), If("r", 0, "handled"), On(WriteBuf(cfd), "failure"), Goto("handleRequest")>>,
     handled |-> <<Return>>,
     failure |-> <<Exit("1")>>]

\* Mutant: the parent keeps the connected socket open.
is_echo_sv_Open == Program(<< >>,
    becomeDaemon({}) @@ inetListen("lfd", echo, 10) @@ grimReaper @@ handleRequest("cfd") @@
    [main |-> <<Call("becomeDaemon"), IfLess("r", 0, "errExit"), Sigaction("CHLD", "grimReaper", {"RESTART"}),
                Call("passive"), IfLess("r", 0, "failure"), Goto("accept")>>,
     accept |-> <<On(Accept("lfd", "cfd"), "failure"), On(Fork("child"), "noChild"), Goto("accept")>>,
     noChild |-> <<Close("cfd"), Goto("accept")>>,
     child |-> <<Close("lfd"), Call("handleRequest"), UExit("0")>>])

\* is_echo_sv.c:66-116 main
is_echo_sv == Program(<< >>,
    becomeDaemon({}) @@ inetListen("lfd", echo, 10) @@ grimReaper @@ handleRequest("cfd") @@
    [main |-> <<Call("becomeDaemon"), IfLess("r", 0, "errExit"), Sigaction("CHLD", "grimReaper", {"RESTART"}),
                Call("passive"), IfLess("r", 0, "failure"), Goto("accept")>>,
     accept |-> <<On(Accept("lfd", "cfd"), "failure"), On(Fork("child"), "noChild"), Close("cfd"), Goto("accept")>>,
     noChild |-> <<Close("cfd"), Goto("accept")>>,
     child |-> <<Close("lfd"), Call("handleRequest"), UExit("0")>>])

\* is_echo_v2_sv.c:44-128 grimReaper, handleRequest, main
is_echo_v2_sv(inetd) == IF inetd
    THEN Program(<< >>, handleRequest("in") @@ [main |-> <<Call("handleRequest"), Exit("0")>>])
    ELSE Program(<< >>,
    becomeDaemon({}) @@ inetListen("lfd", echo, 10) @@ grimReaper @@ handleRequest("cfd") @@
    [main |-> <<Call("becomeDaemon"), IfLess("r", 0, "errExit"), Sigaction("CHLD", "grimReaper", {"RESTART"}),
                Call("passive"), IfLess("r", 0, "failure"), Goto("accept")>>,
     accept |-> <<On(Accept("lfd", "cfd"), "accept"), On(Fork("child"), "noChild"), Close("cfd"), Goto("accept")>>,
     noChild |-> <<Close("cfd"), Goto("accept")>>,
     child |-> <<Close("lfd"), Call("handleRequest"), Exit("0")>>])

\* is_echo_inetd_sv.c:24-43 main
is_echo_inetd_sv == Program(<< >>,
    [main |-> <<On(Read("in", 2), "failure"), If("r", 0, "end"), On(WriteBuf("out"), "failure"), Goto("main")>>,
     failure |-> <<Exit("1")>>,
     end |-> <<Exit("0")>>])

\* external: the Internet superserver, which runs one program for each connection
inetd(program) == Program(<< >>, inetListen("lfd", echo, 10) @@
    [main |-> <<Call("passive"), IfLess("r", 0, "errExit"), Goto("accept")>>,
     accept |-> <<Accept("lfd", "cfd"), Fork("child"), Close("cfd"), Goto("accept")>>,
     child |-> <<Dup2("cfd", "in"), Dup2("cfd", "out"), Close("cfd"), Close("lfd"), Exec(program)>>])

\* Mutant: one process writes all of the input before it reads the answers.
is_echo_cl_Single == Program(<< >>, inetConnect("sfd", echo, "stream") @@
    [main |-> <<Call("inetConnect"), IfLess("r", 0, "errExit"), Goto("parent")>>,
     child |-> <<On(Read("sfd", 2), "end"), If("r", 0, "end"), WriteBuf("out"), Goto("child")>>,
     parent |-> <<On(Read("in", 2), "shut"), If("r", 0, "shut"), WriteBuf("sfd"), Goto("parent")>>,
     shut |-> <<Shutdown("sfd"), Goto("child")>>,
     end |-> <<Exit("0")>>])

\* is_echo_cl.c:48-90 main
is_echo_cl == Program(<< >>, inetConnect("sfd", echo, "stream") @@
    [main |-> <<Call("inetConnect"), IfLess("r", 0, "errExit"), Fork("child"), Goto("parent")>>,
     child |-> <<On(Read("sfd", 2), "end"), If("r", 0, "end"), WriteBuf("out"), Goto("child")>>,
     parent |-> <<On(Read("in", 2), "shut"), If("r", 0, "shut"), WriteBuf("sfd"), Goto("parent")>>,
     shut |-> <<Shutdown("sfd"), Goto("end")>>,
     end |-> <<Exit("0")>>])

\* id_echo_sv.c:29-64 main
id_echo_sv == Program(<< >>, becomeDaemon({}) @@ inetBind("sfd", echo, "udp") @@
    [main |-> <<Call("becomeDaemon"), IfLess("r", 0, "errExit"), Call("passive"), IfLess("r", 0, "failure"), Goto("serve")>>,
     serve |-> <<Recvfrom("sfd", 2), Try(Reply("sfd")), Goto("serve")>>,
     failure |-> <<Exit("1")>>])

\* id_echo_cl.c:23-56 main
id_echo_cl == Program(<< >>, inetConnect("sfd", echo, "udp") @@
    [main |-> <<Call("inetConnect"), IfLess("r", 0, "errExit"), Send("sfd", <<"a">>), Recvfrom("sfd", 2), Show("echo a", "buf"),
                Send("sfd", <<"b", "b", "b">>), Recvfrom("sfd", 2), Show("echo b", "buf"), Exit("0")>>])

-----------------------------------------------------------------------------
(* File transfer, the conversion to upper case, and sequence numbers. *)

\* us_xfr_sv.c:23-79 main
us_xfr_sv == Program(<< >>,
    [main |-> <<Socket("sfd", "stream"), On(Remove("/tmp/us_xfr"), "removed"), Goto("bind")>>,
     removed |-> <<IfNot("e", "ENOENT", "errExit"), Goto("bind")>>,
     bind |-> <<BindPath("sfd", "/tmp/us_xfr"), Listen("sfd", 5), Goto("accept")>>,
     accept |-> <<Accept("sfd", "cfd"), Goto("copy")>>,
     copy |-> <<Read("cfd", 2), If("r", 0, "close"), WriteBuf("out"), Goto("copy")>>,
     close |-> <<Try(Close("cfd")), Goto("accept")>>])

\* us_xfr_cl.c:22-54 main
us_xfr_cl == Program(<< >>,
    [main |-> <<Socket("sfd", "stream"), Connect("sfd", "/tmp/us_xfr"), Goto("copy")>>,
     copy |-> <<Read("in", 2), If("r", 0, "end"), WriteBuf("sfd"), Goto("copy")>>,
     end |-> <<Exit("0")>>])

\* us_xfr_v2_sv.c:24-54 main
us_xfr_v2_sv == Program(<< >>, unixBind("sfd", "/tmp/us_xfr_v2", "stream") @@
    [main |-> <<Call("unixBind"), IfLess("r", 0, "errExit"), Listen("sfd", 5), Goto("accept")>>,
     accept |-> <<Accept("sfd", "cfd"), Goto("copy")>>,
     copy |-> <<Read("cfd", 2), If("r", 0, "close"), WriteBuf("out"), Goto("copy")>>,
     close |-> <<Try(Close("cfd")), Goto("accept")>>])

\* us_xfr_v2_cl.c:24-44 main
us_xfr_v2_cl == Program(<< >>, unixConnect("sfd", "/tmp/us_xfr_v2", "stream") @@
    [main |-> <<Call("unixConnect"), IfLess("r", 0, "errExit"), Goto("copy")>>,
     copy |-> <<Read("in", 2), If("r", 0, "end"), WriteBuf("sfd"), Goto("copy")>>,
     end |-> <<Exit("0")>>])

\* us_abstract_bind.c:28-63 main
us_abstract_bind == Program(<< >>,
    [main |-> <<Socket("sockfd", "stream"), Bind("sockfd", "@xyz"), Sleep, Exit("0")>>])

upper == [a |-> "A", b |-> "B", c |-> "C"]

\* ud_ucase_sv.c:22-73 main
ud_ucase_sv == Program(<< >>,
    [main |-> <<Socket("sfd", "dgram"), On(Remove("/tmp/ud_ucase"), "removed"), Goto("bind")>>,
     removed |-> <<IfNot("e", "ENOENT", "errExit"), Goto("bind")>>,
     bind |-> <<BindPath("sfd", "/tmp/ud_ucase"), Goto("serve")>>,
     serve |-> <<Recvfrom("sfd", 2), Map("buf", upper), Reply("sfd"), Goto("serve")>>])

\* ud_ucase_cl.c:21-71 main
ud_ucase_cl(msgs) == Program(<< >>,
    [main |-> <<Socket("sfd", "dgram"), BindPath("sfd", "self"), Sendto("sfd", "/tmp/ud_ucase", msgs[1]), Recvfrom("sfd", 2),
                Show(msgs[1][1], "buf"), Sendto("sfd", "/tmp/ud_ucase", msgs[2]), Recvfrom("sfd", 2), Show(msgs[2][1], "buf"),
                Try(Remove("self")), Exit("0")>>])

\* i6d_ucase_sv.c:22-73 main
i6d_ucase_sv == Program(<< >>,
    [main |-> <<Socket("sfd", "udp"), Bind("sfd", "50002"), Goto("serve")>>,
     serve |-> <<Recvfrom("sfd", 2), Map("buf", upper), Reply("sfd"), Goto("serve")>>])

\* i6d_ucase_cl.c:20-60 main
i6d_ucase_cl(msgs) == Program(<< >>,
    [main |-> <<Socket("sfd", "udp"), Sendto("sfd", "50002", msgs[1]), Recvfrom("sfd", 2),
                Show(msgs[1][1], "buf"), Sendto("sfd", "50002", msgs[2]), Recvfrom("sfd", 2), Show(msgs[2][1], "buf"), Exit("0")>>])

\* socknames.c:21-72 main
socknames == Program(<< >>, inetListen("listenFd", echo, 5) @@ inetConnect("connFd", echo, "stream") @@
    [main |-> <<Call("passive"), IfLess("r", 0, "errExit"), Call("inetConnect"), IfLess("r", 0, "errExit"), Accept("listenFd", "acceptFd"),
                Sys("getsockname"), Sys("getsockname"), Sys("getpeername"), Sys("getpeername"), Sleep, Exit("0")>>])

\* read_line.c:29-73 readLine
readLine(f, n) ==
    [readLine |-> <<Set("line", << >>), Set("totRead", 0), Goto("readCh")>>,
     readCh |-> <<On(Read(f, 1), "notRead"), If("r", 0, "eof"), Item("ch", "buf", 1), IfLess("totRead", n - 1, "keepCh"), Goto("eol")>>,
     keepCh |-> <<Add("totRead", 1), Push("line", "ch"), Goto("eol")>>,
     eol |-> <<If("ch", "\n", "lineRead"), Goto("readCh")>>,
     notRead |-> <<If("e", "EINTR", "readCh"), Return>>,
     eof |-> <<If("totRead", 0, "nothing"), Goto("lineRead")>>,
     nothing |-> <<Return>>,
     lineRead |-> <<Copy("r", "totRead"), Return>>]

seqnum == Service("50000")

\* is_seqnum_v2_sv.c:27-90 main
is_seqnum_v2_sv == Program(<< >>, inetListen("lfd", seqnum, 5) @@ readLine("cfd", 3) @@
    [main |-> <<Signal("PIPE", "ign"), Call("passive"), IfLess("r", 0, "errExit"), Sys("malloc"), Goto("serve")>>,
     serve |-> <<On(Accept("lfd", "cfd"), "serve"), Call("readLine"), IfIn("r", {-1, 0}, "close"), Item("reqLenStr", "line", 1),
                 Atoi("reqLen", "reqLenStr"), If("reqLen", 0, "close"), Itoa("seqNumStr", "seqNum"), Try(WriteLine("cfd", "seqNumStr")),
                 Plus("seqNum", "reqLen"), Goto("close")>>,
     close |-> <<Try(Close("cfd")), Goto("serve")>>])

\* is_seqnum_v2_cl.c:26-52 main
is_seqnum_v2_cl(reqLenStr) == Program(<< >>, inetConnect("cfd", seqnum, "stream") @@ readLine("cfd", 3) @@
    [main |-> <<Call("inetConnect"), IfLess("r", 0, "errExit"), Write("cfd", <<reqLenStr>>), Write("cfd", <<"\n">>), Call("readLine"),
                IfIn("r", {-1, 0}, "errExit"), Item("seqNumStr", "line", 1), Atoi("got", "seqNumStr"), Show("number", "got"), Exit("0")>>])

-----------------------------------------------------------------------------
(* Functions that read and write in pieces. *)

\* rdwrn.c:24-47 readn
readn(f) ==
    [readn |-> <<Set("got", << >>), Goto("readnMore")>>,
     readnMore |-> <<If("n", 0, "readnDone"), On(ReadN(f, "n"), "readnFailed"), If("r", 0, "readnDone"), Goto("readnTake")>>,
     readnTake |-> <<If("buf", << >>, "readnMore"), Pop("ch", "buf"), Push("got", "ch"), Add("n", -1), Goto("readnTake")>>,
     readnFailed |-> <<If("e", "EINTR", "readnMore"), Return>>,
     readnDone |-> <<Return>>]

\* rdwrn.c:52-76 writen
writen(f) ==
    [writen |-> <<If("buf", << >>, "written"), On(WriteSome(f), "writenFailed"), Goto("writen")>>,
     writenFailed |-> <<If("e", "EINTR", "writen"), Return>>,
     written |-> <<Return>>]

\* read_line_buf.c:22-73 readLineBufInit, readLineBuf
readLineBuf(f, n) ==
    [readLineBufInit |-> <<Set("rlbuf", << >>), Return>>,
     readLineBuf |-> <<Set("line", << >>), Set("cnt", 0), Goto("fill")>>,
     fill |-> <<IfNot("rlbuf", << >>, "nextCh"), On(Read(f, 2), "bufFailed"), If("r", 0, "bufDone"), Copy("rlbuf", "buf"), Goto("nextCh")>>,
     nextCh |-> <<Pop("c", "rlbuf"), IfLess("cnt", n, "storeCh"), Goto("endOfLine")>>,
     storeCh |-> <<Push("line", "c"), Add("cnt", 1), Goto("endOfLine")>>,
     endOfLine |-> <<If("c", "\n", "bufDone"), Goto("fill")>>,
     bufFailed |-> <<Return>>,
     bufDone |-> <<Copy("r", "cnt"), Return>>]

\* external: a program that prints the lines of its input, by each of the functions
printLines == Program(<< >>, readLine("in", 3) @@
    [main |-> <<Call("readLine"), IfIn("r", {-1, 0}, "end"), Show("line", "line"), Goto("main")>>, end |-> <<Exit("0")>>])
printLinesBuf == Program(<< >>, readLineBuf("in", 2) @@
    [main |-> <<Call("readLineBufInit"), Goto("lines")>>,
     lines |-> <<Call("readLineBuf"), IfIn("r", {-1, 0}, "end"), Show("line", "line"), Goto("lines")>>, end |-> <<Exit("0")>>])

\* external: a program that sends four items through a connection by writen(), and receives them by readn(),
\* while a signal may be caught at any time
exchange == Program(<< >>, readn("s0") @@ writen("s1") @@
    [main |-> <<Sigaction("INT", "handler", {}), Socketpair("s0", "s1"), Fork("writer"), Close("s1"), Set("n", 5), Call("readn"), IfLess("r", 0, "errExit"),
                Show("got", "got"), Exit("0")>>,
     writer |-> <<Set("buf", <<"a", "b", "c", "d">>), Call("writen"), IfLess("r", 0, "errExit"), UExit("0")>>,
     handler |-> <<Return>>])

\* sendfile.c:20-71 sendfile
sendfile(useOffset, offset) ==
    [sendfile |-> When(useOffset, <<On(Offset("in_fd", "orig"), "sendFailed"), Lseek("in_fd", offset)>>) \o <<Set("totSent", 0), Goto("send")>>,
     send |-> <<If("count", 0, "sent"), Copy("toRead", "count"), IfLess("count", 2, "sendRead"), Set("toRead", 2), Goto("sendRead")>>,
     sendRead |-> <<On(ReadN("in_fd", "toRead"), "sendFailed"), If("r", 0, "sent"), On(WriteSome("out_fd"), "sendFailed"), Plus("totSent", "r"),
                    Minus("count", "r"), Goto("send")>>,
     sent |-> When(useOffset, <<Offset("in_fd", "offset"), SeekTo("in_fd", "orig")>>) \o <<Copy("r", "totSent"), Return>>,
     sendFailed |-> <<Set("r", -1), Return>>]

\* external: a program that sends three items of a file from its second one
sendsFile == Program(<< >>, sendfile(TRUE, 1) @@
    [main |-> <<Open("in_fd", "data", {"RDONLY"}), Dup2("out", "out_fd"), Set("count", 3), Call("sendfile"), Show("sent", "r"),
                Offset("in_fd", "now"), Show("file", "now"), Show("next", "offset"), Exit("0")>>])

-----------------------------------------------------------------------------
(* Descriptors and credentials passed through Unix domain sockets. *)

SOCK_PATH == "scm"

\* scm_functions.c:30-88 sendfd
sendfd(sockfd, fd) == [sendfd |-> <<On(Sendmsg(sockfd, 1, <<fd>>, ""), "notSent"), Set("r", 0), Return>>,
                       notSent |-> <<Set("r", -1), Return>>]

\* scm_functions.c:93-149 recvfd
recvfd(sockfd) == [recvfd |-> <<On(Recvmsg(sockfd, 1), "noFd"), IfNot("fdCnt", 1, "noFd"), Return>>,
                   noFd |-> <<Set("r", -1), Return>>]

\* external: a parent that opens a file for its child
opener == Program(<< >>, sendfd("s0", "fd") @@ recvfd("s1") @@
    [main |-> <<Socketpair("s0", "s1"), Fork("child"), Close("s1"), Open("fd", "data", {"RDONLY"}), Read("fd", 1), Call("sendfd"), IfLess("r", 0, "errExit"),
                Wait, Exit("0")>>,
     child |-> <<Close("s0"), Call("recvfd"), IfLess("r", 0, "errExit"), Read("fd1", 2), Show("buf", "buf"), UExit("0")>>])

\* The first half of the receivers: a bound datagram socket, or the first connection to a listening one.
receiver(useDatagramSocket) ==
    IF useDatagramSocket
    THEN unixBind("sfd", SOCK_PATH, "dgram") @@
         [main |-> <<On(Remove(SOCK_PATH), "absent"), Goto("bind")>>,
          absent |-> <<IfNot("e", "ENOENT", "errExit"), Goto("bind")>>,
          bind |-> <<Call("unixBind"), IfLess("r", 0, "errExit"), Goto("receive")>>]
    ELSE unixBind("lfd", SOCK_PATH, "stream") @@
         [main |-> <<On(Remove(SOCK_PATH), "absent"), Goto("bind")>>,
          absent |-> <<IfNot("e", "ENOENT", "errExit"), Goto("bind")>>,
          bind |-> <<Call("unixBind"), IfLess("r", 0, "errExit"), Listen("lfd", 5), Accept("lfd", "sfd"), Goto("receive")>>]

\* scm_rights_recv.c:34-169 main
scm_rights_recv(opts) == Program(<< >>, receiver("d" \in opts) @@
    [receive |-> <<Recvmsg("sfd", 1), Show("data", "r"), IfNot("fdCnt", 1, "errExit"), Goto("copy")>>,
     copy |-> <<Read("fd1", 2), If("r", 0, "end"), Try(WriteBuf("out")), Goto("copy")>>,
     end |-> <<Exit("0")>>])

\* Mutant: the descriptor is closed as soon as its number has been copied.
scm_rights_send_Early(opts) == Program(<< >>, unixConnect("sfd", SOCK_PATH, IF "d" \in opts THEN "dgram" ELSE "stream") @@
    [main |-> <<Open("fd", "data", {"RDONLY"}), Call("unixConnect"), IfLess("r", 0, "errExit"), Close("fd"),
                Open("fd", "other", {"RDONLY"}), Sendmsg("sfd", 1, <<"fd">>, ""), Close("fd"), Exit("0")>>])

\* scm_rights_send.c:32-142 main
scm_rights_send(opts) == Program(<< >>, unixConnect("sfd", SOCK_PATH, IF "d" \in opts THEN "dgram" ELSE "stream") @@
    [main |-> <<Open("fd", "data", {"RDONLY"}), Call("unixConnect"), IfLess("r", 0, "errExit"), Sendmsg("sfd", 1, <<"fd">>, ""),
                Close("fd"), Exit("0")>>])

\* scm_cred_recv.c:32-169 main
scm_cred_recv(opts) == Program(<< >>, receiver("d" \in opts) @@
    [receive |-> <<PassCred("sfd"), Recvmsg("sfd", 0), Show("data", "r"), If("cred", "", "errExit"), Show("cred", "cred"),
                   Sys("getsockopt"), Exit("0")>>])

\* scm_cred_send.c:32-167 main
scm_cred_send(opts) == Program(<< >>, unixConnect("sfd", SOCK_PATH, IF "d" \in opts THEN "dgram" ELSE "stream") @@
    [main |-> <<Call("unixConnect"), IfLess("r", 0, "errExit"), Sendmsg("sfd", 1, << >>, IF "n" \in opts THEN "" ELSE "sender"), Exit("0")>>])

\* scm_multi_recv.c:163-247 main: what came with the data
scm_multi_print ==
    [copy1 |-> <<Read("fd1", 2), If("r", 0, "close1"), Try(WriteBuf("out")), Goto("copy1")>>,
     close1 |-> <<Close("fd1"), If("fdCnt", 1, "creds"), Goto("copy2")>>,
     copy2 |-> <<Read("fd2", 2), If("r", 0, "close2"), Try(WriteBuf("out")), Goto("copy2")>>,
     close2 |-> <<Close("fd2"), Goto("creds")>>,
     creds |-> <<If("cred", "", "end"), Show("cred", "cred"), Exit("0")>>,
     end |-> <<Exit("0")>>]

\* scm_multi_recv.c:31-162 main
scm_multi_recv(opts, most) == Program(<< >>, receiver("d" \in opts) @@
    [receive |-> <<PassCred("sfd"), Recvmsg("sfd", most), Show("data", "r"), Show("truncated", "ctrunc"), If("fdCnt", 0, "creds"), Goto("copy1")>>]
    @@ scm_multi_print)

\* scm_multi_send.c:71-218 main
scm_multi_send(opts) == Program(<< >>, unixConnect("sfd", SOCK_PATH, IF "d" \in opts THEN "dgram" ELSE "stream") @@
    [main |-> <<Open("f1", "data", {"RDONLY"}), Open("f2", "other", {"RDONLY"}), Call("unixConnect"), IfLess("r", 0, "errExit"),
                Sendmsg("sfd", IF "n" \in opts THEN 0 ELSE 1, <<"f1", "f2">>, "sender"), Exit("0")>>])

-----------------------------------------------------------------------------
SocketTexts ==
    [is_echo_sv |-> is_echo_sv, is_echo_v2_sv |-> is_echo_v2_sv(FALSE), is_echo_v2_sv_i |-> is_echo_v2_sv(TRUE),
     is_echo_inetd_sv |-> is_echo_inetd_sv, inetd |-> inetd("is_echo_inetd_sv"), inetd2 |-> inetd("is_echo_v2_sv_i"), is_echo_cl |-> is_echo_cl,
     id_echo_sv |-> id_echo_sv, id_echo_cl |-> id_echo_cl, us_xfr_sv |-> us_xfr_sv, us_xfr_cl |-> us_xfr_cl,
     us_xfr_v2_sv |-> us_xfr_v2_sv, us_xfr_v2_cl |-> us_xfr_v2_cl, us_abstract_bind |-> us_abstract_bind,
     ud_ucase_sv |-> ud_ucase_sv, ud_ucase_cl |-> ud_ucase_cl(<<<<"a">>, <<"b", "b">>>>), ud_ucase_cl2 |-> ud_ucase_cl(<<<<"c">>, <<"c">>>>),
     i6d_ucase_sv |-> i6d_ucase_sv, i6d_ucase_cl |-> i6d_ucase_cl(<<<<"a">>, <<"b", "b", "b">>>>), socknames |-> socknames,
     is_seqnum_v2_sv |-> is_seqnum_v2_sv, is_seqnum_v2_cl |-> is_seqnum_v2_cl("2"), is_seqnum_v2_cl2 |-> is_seqnum_v2_cl("1"),
     printLines |-> printLines, printLinesBuf |-> printLinesBuf, exchange |-> exchange, sendsFile |-> sendsFile, opener |-> opener,
     scm_rights_recv |-> scm_rights_recv({}), scm_rights_recv_d |-> scm_rights_recv({"d"}),
     scm_rights_send |-> scm_rights_send({}), scm_rights_send_d |-> scm_rights_send({"d"}),
     scm_cred_recv |-> scm_cred_recv({}), scm_cred_recv_d |-> scm_cred_recv({"d"}), scm_cred_send |-> scm_cred_send({}),
     scm_cred_send_n |-> scm_cred_send({"n"}), scm_cred_send_d |-> scm_cred_send({"d"}),
     scm_multi_recv |-> scm_multi_recv({}, 2), scm_multi_recv_1 |-> scm_multi_recv({}, 1), scm_multi_recv_d |-> scm_multi_recv({"d"}, 2),
     scm_multi_send |-> scm_multi_send({}), scm_multi_send_n |-> scm_multi_send({"n"}), scm_multi_send_d |-> scm_multi_send({"d", "n"})]

Data == <<NewObj("file", "data", <<"a", "b", "c", "d">>, 0), NewObj("file", "other", <<"x">>, 0)>>
Alphabet == <<"a", "b", "c", "d", "e", "f", "g", "h">>

ScmScene(r, s) == ServingAt(With(Scene(<<r, s>>), Data), {<<r, "bind">>, <<r, "receive">>})

SocketScenes ==
    [x \in {"scm_rights", "scm_cred", "scm_multi"} |-> ScmScene(x \o "_recv", x \o "_send")] @@
    [us_abstract_bind |-> Scene(<<"us_abstract_bind", "us_abstract_bind">>), socknames |-> Scene(<<"socknames">>),
     scm_rights_d |-> ScmScene("scm_rights_recv_d", "scm_rights_send_d"),
     scm_cred_n |-> ScmScene("scm_cred_recv", "scm_cred_send_n"),
     scm_cred_d |-> ScmScene("scm_cred_recv_d", "scm_cred_send_d"),
     scm_multi_1 |-> ScmScene("scm_multi_recv_1", "scm_multi_send"),
     scm_multi_n |-> ScmScene("scm_multi_recv", "scm_multi_send_n"),
     scm_multi_d |-> ScmScene("scm_multi_recv_d", "scm_multi_send_d"),
     is_echo |-> ServingAt(WithInput(With(Sure(Scene(<<"is_echo_sv", "is_echo_cl">>)), <<Null("/dev/null")>>), Alphabet), {<<"is_echo_sv", "accept">>}),
     is_echo_v2 |-> ServingAt(WithInput(With(Sure(Scene(<<"is_echo_v2_sv", "is_echo_cl">>)), <<Null("/dev/null")>>), <<"a">>), {<<"is_echo_v2_sv", "accept">>}),
     inetd |-> ServingAt(WithInput(Scene(<<"inetd", "is_echo_cl">>), <<"a", "b", "c">>), {<<"inetd", "accept">>}),
     inetd2 |-> ServingAt(WithInput(Scene(<<"inetd2", "is_echo_cl">>), <<"a", "b", "c">>), {<<"inetd2", "accept">>}),
     id_echo |-> ServingAt(With(Scene(<<"id_echo_sv", "id_echo_cl">>), <<Null("/dev/null")>>), {<<"id_echo_sv", "serve">>}),
     us_xfr |-> ServingAt(WithInput(With(Scene(<<"us_xfr_sv", "us_xfr_cl", "us_xfr_cl">>), <<NewObj("sock", "/tmp/us_xfr", << >>, 0)>>), <<"a", "b", "c">>), {<<"us_xfr_sv", "accept">>}),
     us_xfr_v2 |-> ServingAt(WithInput(Scene(<<"us_xfr_v2_sv", "us_xfr_v2_cl">>), <<"a", "b", "c">>), {<<"us_xfr_v2_sv", "accept">>}),
     ud_ucase |-> ServingAt(WithSignals(Sure(Scene(<<"ud_ucase_sv", "ud_ucase_cl", "ud_ucase_cl2">>)), 3, [KILL |-> 1]), {<<"ud_ucase_sv", "serve">>}),
     i6d_ucase |-> ServingAt(Scene(<<"i6d_ucase_sv", "i6d_ucase_cl">>), {<<"i6d_ucase_sv", "serve">>}),
     is_seqnum_v2 |-> ServingAt(Sure(Scene(<<"is_seqnum_v2_sv", "is_seqnum_v2_cl", "is_seqnum_v2_cl2">>)), {<<"is_seqnum_v2_sv", "serve">>}),
     printLines |-> WithInput(Scene(<<"printLines">>), <<"a", "b", "c", "\n", "\n", "d">>),
     printLinesBuf |-> WithInput(Scene(<<"printLinesBuf">>), <<"a", "b", "c", "\n", "\n", "d">>),
     exchange |-> WithSignals(Scene(<<"exchange">>), 1, [INT |-> 1]),
     sendsFile |-> With(Scene(<<"sendsFile">>), Data), opener |-> With(Scene(<<"opener">>), Data)]
=============================================================================
