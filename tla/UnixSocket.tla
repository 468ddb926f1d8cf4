----------------------------- MODULE UnixSocket -----------------------------
(***************************************************************************)
(* Sockets.  A stream connection is two pipes, one for each direction; a   *)
(* listening socket has a queue of the server's ends of connections.  A    *)
(* datagram socket has a queue of datagrams.                               *)
(***************************************************************************)
EXTENDS UnixState

\* external: socket(); a datagram socket has a name of its own from the start
PrivateName == <<"cl1", "cl2", "cl3", "cl4", "cl5", "cl6", "cl7">>
SocketIt(p) ==
    /\ obj' = Append(obj, NewObj(IF B(p) = "stream" THEN "sock" ELSE B(p), IF B(p) = "udp" THEN PrivateName[p] ELSE "", << >>, 2))
    /\ file' = Append(file, NewFile(Len(obj) + 1, 0))
    /\ proc' = PutFiles(Becomes(p, Result(proc[p], 0)), p, (A(p) :> Len(file) + 1) @@ proc[p].files)
    /\ UNCHANGED <<scene, left>>

\* external: socketpair()
SocketpairIt(p) ==
    /\ obj' = obj \o <<NewObj("pipe", "", << >>, 3), NewObj("pipe", "", << >>, 3)>>
    /\ LET o == Len(obj) + 1  k == Len(file) + 1 IN
       /\ file' = file \o <<NewFile(o, o + 1), NewFile(o + 1, o)>>
       /\ proc' = PutFiles(Becomes(p, Result(proc[p], 0)), p, (A(p) :> k) @@ (B(p) :> k + 1) @@ proc[p].files)
    /\ UNCHANGED <<scene, left>>

\* external: bind(); a path is taken until it is removed, a port while a socket is bound to it; remove()
Opened(o) == \E k \in OpenFiles : file[k].rd = o
BindIt(p) ==
    /\ LET name == IF B(p).name = "self" THEN PrivateName[p] ELSE B(p).name
           o == file[proc[p].files[A(p)]].rd
           taken == {x \in DOMAIN obj : obj[x].name = name /\ (B(p).path \/ Opened(x))}
       IN  IF taken # {} THEN Only(Becomes(p, Error(proc[p], "EADDRINUSE")))
           ELSE /\ obj' = [obj EXCEPT ![o].name = name]
                /\ proc' = Becomes(p, Result(proc[p], 0))
                /\ UNCHANGED <<scene, file, left>>
RemoveIt(p) ==
    /\ LET name == IF A(p) = "self" THEN PrivateName[p] ELSE A(p)
           there == {x \in DOMAIN obj : obj[x].name = name}
       IN  IF there = {} THEN Only(Becomes(p, Error(proc[p], "ENOENT")))
           ELSE /\ obj' = [o \in DOMAIN obj |-> IF o \in there THEN [obj[o] EXCEPT !.name = ""] ELSE obj[o]]
                /\ proc' = Becomes(p, Result(proc[p], 0))
                /\ UNCHANGED <<scene, file, left>>

\* external: listen(), connect(), accept()
ListenIt(p) ==
    /\ obj' = [obj EXCEPT ![file[proc[p].files[A(p)]].rd].kind = "listen", ![file[proc[p].files[A(p)]].rd].cap = B(p)]
    /\ proc' = Becomes(p, Result(proc[p], 0))
    /\ UNCHANGED <<scene, file, left>>
Listeners(name) == {o \in DOMAIN obj : obj[o].name = name /\ obj[o].kind \in {"listen", "dgram", "udp"} /\ Opened(o)}
ConnectIt(p) ==
    /\ LET own == proc[p].files[A(p)]
           L == Listeners(B(p))
           o == CHOOSE x \in L : TRUE
           n == Len(obj)  k == Len(file)
       IN  IF obj[file[own].rd].kind \in {"dgram", "udp"}
           THEN IF L = {} /\ obj[file[own].rd].kind = "dgram" THEN Only(Becomes(p, Error(proc[p], "ECONNREFUSED")))
                ELSE /\ obj' = [obj EXCEPT ![file[own].rd].at = {B(p)}]
                     /\ proc' = Becomes(p, Result(proc[p], 0))
                     /\ UNCHANGED <<scene, file, left>>
           ELSE IF L = {} THEN Only(Becomes(p, Error(proc[p], "ECONNREFUSED")))
           ELSE /\ Len(obj[o].buf) < obj[o].cap
                /\ obj' = [obj EXCEPT ![o].buf = Append(@, k + 1), ![o].held = @ \cup {k + 1}]
                            \o <<NewObj("pipe", "", << >>, 3), NewObj("pipe", "", << >>, 3)>>
                /\ file' = Append([file EXCEPT ![own].rd = n + 1, ![own].wr = n + 2], NewFile(n + 2, n + 1))
                /\ proc' = Becomes(p, Result(proc[p], 0))
                /\ UNCHANGED <<scene, left>>
\* A descriptor that the program loses track of stays open, under a name of its own.
Kept(p, f) == IF Has(p, f) THEN f \o ToString(Len(file)) :> proc[p].files[f] ELSE << >>
AcceptIt(p) ==
    /\ LET k == proc[p].files[A(p)]  o == file[k].rd IN
       \/ /\ obj[o].buf # << >>
          /\ obj' = [obj EXCEPT ![o].buf = Tail(@), ![o].held = @ \ {Head(obj[o].buf)}]
          /\ proc' = PutFiles(Becomes(p, Result(proc[p], 0)), p, (B(p) :> Head(obj[o].buf)) @@ Kept(p, B(p)) @@ proc[p].files)
          /\ UNCHANGED <<scene, file, left>>
       \/ obj[o].buf = << >> /\ file[k].nb /\ Only(Becomes(p, Error(proc[p], "EAGAIN")))

\* external: shutdown(fd, SHUT_WR)
ShutdownIt(p) ==
    /\ file' = [file EXCEPT ![proc[p].files[A(p)]].wr = 0]
    /\ proc' = Becomes(p, Result(proc[p], 0))
    /\ UNCHANGED <<scene, obj, left>>

-----------------------------------------------------------------------------
\* external: sendto(): a Unix domain datagram waits for room and needs the receiver, one on the
\* network may be lost
Targets(p) ==
    LET own == obj[file[proc[p].files[A(p)]].rd]
        to == CASE B(p).to = "" -> CHOOSE x \in own.at : TRUE
                [] B(p).to = "from" -> Get(proc[p], "from")
                [] OTHER -> B(p).to
    IN  {o \in DOMAIN obj : obj[o].name = to /\ obj[o].kind = own.kind /\ Opened(o)}
SendtoIt(p) ==
    /\ LET own == obj[file[proc[p].files[A(p)]].rd]
           data == IF B(p).data = << >> THEN Get(proc[p], "buf") ELSE B(p).data
           T == Targets(p)
           done == Becomes(p, Result(proc[p], Len(data)))
       IN  \/ /\ T # {}
              /\ \A o \in T : Len(obj[o].buf) < obj[o].cap
              /\ obj' = [o \in DOMAIN obj |-> IF o \in T THEN [obj[o] EXCEPT !.buf = Append(@, [from |-> own.name, data |-> data])] ELSE obj[o]]
              /\ proc' = done
              /\ UNCHANGED <<scene, file, left>>
           \/ /\ own.kind = "udp" /\ (T = {} \/ left.faults > 0)
              /\ proc' = done
              /\ left' = [left EXCEPT !.faults = 0]
              /\ UNCHANGED <<scene, file, obj>>
           \/ own.kind = "dgram" /\ T = {} /\ Only(Becomes(p, Error(proc[p], "ECONNREFUSED")))
RecvfromIt(p) ==
    /\ LET o == file[proc[p].files[A(p)]].rd  d == Head(obj[o].buf)  n == IF Len(d.data) < B(p) THEN Len(d.data) ELSE B(p) IN
       /\ obj[o].buf # << >>
       /\ obj' = [obj EXCEPT ![o].buf = Tail(@)]
       /\ proc' = Becomes(p, Let(Let(Result(proc[p], n), "buf", SubSeq(d.data, 1, n)), "from", d.from))
       /\ UNCHANGED <<scene, file, left>>

-----------------------------------------------------------------------------
\* external: sendmsg() and recvmsg() with ancillary data.  A stream carries ancillary data only
\* with a byte of real data.  Descriptors on their way keep their files open; credentials are
\* attached if given, or if the receiver wants them or has not accepted the connection yet.
SendmsgIt(p) ==
    /\ LET k == proc[p].files[A(p)]
           stream == file[k].wr # 0
           T == IF stream THEN {file[k].wr}
                ELSE {o \in DOMAIN obj : obj[o].name \in obj[file[k].rd].at /\ obj[o].kind = "dgram" /\ Opened(o)}
           o == CHOOSE x \in T : TRUE
           fds == [j \in DOMAIN B(p).fds |-> proc[p].files[B(p).fds[j]]]
           wanted == \E j \in OpenFiles : file[j].rd = o /\ (file[j].pass \/ j \in Held)
           cred == IF B(p).cred # "" THEN B(p).cred ELSE IF wanted THEN "sender" ELSE "nobody"
           msg == [n |-> B(p).n, fds |-> fds, cred |-> cred]
       IN  IF T = {} \/ (stream /\ Readers(o) = {}) THEN Only(Becomes(p, Error(proc[p], "EPIPE")))
           ELSE /\ obj' = IF stream /\ B(p).n = 0 THEN obj
                          ELSE [obj EXCEPT ![o].buf = Append(@, msg), ![o].held = @ \cup {fds[j] : j \in DOMAIN fds}]
                /\ proc' = Becomes(p, Result(proc[p], B(p).n))
                /\ UNCHANGED <<scene, file, left>>
RecvmsgIt(p) ==
    /\ LET k == proc[p].files[A(p)]
           o == file[k].rd
           m == Head(obj[o].buf)
           n == IF Len(m.fds) < B(p) THEN Len(m.fds) ELSE B(p)
           name == <<"fd1", "fd2">>
           got == [f \in {name[j] : j \in 1..n} |-> m.fds[CHOOSE j \in 1..n : name[j] = f]]
           q == Let(Let(Let(Result(proc[p], m.n), "fdCnt", n), "cred", IF file[k].pass THEN m.cred ELSE ""), "ctrunc", Len(m.fds) > n)
       IN  \/ /\ obj[o].buf # << >>
              /\ obj' = [obj EXCEPT ![o].buf = Tail(@), ![o].held = @ \ {m.fds[j] : j \in DOMAIN m.fds}]
              /\ proc' = PutFiles(Becomes(p, q), p, got @@ proc[p].files)
              /\ UNCHANGED <<scene, file, left>>
           \/ /\ obj[o].buf = << >> /\ obj[o].kind = "pipe" /\ Writers(o) = {}
              /\ Only(Becomes(p, Let(Let(Let(Result(proc[p], 0), "fdCnt", 0), "cred", ""), "ctrunc", FALSE)))
PassCredIt(p) ==
    /\ file' = [file EXCEPT ![proc[p].files[A(p)]].pass = TRUE]
    /\ proc' = Becomes(p, Result(proc[p], 0))
    /\ UNCHANGED <<scene, obj, left>>

SocketOps == {"socket", "socketpair", "bind", "remove", "listen", "connect", "accept", "shutdown", "sendto", "recvfrom",
              "sendmsg", "recvmsg", "passcred"}
SocketCall(p, op) ==
    \/ op = "socket" /\ SocketIt(p)
    \/ op = "socketpair" /\ SocketpairIt(p)
    \/ op = "bind" /\ BindIt(p)
    \/ op = "remove" /\ RemoveIt(p)
    \/ op = "listen" /\ ListenIt(p)
    \/ op = "connect" /\ ConnectIt(p)
    \/ op = "accept" /\ AcceptIt(p)
    \/ op = "shutdown" /\ ShutdownIt(p)
    \/ op = "sendto" /\ SendtoIt(p)
    \/ op = "recvfrom" /\ RecvfromIt(p)
    \/ op = "sendmsg" /\ SendmsgIt(p)
    \/ op = "recvmsg" /\ RecvmsgIt(p)
    \/ op = "passcred" /\ PassCredIt(p)
=============================================================================
