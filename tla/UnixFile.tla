------------------------------ MODULE UnixFile ------------------------------
(***************************************************************************)
(* Descriptors, pipes, files and stdio.                                    *)
(***************************************************************************)
EXTENDS UnixState

\* external: pipe()
PipeIt(p) ==
    /\ obj' = Append(obj, NewObj("pipe", "", << >>, 3))
    /\ LET o == Len(obj) + 1  k == Len(file) + 1 IN
       /\ file' = file \o <<NewFile(o, 0), NewFile(0, o)>>
       /\ proc' = PutFiles(Becomes(p, Result(proc[p], 0)), p, (A(p) :> k) @@ (B(p) :> k + 1) @@ proc[p].files)
    /\ UNCHANGED <<scene, left>>

CloseIt(p) ==
    /\ LET F == proc[p].files IN
       IF Has(p, A(p))
       THEN Only(PutFiles(Becomes(p, Result(proc[p], 0)), p, [f \in DOMAIN F \ {A(p)} |-> F[f]]))
       ELSE Only(Becomes(p, Error(proc[p], "EBADF")))

CloseAllIt(p) == Only(PutFiles(Becomes(p, Skip(proc[p])), p, << >>))

Dup2It(p) ==
    /\ LET F == proc[p].files IN
       IF Has(p, A(p))
       THEN Only(PutFiles(Becomes(p, Result(proc[p], 0)), p, (B(p) :> F[A(p)]) @@ F))
       ELSE Only(Becomes(p, Error(proc[p], "EBADF")))

\* external: open(), mkstemp(): the description is new, the file may be there already
OpenIt(p) ==
    /\ ~ proc[p].blk
    /\ LET there == {o \in DOMAIN obj : obj[o].name = B(p).name}
           F == B(p).flags
           o == IF there = {} THEN Len(obj) + 1 ELSE CHOOSE x \in there : TRUE
           new == [NewFile(IF "WRONLY" \in F THEN 0 ELSE o, IF "RDONLY" \in F THEN 0 ELSE o)
                    EXCEPT !.app = "APPEND" \in F, !.nb = "NONBLOCK" \in F,
                           !.met = there = {} \/ Writers(o) # {}]
           waits == /\ there # {} /\ "NONBLOCK" \notin F /\ obj[o].kind = "pipe"
                    /\ IF "RDONLY" \in F THEN Writers(o) = {} ELSE Readers(o) = {}
       IN  IF B(p).name = "/dev/tty" /\ proc[p].sid # (IF Scenes[scene].login THEN 1 ELSE 0)
           THEN Only(Becomes(p, Error(proc[p], "ENXIO")))
           ELSE IF there = {} /\ "CREAT" \notin F THEN Only(Becomes(p, Error(proc[p], "ENOENT")))
           ELSE IF there # {} /\ "EXCL" \in F THEN Only(Becomes(p, Error(proc[p], "EEXIST")))
           ELSE IF there # {} /\ obj[o].kind = "pipe" /\ F = {"WRONLY", "NONBLOCK"} /\ Readers(o) = {}
           THEN Only(Becomes(p, Error(proc[p], "ENXIO")))
           ELSE /\ obj' = IF there = {} THEN Append(obj, NewObj("file", B(p).name, << >>, 0))
                          ELSE [obj EXCEPT ![o].buf = IF "TRUNC" \in F THEN << >> ELSE @]
                /\ file' = Append(file, new)
                /\ proc' = PutFiles(IF waits THEN [proc EXCEPT ![p].blk = TRUE] ELSE Becomes(p, Result(proc[p], 0)),
                                    p, (A(p) :> Len(file) + 1) @@ proc[p].files)
                /\ UNCHANGED <<scene, left>>

\* external: the open of one end of a FIFO waits until the other end is opened
Met(p) == LET k == proc[p].files[A(p)]
              peer(j) == IF file[k].wr = 0 THEN file[j].wr = file[k].rd ELSE file[j].rd = file[k].wr
          IN  \E j \in (k + 1)..Len(file) : peer(j)
MeetIt(p) ==
    /\ proc[p].blk /\ Met(p)
    /\ Only(Becomes(p, Result(proc[p], 0)))

\* external: offset and status flags belong to the open file description, FD_CLOEXEC to the descriptor
FcntlIt(p) ==
    /\ LET k == proc[p].files[A(p)] IN
       /\ proc' = Becomes(p, CASE Is(p, "cloexec") -> Skip([proc[p] EXCEPT !.cx = @ \cup {A(p)}])
                               [] Is(p, "offset") -> Let(Skip(proc[p]), B(p), file[k].off)
                               [] Is(p, "flags") -> Let(Skip(proc[p]), B(p), file[k].app)
                               [] OTHER -> Skip(proc[p]))
       /\ file' = CASE Is(p, "lseek") -> [file EXCEPT ![k].off = B(p)]
                    [] Is(p, "seekto") -> [file EXCEPT ![k].off = Get(proc[p], B(p))]
                    [] Is(p, "append") -> [file EXCEPT ![k].app = TRUE]
                    [] Is(p, "nonblock") -> [file EXCEPT ![k].nb = TRUE]
                    [] Is(p, "async") -> [file EXCEPT ![k].own = p]
                    [] OTHER -> file
       /\ UNCHANGED <<scene, obj, left>>

\* external: read() takes what is there, up to n items; "buf" holds what was read
Most(p) == IF B(p).v = "" THEN B(p).n ELSE Get(proc[p], B(p).v)
ReadIt(p) ==
    /\ Has(p, A(p))
    /\ LET k == proc[p].files[A(p)]
           o == file[k].rd
           there == Unread(k)
           most == Most(p)
           n == IF Len(there) < most THEN Len(there) ELSE most
       IN  IF CanRead(k) \/ most = 0
           THEN /\ proc' = Becomes(p, Let(Result(proc[p], n), "buf", SubSeq(there, 1, n)))
                /\ file' = IF obj[o].kind = "file" THEN [file EXCEPT ![k].off = @ + n] ELSE file
                /\ obj' = IF obj[o].kind = "file" THEN obj ELSE [obj EXCEPT ![o].buf = SubSeq(@, n + 1, Len(@))]
                /\ UNCHANGED <<scene, left>>
           ELSE file[k].nb /\ Only(Becomes(p, Error(proc[p], "EAGAIN")))

\* external: write() of a few items, which a pipe takes all together or not at all; fflush()
\* writes what stdio has kept
Output(p) == CASE Is(p, "write") -> B(p)
               [] Is(p, "writeline") -> <<Get(proc[p], B(p)), "\n">>
               [] Is(p, "writebuf") -> Get(proc[p], "buf")
               [] OTHER -> Stdio(proc[p])
WriteIt(p) ==
    /\ Has(p, A(p))
    /\ LET q == proc[p]
           data == Output(p)
           k == q.files[A(p)]
           o == file[k].wr
           at == IF file[k].app THEN Len(obj[o].buf) ELSE file[k].off
           done == IF Is(p, "fflush") THEN Let(Skip(q), "stdio", << >>) ELSE Result(q, Len(data))
       IN  IF obj[o].kind = "pipe" /\ Readers(o) = {}
           THEN Only(Post(Becomes(p, Error(q, "EPIPE")), p, "PIPE"))
           ELSE IF Room(k, Len(data))
           THEN /\ proc' = PostAll(Becomes(p, done), Owners(o), "IO")
                /\ obj' = Roused([obj EXCEPT ![o].buf = CASE obj[o].kind = "file" -> Overwrite(@, at, data) [] obj[o].kind = "null" -> @ [] OTHER -> @ \o data], o)
                /\ file' = IF obj[o].kind = "file" THEN [file EXCEPT ![k].off = at + Len(data)] ELSE file
                /\ UNCHANGED <<scene, left>>
           ELSE file[k].nb /\ Only(Becomes(p, Error(q, "EAGAIN")))

\* external: write() may take only a part of the data; what is left of "buf" remains there
WriteSomeIt(p) ==
    /\ LET q == proc[p]
           data == Get(q, "buf")
           k == q.files[A(p)]
           o == file[k].wr
       IN  IF obj[o].kind = "pipe" /\ Readers(o) = {} THEN Only(Post(Becomes(p, Error(q, "EPIPE")), p, "PIPE"))
           ELSE \E n \in 1..Len(data) :
                /\ Room(k, n)
                /\ proc' = Becomes(p, Let(Result(q, n), "buf", SubSeq(data, n + 1, Len(data))))
                /\ obj' = Roused([obj EXCEPT ![o].buf = @ \o SubSeq(data, 1, n)], o)
                /\ UNCHANGED <<scene, file, left>>

BadDescriptor(p) == /\ ~ Has(p, A(p))
                    /\ Only(Becomes(p, Error(proc[p], "EBADF")))

\* external: select() and poll() report the descriptors that can be read or written
SelectIt(p) ==
    /\ LET ready == {f \in A(p) : Pollable(proc[p].files[f])}
           room == {f \in B(p).W : Room(proc[p].files[f], 1)}
       IN  /\ ready \cup room # {} \/ B(p).timeout
           /\ Only(Becomes(p, Let(Let(Result(proc[p], Cardinality(ready) + Cardinality(room)),
                                     B(p).ready, ready), B(p).room, room)))

\* external: an epoll instance watches open file descriptions; EPOLLET reports new events only,
\* EPOLLONESHOT the first one only
EpollMakeIt(p) ==
    \/ /\ Is(p, "epoll_create")
       /\ obj' = Append(obj, NewObj("epoll", "", << >>, 0))
       /\ file' = Append(file, NewFile(Len(obj) + 1, 0))
       /\ proc' = PutFiles(Becomes(p, Result(proc[p], 0)), p, (A(p) :> Len(file) + 1) @@ proc[p].files)
       /\ UNCHANGED <<scene, left>>
    \/ /\ Is(p, "epoll_add")
       /\ LET k == proc[p].files[B(p).fd] IN
          obj' = [obj EXCEPT ![file[proc[p].files[A(p)]].rd].reg =
                    (k :> [fd |-> B(p).fd, flags |-> B(p).flags, edge |-> Pollable(k), hup |-> FALSE, on |-> TRUE]) @@ @]
       /\ proc' = Becomes(p, Result(proc[p], 0))
       /\ UNCHANGED <<scene, file, left>>
Events(o) == {k \in DOMAIN obj[o].reg \cap OpenFiles :
                LET r == obj[o].reg[k]
                IN  r.on /\ IF "ET" \in r.flags THEN r.edge \/ (Hung(k) /\ ~ r.hup) ELSE Pollable(k)}
Reported(r, k) == [r EXCEPT !.edge = FALSE, !.hup = Hung(k), !.on = "ONESHOT" \notin r.flags]
EpollWaitIt(p) ==
    /\ LET o == file[proc[p].files[A(p)]].rd
           found == Events(o)
       IN  /\ found # {}
           /\ proc' = Becomes(p, Let(Let(Result(proc[p], Cardinality(found)), B(p), {obj[o].reg[k].fd : k \in found}),
                                     "hup", {obj[o].reg[k].fd : k \in {j \in found : Unread(j) = << >>}}))
           /\ obj' = [obj EXCEPT ![o].reg = [k \in DOMAIN @ |-> IF k \in found THEN Reported(@[k], k) ELSE @[k]]]
    /\ UNCHANGED <<scene, file, left>>

-----------------------------------------------------------------------------
\* external: tcgetattr(), tcsetattr() on the controlling terminal
TermiosIt(p) ==
    \/ Is(p, "tcgetattr") /\ Only(Becomes(p, Let(Result(proc[p], 0), A(p), obj[2].at)))
    \/ /\ Is(p, "tcsetattr")
       /\ obj' = [obj EXCEPT ![2].at = Get(proc[p], A(p))]
       /\ proc' = Becomes(p, Result(proc[p], 0))
       /\ UNCHANGED <<scene, file, left>>

\* external: a pseudoterminal is two streams; the master sees an end of file when the slave
\* has been opened and closed again
PtyIt(p) ==
    \/ /\ Is(p, "openpt")
       /\ obj' = obj \o <<NewObj("fresh", "pts", << >>, 3), NewObj("fresh", "ptm", << >>, 3)>>
       /\ file' = Append(file, NewFile(Len(obj) + 2, Len(obj) + 1))
       /\ proc' = PutFiles(Becomes(p, Result(proc[p], 0)), p, (A(p) :> Len(file) + 1) @@ proc[p].files)
       /\ UNCHANGED <<scene, left>>
    \/ /\ Is(p, "openslave")
       /\ LET o == CHOOSE x \in DOMAIN obj : obj[x].name = "pts" IN
          /\ obj' = [obj EXCEPT ![o].kind = "pty", ![o + 1].kind = "pty"]
          /\ file' = Append(file, NewFile(o, o + 1))
       /\ proc' = PutFiles(Becomes(p, Result(proc[p], 0)), p, (A(p) :> Len(file) + 1) @@ proc[p].files)
       /\ UNCHANGED <<scene, left>>

FileOps == {"pipe", "close", "closeall", "dup2", "open", "cloexec", "offset", "flags", "lseek", "seekto", "append", "nonblock", "async",
            "read", "write", "writeline", "writebuf", "writesome", "fflush", "select", "epoll_create", "epoll_add", "epoll_wait",
            "tcgetattr", "tcsetattr", "openpt", "openslave"}
FileCall(p, op) ==
    \/ op \in {"tcgetattr", "tcsetattr"} /\ TermiosIt(p)
    \/ op \in {"openpt", "openslave"} /\ PtyIt(p)
    \/ op = "pipe" /\ PipeIt(p)
    \/ op = "close" /\ CloseIt(p)
    \/ op = "closeall" /\ CloseAllIt(p)
    \/ op = "dup2" /\ Dup2It(p)
    \/ op = "open" /\ OpenIt(p)
    \/ op = "open" /\ MeetIt(p)
    \/ op \in {"cloexec", "offset", "flags", "lseek", "seekto", "append", "nonblock", "async"} /\ FcntlIt(p)
    \/ op = "read" /\ ReadIt(p)
    \/ op \in {"write", "writeline", "writebuf", "fflush"} /\ WriteIt(p)
    \/ op = "writesome" /\ WriteSomeIt(p)
    \/ op \in {"read", "write", "writeline", "writebuf", "fflush"} /\ BadDescriptor(p)
    \/ op = "select" /\ SelectIt(p)
    \/ op \in {"epoll_create", "epoll_add"} /\ EpollMakeIt(p)
    \/ op = "epoll_wait" /\ EpollWaitIt(p)
=============================================================================
