------------------------------ MODULE UnixCode ------------------------------
(***************************************************************************)
(* The notation in which programs are written down for module Unix.  A     *)
(* program is a record of blocks, one per function, loop or branch of the  *)
(* C text; a block is a sequence of instructions.  An instruction is one   *)
(* system call, or one step of local control.  A system call that fails    *)
(* goes to `on': "errExit" stands for the macro (or function) of that name *)
(* that ends the process with a failure, "next" for code that goes on, and *)
(* any other label for the block that handles the error.                   *)
(***************************************************************************)
EXTENDS Integers, Sequences, TLC

Op(op, a, b) == [op |-> op, a |-> a, b |-> b, on |-> "errExit"]
On(ins, label) == [ins EXCEPT !.on = label]
Try(ins) == On(ins, "next")

(* Local control.  The result of a call is in the variable "r", errno in   *)
(* "e".  Loop is a jump back in a loop that the program never leaves by    *)
(* itself; the scene bounds how often it is taken.                         *)
Set(v, k) == Op("set", v, k)
Add(v, k) == Op("add", v, k)
Copy(v, w) == Op("copy", v, w)
Choose(v, S) == Op("choose", v, S)
IfIn(v, S, label) == On(Op("if", v, S), label)
If(v, k, label) == IfIn(v, {k}, label)
IfNot(v, k, label) == On(Op("ifnot", v, {k}), label)
IfLess(v, k, label) == On(Op("ifless", v, k), label)
Map(v, f) == Op("map", v, f)
Item(v, w, k) == Op("item", v, [of |-> w, k |-> k])
Itoa(v, w) == Op("itoa", v, w)
Atoi(v, w) == Op("atoi", v, w)
Push(v, w) == Op("push", v, w)
Pop(v, w) == Op("pop", v, w)
Minus(v, w) == Op("minus", v, w)
Plus(v, w) == Op("plus", v, w)
Prefix(v, w) == Op("prefix", v, w)
With1(v, S) == Op("with", v, S)
Without1(v, S) == Op("without", v, S)
IfHas(v, x, label) == On(Op("ifhas", v, x), label)
Goto(label) == Op("goto", label, 0)
Loop(label) == Op("loop", label, 0)
Call(label) == Op("call", label, 0)
Return == Op("return", 0, 0)
Say(x) == Op("say", x, "")
Show(x, v) == Op("say", x, v)

(* Processes. *)
Clone(label, flags, sig) == Op("clone", label, [flags |-> flags, sig |-> sig])
Fork(label) == Clone(label, {}, "CHLD")
VFork(label) == Clone(label, {"VM", "VFORK"}, "CHLD")
Thread(label) == Clone(label, {"VM", "FILES", "FS", "SIGHAND", "THREAD"}, "none")
Exec(program) == Op("exec", program, << >>)
ExecWith(program, env) == Op("exec", program, env)
Exit(status) == Op("exit", status, 0)
UExit(status) == Op("_exit", status, 0)
Atexit(label) == Op("atexit", label, 0)
ThreadExit == Op("thread_exit", "0", 0)
Join(v) == Op("join", v, 0)
Wait == Op("wait", "any", {})
WaitPid(v, opts) == Op("wait", v, opts)
Getppid(v) == Op("getppid", v, 0)
Getpid(v) == Op("getpid", v, 0)
Status(v, w) == Op("status", v, w)
Prctl(what, k) == Op("prctl", what, k)
Setpgid == Op("setpgid", 0, 0)
Setsid == Op("setsid", 0, 0)
Fs(what, k) == Op("fs", what, k)
ResetFs(what, v) == Op("resetfs", what, v)
GetFs(what, v) == Op("getfs", what, v)

(* Signals. *)
AllSignals == {"HUP", "INT", "QUIT", "TERM", "CHLD", "USR1", "ALRM", "IO", "TSTP", "CONT", "RT1", "RT2"}
Sigaction(sig, h, flags) == Op("sigaction", sig, [h |-> h, flags |-> flags])
Signal(sig, h) == Sigaction(sig, h, {"RESTART"})
SaveAction(sig, v) == Op("saveaction", sig, v)
RestoreAction(sig, v) == Op("restoreaction", sig, v)
Block(S) == Op("block", S, 0)
Unblock(S) == Op("unblock", S, 0)
SetMask(S) == Op("setmask", S, 0)
SaveMask(v) == Op("savemask", v, 0)
RestoreMask(v) == Op("restoremask", v, 0)
Sigpending(sig, v) == Op("sigpending", sig, v)
Kill(v, sig) == Op("kill", v, sig)
Killpg(v, sig) == Op("killpg", v, sig)
Pause == Try(Op("pause", 0, 0))
Sigsuspend(S) == Try(Op("sigsuspend", S, 0))
Sigwait(S, v) == Op("sigwait", S, v)
Alarm(on) == Op("alarm", on, 0)
Longjmp(label, how) == Op("longjmp", label, how)
Trap(sig, how) == Op("trap", sig, how)
Ignore == [h |-> "ign", flags |-> {}]
Sleep == Try(Op("sleep", 0, 0))

(* Descriptors: a descriptor is named by the variable or constant that     *)
(* holds it.                                                               *)
Pipe(r, w) == Op("pipe", r, w)
Open(f, name, flags) == Op("open", f, [name |-> name, flags |-> flags])
Close(f) == Op("close", f, 0)
CloseAll == Op("closeall", 0, 0)
Dup2(f, g) == Op("dup2", f, g)
Cloexec(f) == Op("cloexec", f, 0)
Nonblock(f) == Op("nonblock", f, 0)
Append0(f) == Op("append", f, 0)
Lseek(f, n) == Op("lseek", f, n)
SeekTo(f, v) == Op("seekto", f, v)
Offset(f, v) == Op("offset", f, v)
Flags(f, v) == Op("flags", f, v)
Read(f, n) == Op("read", f, [n |-> n, v |-> ""])
ReadN(f, v) == Op("read", f, [n |-> 0, v |-> v])
Write(f, data) == Op("write", f, data)
WriteLine(f, v) == Op("writeline", f, v)
WriteSome(f) == Op("writesome", f, 0)
WriteBuf(f) == Op("writebuf", f, 0)
Select(F, v) == Op("select", F, [W |-> {}, ready |-> v, room |-> "room", timeout |-> FALSE])
SelectFor(F, v) == Op("select", F, [W |-> {}, ready |-> v, room |-> "room", timeout |-> TRUE])
SelectRW(F, W, v, w, timeout) == Op("select", F, [W |-> W, ready |-> v, room |-> w, timeout |-> timeout])
Async(f) == Op("async", f, 0)
EpollCreate(f) == Op("epoll_create", f, 0)
EpollAdd(f, g, flags) == Op("epoll_add", f, [fd |-> g, flags |-> flags])
EpollWait(f, v) == Op("epoll_wait", f, v)
Printf(x) == Op("printf", x, 0)
Fflush == Op("fflush", "out", 0)

(* Terminals: the settings are a set of flags. *)
Tcgetattr(v) == Op("tcgetattr", v, 0)
Tcsetattr(v) == Op("tcsetattr", v, 0)
OpenMaster(f) == Op("openpt", f, 0)
OpenSlave(f) == Op("openslave", f, 0)

(* A call that changes nothing that is modelled, and may fail. *)
Sys(name) == Op("sys", name, 0)

(* Namespaces and credentials. *)
Unshare(flags) == Op("unshare", flags, 0)
Sethostname(name) == Op("sethost", name, 0)
Hostname(v) == Op("gethost", v, 0)
OpenNs(f, v) == Op("openns", f, v)
Setns(f, kind) == Op("setns", f, kind)
Setid(what, v) == Op("setid", what, v)
Setcap(what, k) == Op("setcap", what, k)
Getcred(what, v) == Op("getcred", what, v)

(* Sockets. *)
Socket(f, type) == Op("socket", f, type)
Socketpair(f, g) == Op("socketpair", f, g)
Bind(f, name) == Op("bind", f, [name |-> name, path |-> FALSE])
BindPath(f, name) == Op("bind", f, [name |-> name, path |-> TRUE])
Remove(name) == Op("remove", name, 0)
Listen(f, backlog) == Op("listen", f, backlog)
Connect(f, name) == Op("connect", f, name)
Accept(f, g) == Op("accept", f, g)
Shutdown(f) == Op("shutdown", f, 0)
Sendto(f, name, data) == Op("sendto", f, [to |-> name, data |-> data])
Send(f, data) == Sendto(f, "", data)
Reply(f) == Sendto(f, "from", << >>)
Recvfrom(f, n) == Op("recvfrom", f, n)
Sendmsg(f, n, fds, cred) == Op("sendmsg", f, [n |-> n, fds |-> fds, cred |-> cred])
Recvmsg(f, most) == Op("recvmsg", f, most)
PassCred(f) == Op("passcred", f, 0)

(* IPC objects: an identifier is a descriptor, or the name of an object. *)
Get0(id, kind, name, init, flags) == Op("get", id, [kind |-> kind, name |-> name, init |-> init, flags |-> flags])
Rmid(id) == Op("rmid", id, 0)
Msgget(id, key, flags) == Get0(id, "msgq", key, << >>, flags)
Msgsnd(id, msg) == Op("msgsnd", id, [msg |-> msg, nowait |-> FALSE])
MsgsndNow(id, msg) == Op("msgsnd", id, [msg |-> msg, nowait |-> TRUE])
Msgrcv(id, types) == Op("msgrcv", id, [types |-> types, flags |-> {}, most |-> 9])
MsgrcvWith(id, types, most, flags) == Op("msgrcv", id, [types |-> types, flags |-> flags, most |-> most])
Semget(id, key, n, flags) == Get0(id, "sem", key, [k \in 1..n |-> 0], flags)
Sops(num, n, flags) == [num |-> num, op |-> n, flags |-> flags]
Semop(id, ops) == Op("semop", id, ops)
SetAll(id, vals) == Op("setall", id, vals)
GetVal(id, v) == Op("getval", id, v)
Otime(id, v) == Op("otime", id, v)
MqOpen(id, name, flags) == Get0(id, "mq", name, << >>, flags)
MqSend(id, data, prio) == Op("mqsend", id, [data |-> data, prio |-> prio])
MqReceive(id) == Op("mqreceive", id, 0)
MqNotify(id, sig) == Op("mqnotify", id, [sig |-> sig, thread |-> ""])
MqNotifyThread(id, label) == Op("mqnotify", id, [sig |-> "", thread |-> label])
Lock(f, type, bytes, wait, by) == Op("lock", f, [type |-> type, bytes |-> bytes, wait |-> wait, by |-> by])
Getlk(f, type, bytes, by, v) == Op("getlk", f, [type |-> type, bytes |-> bytes, wait |-> FALSE, by |-> by, v |-> v])
Ftruncate(f, n) == Op("ftruncate", f, n)
Fsize(f, v) == Op("fsize", f, v)

(* A scene: the programs that are started, what stands in the terminal,    *)
(* objects that exist, calls that may fail, rounds of endless loops, and   *)
(* the signals that come from outside to process `to' (0: the foreground   *)
(* process group), those that serve others and never end by themselves, and *)
(* the process that is the user at the keyboard; in a login scene the first *)
(* program has replaced the shell, and controls the terminal; `homes' are  *)
(* the blocks <<program, block>> in which a server waits for clients.      *)
Scene(start) == [start |-> start, in |-> << >>, objs |-> << >>, faults |-> 1, rounds |-> 0, to |-> 1, ext |-> << >>, serve |-> {}, user |-> 0, login |-> FALSE, homes |-> {}]
WithInput(s, in) == [s EXCEPT !.in = in]
WithSignals(s, to, ext) == [s EXCEPT !.to = to, !.ext = ext]
WithRounds(s, n) == [s EXCEPT !.rounds = n]
WithUser(s, p) == [s EXCEPT !.user = p]
With(s, objs) == [s EXCEPT !.objs = objs]
Serving(s, P) == [s EXCEPT !.serve = P]
ServingAt(s, H) == [s EXCEPT !.homes = H]
Home(program, block) == {<<program, block>>}
Login(s) == [s EXCEPT !.login = TRUE]
Sure(s) == [s EXCEPT !.faults = 0]

\* An object that exists before the programs start: a FIFO, a file, a message queue.
NewObj(kind, name, buf, cap) == [kind |-> kind, name |-> name, buf |-> buf, cap |-> cap, held |-> {}, reg |-> << >>, at |-> {}]

\* Instructions that a program has only with some option.
When(c, s) == IF c THEN s ELSE << >>

\* error_functions.c:103-113 errExit
errExit == <<Exit("1")>>
\* error_functions.c:130-140 err_exit
err_exit == <<UExit("1")>>

\* A program: its global variables and its blocks.
Program(glob, text) == [glob |-> glob, text |-> text @@ [errExit |-> errExit, err_exit |-> err_exit]]
=============================================================================
