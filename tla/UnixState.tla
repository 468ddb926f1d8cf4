----------------------------- MODULE UnixState ------------------------------
(***************************************************************************)
(* The state of module Unix: processes and threads, open files, and what   *)
(* they refer to; and the functions on it that several calls share.        *)
(* Programs are constants, written in the notation of UnixCode.            *)
(***************************************************************************)
EXTENDS UnixCode, FiniteSets, TLC

CONSTANTS
    Programs,  \* name |-> [glob |-> global variables, text |-> blocks]
    Scenes,    \* name |-> the programs that are run, their input, and what happens to them
    FairScenes,\* the scenes about which something is to happen eventually
    MaxProcs,  \* processes and threads created in a behaviour
    MaxOut,    \* what a process prints
    MaxLocal   \* local steps that are done together

VARIABLES
    scene,     \* the element of Scenes that this behaviour runs
    proc,      \* sequence of processes and threads, indexed by PID
    file,      \* sequence of open file descriptions
    obj,       \* sequence of pipes, files, sockets, queues and semaphores
    left       \* faults, signals from outside and rounds of endless loops still to come

vars == <<scene, proc, file, obj, left>>

Pids == DOMAIN proc

Ins(q) == Programs[q.prog].text[q.b][q.i]
Is(p, op) == Ins(proc[p]).op = op
A(p) == Ins(proc[p]).a
B(p) == Ins(proc[p]).b

-----------------------------------------------------------------------------
(* Functions on one process. *)

Let(q, v, k) == [q EXCEPT !.loc = (v :> k) @@ @]
Get(q, v) == IF v \in DOMAIN q.mem THEN q.mem[v]
             ELSE IF v \in DOMAIN q.loc THEN q.loc[v] ELSE 0
Skip(q) == [q EXCEPT !.i = @ + 1, !.blk = FALSE]
Jump(q, label) == [q EXCEPT !.b = label, !.i = 1, !.blk = FALSE]
Result(q, r) == [q EXCEPT !.i = @ + 1, !.blk = FALSE, !.loc = ("r" :> r) @@ @]
Frame(q, i, mask, kind) == [b |-> q.b, i |-> i, mask |-> mask, kind |-> kind, own |-> [v \in DOMAIN q.loc \cap {"sig", "r"} |-> q.loc[v]]]

\* external: a failed call returns -1 and sets errno; the program text says what is next
Error(q, e) ==
    LET on == Ins(q).on
    IN  [q EXCEPT !.loc = ("r" :> -1) @@ ("e" :> e) @@ @, !.blk = FALSE,
                  !.b = IF on = "next" THEN @ ELSE on,
                  !.i = IF on = "next" THEN @ + 1 ELSE 1]

\* external: signal dispositions; the signals that do nothing or stop the process by default
Default == [h |-> "dfl", flags |-> {}]
IgnoredByDefault == {"CHLD", "CONT", "URG", "WINCH"}
Stopping == {"STOP", "TSTP", "TTIN", "TTOU"}
Unblockable == {"KILL", "STOP"}
Realtime == {"RT1", "RT2"}
Disp(q, s) == IF s \in DOMAIN q.disp THEN q.disp[s] ELSE Default
Caught(q, s) == Disp(q, s).h \notin {"dfl", "ign"}
Ignored(q, s) == \/ Disp(q, s).h = "ign"
                 \/ Disp(q, s).h = "dfl" /\ s \in IgnoredByDefault
Catches(q) == \E s \in DOMAIN q.disp : Caught(q, s)

\* external: signals that were generated and not yet delivered, in the order of generation
Pending(q) == {q.pend[k] : k \in DOMAIN q.pend}
Deliverable(q) == Pending(q) \ q.mask
Without(q, k) == [q EXCEPT !.pend = SubSeq(@, 1, k - 1) \o SubSeq(@, k + 1, Len(@))]

\* external: a stdio buffer is part of a process's memory, and is copied by fork()
Stdio(q) == IF "stdio" \in DOMAIN q.loc THEN q.loc.stdio ELSE << >>

-----------------------------------------------------------------------------
(* Local control: between two system calls a process runs by itself.  A    *)
(* call that changes nothing, and cannot fail any more, is such a step.    *)

Branches == {"if", "ifnot", "ifless", "ifhas"}
LocalOps == Branches \cup {"set", "add", "copy", "map", "item", "itoa", "atoi", "plus", "minus", "push", "pop", "prefix", "with", "without", "goto", "call", "printf", "saveaction", "savemask"}
IsLocal(q, ins) ==
    /\ q.st = "run"
    /\ CASE ins.op = "sys" -> left.faults = 0
         [] ins.op = "say" -> ins.b \notin DOMAIN q.mem /\ Len(q.said) < MaxOut
         [] ins.op \in {"goto", "call", "printf", "saveaction", "savemask"} -> TRUE
         [] ins.op \in {"copy", "plus", "minus"} -> ins.a \notin DOMAIN q.mem /\ ins.b \notin DOMAIN q.mem
         [] OTHER -> ins.op \in LocalOps /\ ins.a \notin DOMAIN q.mem

Holds(ins, k) == CASE ins.op = "if" -> k \in ins.b
                   [] ins.op = "ifnot" -> k \notin ins.b
                   [] ins.op = "ifless" -> k < ins.b
                   [] ins.op = "ifhas" -> ins.b \in k

\* external: numbers as text, of one digit
Digits == <<"0", "1", "2", "3", "4", "5", "6", "7", "8", "9">>

\* external: what the process has printed
Said(q) == [Skip(q) EXCEPT !.said = Append(@, <<Ins(q).a, IF Ins(q).b = "" THEN 0 ELSE Get(q, Ins(q).b)>>)]

Control(q, ins) ==
    CASE ins.op \in Branches -> IF Holds(ins, Get(q, ins.a)) THEN Jump(q, ins.on) ELSE Skip(q)
      [] ins.op = "set" -> Let(Skip(q), ins.a, ins.b)
      [] ins.op = "add" -> Let(Skip(q), ins.a, Get(q, ins.a) + ins.b)
      [] ins.op = "copy" -> Let(Skip(q), ins.a, Get(q, ins.b))
      [] ins.op = "map" -> Let(Skip(q), ins.a, [k \in DOMAIN Get(q, ins.a) |-> ins.b[Get(q, ins.a)[k]]])
      [] ins.op = "item" -> Let(Skip(q), ins.a, Get(q, ins.b.of)[ins.b.k])
      [] ins.op = "itoa" -> Let(Skip(q), ins.a, Digits[Get(q, ins.b) + 1])
      [] ins.op = "atoi" -> Let(Skip(q), ins.a, IF \E n \in 1..10 : Digits[n] = Get(q, ins.b)
                                                          THEN (CHOOSE n \in 1..10 : Digits[n] = Get(q, ins.b)) - 1 ELSE 0)
      [] ins.op = "minus" -> Let(Skip(q), ins.a, Get(q, ins.a) - Get(q, ins.b))
      [] ins.op = "push" -> Let(Skip(q), ins.a, Append(Get(q, ins.a), Get(q, ins.b)))
      [] ins.op = "pop" -> Let(Let(Skip(q), ins.a, Head(Get(q, ins.b))), ins.b, Tail(Get(q, ins.b)))
      [] ins.op = "plus" -> Let(Skip(q), ins.a, Get(q, ins.a) + Get(q, ins.b))
      [] ins.op = "prefix" -> Let(Skip(q), ins.a, <<Get(q, ins.b)>> \o Get(q, ins.a))
      [] ins.op = "with" -> Let(Skip(q), ins.a, Get(q, ins.a) \cup ins.b)
      [] ins.op = "without" -> Let(Skip(q), ins.a, Get(q, ins.a) \ ins.b)
      [] ins.op = "goto" -> Jump(q, ins.a)
      [] ins.op = "call" -> [Jump(q, ins.a) EXCEPT !.stk = Append(@, Frame(q, q.i + 1, {}, "call"))]
      [] ins.op = "printf" -> Let(Skip(q), "stdio", Append(Stdio(q), ins.a))
      [] ins.op = "saveaction" -> Let(Skip(q), ins.b, Disp(q, ins.a))
      [] ins.op = "savemask" -> Let(Skip(q), ins.a, q.mask)
      [] ins.op = "sys" -> Result(q, 0)
      [] ins.op = "say" -> Said(q)

\* The sets of one element make TLC evaluate what is in them once.
After(q) == CHOOSE z \in {IF IsLocal(q, ins) THEN Control(q, ins) ELSE q : ins \in {Ins(q)}} : TRUE

Settle(q) ==
    LET run[k \in 0..MaxLocal] ==
            IF k = 0 THEN q ELSE CHOOSE z \in {After(y) : y \in {run[k - 1]}} : TRUE
    IN  run[MaxLocal]

Becomes(p, q) == [proc EXCEPT ![p] = Settle(q)]
Only(ps) == proc' = ps /\ UNCHANGED <<scene, file, obj, left>>

-----------------------------------------------------------------------------
(* Functions on the table of processes. *)

\* external: memory is shared by those that were cloned with CLONE_VM
Store(ps, p, v, k) ==
    [q \in DOMAIN ps |-> IF ps[q].share.mem = ps[p].share.mem /\ v \in DOMAIN ps[q].mem
                         THEN [ps[q] EXCEPT !.mem[v] = k] ELSE ps[q]]

\* external: open descriptors are shared by those that were cloned with CLONE_FILES
PutFiles(ps, p, F) ==
    [q \in DOMAIN ps |-> IF ps[q].share.files = ps[p].share.files /\ ps[q].st \in {"run", "stop"}
                         THEN [ps[q] EXCEPT !.files = F] ELSE ps[q]]

\* external: a standard signal that is pending already is not queued again, one that is
\* ignored is not queued at all; SIGCONT and the stopping signals cancel each other
Posted(q, s) ==
    IF \/ q.st \notin {"run", "stop"}
       \/ Ignored(q, s) /\ s \notin q.mask /\ s # "CONT"
       \/ s \notin Realtime /\ s \in Pending(q)
    THEN q
    ELSE [q EXCEPT !.pend = Append(SelectSeq(@, LAMBDA x : ~ (\/ s = "CONT" /\ x \in Stopping
                                                              \/ s \in Stopping /\ x = "CONT")), s),
                   !.ev = IF s = "CONT" /\ q.st = "stop" THEN "continued" ELSE @,
                   !.st = IF s \in {"CONT", "KILL"} THEN "run" ELSE @]
Post(ps, p, s) == [ps EXCEPT ![p] = Posted(@, s)]
PostAll(ps, P, s) == [p \in DOMAIN ps |-> IF p \in P THEN Posted(ps[p], s) ELSE ps[p]]

-----------------------------------------------------------------------------
(* Open files. *)

\* external: open file descriptions, those in a queue for accept() or on their way in a message included
Direct == UNION {{proc[p].files[f] : f \in DOMAIN proc[p].files} : p \in Pids}
HeldBy(K) == UNION {obj[o].held : o \in {file[k].rd : k \in K} \ {0}}
Held == HeldBy(Direct) \cup HeldBy(HeldBy(Direct))
OpenFiles == Direct \cup Held
Readers(o) == {k \in OpenFiles : file[k].rd = o}
Writers(o) == {k \in OpenFiles : file[k].wr = o}
Has(p, f) == f \in DOMAIN proc[p].files

\* external: what can be read at once, and whether a read would not block; only the end of
\* the last writer of a pipe or a connection is an end of file
Unread(k) == LET o == obj[file[k].rd]
             IN  IF o.kind = "file" THEN SubSeq(o.buf, file[k].off + 1, Len(o.buf)) ELSE o.buf
CanRead(k) == \/ file[k].rd = 0
              \/ obj[file[k].rd].kind = "file"
              \/ obj[file[k].rd].buf # << >>
              \/ obj[file[k].rd].kind \in {"pipe", "pty"} /\ Writers(file[k].rd) = {}
\* external: what poll() and epoll report; a hang-up needs a writer that has been there
Hung(k) == LET o == file[k].rd
           IN  /\ obj[o].kind \in {"pipe", "pty"} /\ Writers(o) = {}
               /\ file[k].met \/ \E j \in (k + 1)..Len(file) : file[j].wr = o
Pollable(k) == CanRead(k) /\ (file[k].rd # 0 => obj[file[k].rd].kind \notin {"pipe", "pty"} \/ Unread(k) # << >> \/ Hung(k))
Room(k, n) == LET o == obj[file[k].wr]
              IN  o.kind # "pipe" \/ Len(o.buf) + n <= o.cap

\* external: a write into a file, which may leave a hole before it
Overwrite(old, at, data) ==
    [k \in 1..(IF at + Len(data) > Len(old) THEN at + Len(data) ELSE Len(old)) |->
        IF k \in (at + 1)..(at + Len(data)) THEN data[k - at]
        ELSE IF k <= Len(old) THEN old[k] ELSE "hole"]

NewFile(rd, wr) == [rd |-> rd, wr |-> wr, off |-> 0, nb |-> FALSE, app |-> FALSE, own |-> 0, met |-> TRUE, pass |-> FALSE]

\* external: new data in object o is an event for the epoll instances that watch it, and a
\* SIGIO for the owners of descriptors with O_ASYNC
Roused(objs, o) ==
    [x \in DOMAIN objs |-> IF objs[x].kind # "epoll" THEN objs[x]
                          ELSE [objs[x] EXCEPT !.reg = [k \in DOMAIN @ |-> IF file[k].rd = o THEN [@[k] EXCEPT !.edge = TRUE] ELSE @[k]]]]
Owners(o) == {file[k].own : k \in {j \in DOMAIN file : file[j].rd = o}} \ {0}

-----------------------------------------------------------------------------
\* external: the shell that starts the programs of a scene; 0 is init
Shell == -1

\* external: a process that has just been started by a shell in its own process group
NewProcess(name, parent, pid) ==
    [prog |-> name, b |-> "main", i |-> 1, stk |-> << >>, blk |-> FALSE, st |-> "run", status |-> "0", ev |-> "",
     ppid |-> parent, tg |-> pid, vf |-> 0, csig |-> "CHLD", by |-> parent, pdeath |-> "", reaper |-> FALSE, pg |-> pid, sid |-> 0,
     mask |-> {}, smask |-> {}, pend |-> << >>, disp |-> << >>, alarm |-> FALSE,
     loc |-> << >>, said |-> << >>, mem |-> Programs[name].glob, files |-> [in |-> 1, out |-> 2], cx |-> {},
     ns |-> [pid |-> {}, new |-> FALSE, uts |-> 0, user |-> << >>], host |-> "bizarro", cred |-> [uid |-> "root", gid |-> "root"],
     fs |-> [umask |-> "022", cwd |-> "home"],
     share |-> [mem |-> pid, files |-> pid, sig |-> pid, fs |-> pid]]

Init == /\ scene \in DOMAIN Scenes
        /\ LET s == Scenes[scene] IN
           /\ left = [faults |-> s.faults, ext |-> s.ext, rounds |-> s.rounds]
           /\ proc = [p \in 1..Len(s.start) |->
                        Settle([NewProcess(s.start[p], Shell, p) EXCEPT !.sid = IF s.login THEN 1 ELSE 0, !.files = IF p = s.user THEN [kbd |-> 3, out |-> 2] ELSE @])]
           /\ file = <<NewFile(1, 0), NewFile(0, 2), NewFile(0, 1)>>
           /\ obj = <<NewObj("pipe", "stdin", s.in, 9), [NewObj("tty", "/dev/tty", << >>, 0) EXCEPT !.at = {"ECHO", "ICANON", "ISIG", "ICRNL", "OPOST"}]>> \o s.objs
=============================================================================
