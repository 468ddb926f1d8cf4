---------------------------- MODULE UnixProcess -----------------------------
(***************************************************************************)
(* Control flow of one process, and the system calls that create, replace, *)
(* end and await processes.                                                *)
(***************************************************************************)
EXTENDS UnixState

\* A step that reads or writes variables which others share, or local control that goes on.
Access(p) ==
    /\ LET q == proc[p]  v == A(p) IN
       IF Ins(q).op \in {"set", "add", "copy"} /\ v \in DOMAIN q.mem
       THEN Only(Store(Becomes(p, Skip(q)), p, v,
                       CASE Is(p, "set") -> B(p)
                         [] Is(p, "add") -> q.mem[v] + B(p)
                         [] Is(p, "copy") -> Get(q, B(p))))
       ELSE Only(Becomes(p, Control(q, Ins(q))))

LoopIt(p) == /\ left.rounds > 0
             /\ proc' = Becomes(p, Jump(proc[p], A(p)))
             /\ left' = [left EXCEPT !.rounds = @ - 1]
             /\ UNCHANGED <<scene, file, obj>>

\* The end of a function or of a handler; an interrupted call then fails with EINTR.
Ret(p) ==
    /\ LET f == proc[p].stk[Len(proc[p].stk)]
           q == [proc[p] EXCEPT !.b = f.b, !.i = f.i, !.blk = FALSE, !.stk = SubSeq(@, 1, Len(@) - 1),
                                !.mask = IF f.kind = "call" THEN @ ELSE f.mask,
                                !.loc = IF f.kind = "call" THEN @ ELSE f.own @@ @]
       IN  Only(Becomes(p, IF f.kind = "eintr" THEN Error(q, "EINTR") ELSE q))

\* external: siglongjmp() with, longjmp() without, the mask that was saved
LongjmpIt(p) ==
    /\ Only(Becomes(p, [Jump(proc[p], A(p)) EXCEPT !.stk = << >>,
                            !.mask = IF B(p) = "mask" THEN proc[p].stk[1].mask ELSE @]))

ChooseIt(p) == \E k \in B(p) : Only(Becomes(p, Let(Skip(proc[p]), A(p), k)))

SayIt(p) == Len(proc[p].said) < MaxOut /\ Only(Becomes(p, Said(proc[p])))

-----------------------------------------------------------------------------
\* external: clone(), of which fork(), vfork() and pthread_create() are cases
CloneIt(p) ==
    /\ Len(proc) < MaxProcs
    /\ LET q == proc[p]
           new == Len(proc) + 1
           F == B(p).flags
           keep(flag, id) == IF flag \in F THEN id ELSE new
           child == [q EXCEPT !.b = A(p), !.i = 1, !.pend = << >>, !.said = << >>, !.blk = FALSE, !.alarm = FALSE,
                              !.stk = IF "THREAD" \in F THEN << >> ELSE @,
                              !.loc = ("r" :> 0) @@ @,
                              !.csig = B(p).sig, !.pdeath = "", !.reaper = FALSE, !.by = p,
                              !.ppid = IF "THREAD" \in F THEN @ ELSE q.tg,
                              !.tg = keep("THREAD", @),
                              !.ns = [pid |-> IF @.new \/ "NEWPID" \in F THEN @.pid \cup {new} ELSE @.pid, new |-> FALSE,
                                      uts |-> IF "NEWUTS" \in F THEN new ELSE @.uts,
                                      user |-> IF "NEWUSER" \in F THEN Append(@.user, new) ELSE @.user],
                              !.share = [mem |-> keep("VM", @.mem), files |-> keep("FILES", @.files),
                                         sig |-> keep("SIGHAND", @.sig), fs |-> keep("FS", @.fs)]]
           parent == [Result(q, new) EXCEPT !.vf = IF "VFORK" \in F THEN new ELSE 0, !.ns.new = FALSE]
       IN  IF "SIGHAND" \in F /\ "VM" \notin F THEN Only(Becomes(p, Error(q, "EINVAL")))
           ELSE Only(Append(Becomes(p, parent), Settle(child)))

\* external: exec() keeps the PID, the descriptors without FD_CLOEXEC, the mask and what is ignored
ExecIt(p) ==
    /\ LET q == proc[p]
           kept == {s \in DOMAIN q.disp : q.disp[s].h = "ign"}
           fresh == [NewProcess(A(p), q.ppid, p) EXCEPT
                        !.files = [f \in DOMAIN q.files \ q.cx |-> q.files[f]], !.fs = q.fs,
                        !.mask = q.mask, !.pend = q.pend, !.disp = [s \in kept |-> q.disp[s]],
                        !.loc = B(p), !.csig = q.csig, !.by = q.by, !.pdeath = q.pdeath, !.reaper = q.reaper, !.pg = q.pg, !.sid = q.sid, !.alarm = q.alarm,
                        !.ns = q.ns, !.host = q.host, !.cred = q.cred]
       IN  Only([k \in Pids |-> IF k = p THEN Settle(fresh)
                                ELSE [proc[k] EXCEPT !.vf = IF @ = p THEN 0 ELSE @]])

\* external: termination of all threads of p.  A dead process keeps only what a wait reports.
Corpse(q, st, status) ==
    [q EXCEPT !.st = st, !.status = status, !.files = << >>, !.loc = << >>, !.mem = << >>, !.stk = << >>, !.pend = << >>,
              !.disp = << >>, !.mask = {}, !.b = "main", !.i = 1, !.blk = FALSE, !.alarm = FALSE, !.ev = ""]

\* external: the nearest living subreaper above a dying process takes its children, else the init of its PID
\* namespace
Adopter(ps, group, lead) ==
    LET up(p) == IF p < 1 THEN 0 ELSE ps[p].ppid
        inits == {q \in ps[lead].ns.pid \ {lead} : ps[q].st = "run"}
        above == <<up(lead), up(up(lead)), up(up(up(lead)))>>
        able == {k \in 1..3 : above[k] > 0 /\ ps[above[k]].reaper /\ ps[above[k]].st = "run"}
    IN  IF able = {} THEN (IF inits = {} THEN 0 ELSE CHOOSE q \in inits : \A k \in inits : k <= q)
        ELSE above[CHOOSE k \in able : \A j \in able : k <= j]

\* external: a process group without a member whose parent is in another group of the session
\* is orphaned: no shell will continue it
Members(ps, g) == {q \in DOMAIN ps : ps[q].pg = g /\ ps[q].st \in {"run", "stop"}}
Orphaned(ps, g) ==
    \A q \in Members(ps, g) : LET up == ps[q].ppid IN
        \/ up = 0
        \/ up = Shell /\ ps[q].sid # 0
        \/ up > 0 /\ (ps[up].pg = g \/ ps[up].sid # ps[q].sid)

\* external: the end of process p hangs up the groups that it leaves orphaned with a stopped
\* member, and, when p controls the terminal, the foreground process group
HangUp(before, after, p) ==
    LET left1 == {g \in {before[q].pg : q \in DOMAIN before} :
                    /\ ~ Orphaned(before, g) /\ Orphaned(after, g)
                    /\ \E q \in Members(after, g) : after[q].st = "stop"}
        lost == UNION {Members(after, g) : g \in left1}
        fg == IF Scenes[scene].login /\ p = 1 THEN Members(after, 1) ELSE {}
    IN  PostAll(PostAll(after, lost \cup fg, "HUP"), lost, "CONT")

\* external: the parent of a child that ends gets its signal; a parent that ignores SIGCHLD,
\* and init, leave no zombie; a PID namespace ends with its init; children that asked for it are told of their parent's death
End(ps, p, status) ==
    LET group == {q \in DOMAIN ps : ps[q].tg = ps[p].tg \/ ps[p].tg \in ps[q].ns.pid}
        lead == ps[p].tg
        up == ps[lead].ppid
        heir == Adopter(ps, group, lead)
        kept == up > 0 /\ ~ (Disp(ps[up], "CHLD").h = "ign" /\ ps[lead].csig = "CHLD")
        orphan(q) == [ps[q] EXCEPT !.ppid = heir, !.by = heir,
                                   !.st = IF @ = "zombie" /\ heir = 0 THEN "gone" ELSE @]
        rest(q) == IF ps[q].ppid \notin group THEN [ps[q] EXCEPT !.vf = IF @ \in group THEN 0 ELSE @]
                   ELSE IF ps[q].pdeath = "" THEN orphan(q) ELSE Posted(orphan(q), ps[q].pdeath)
        ended == [q \in DOMAIN ps |-> IF q \in group
                                      THEN Corpse(ps[q], IF q = lead /\ kept THEN "zombie" ELSE "gone", status)
                                      ELSE rest(q)]
    IN  HangUp(ps, IF up > 0 /\ ps[lead].csig # "none" THEN Post(ended, up, ps[lead].csig) ELSE ended, lead)

\* external: exit() runs the exit handlers, last registered first, and flushes stdio before the
\* process ends; _exit() only ends it
ExitHandlers(q) == IF "atexit" \in DOMAIN q.loc THEN q.loc.atexit ELSE << >>
AtexitIt(p) == Only(Becomes(p, Let(Skip(proc[p]), "atexit", <<A(p)>> \o ExitHandlers(proc[p]))))
ExitIt(p) ==
    LET q == proc[p] IN
    \/ /\ Is(p, "exit")
       /\ ExitHandlers(q) # << >>
       /\ Only(Becomes(p, [Jump(Let(q, "atexit", Tail(ExitHandlers(q))), Head(ExitHandlers(q)))
                            EXCEPT !.stk = Append(@, Frame(q, q.i, {}, "call"))]))
    \/ /\ Is(p, "_exit") \/ (Is(p, "exit") /\ ExitHandlers(q) = << >>)
       /\ proc' = End(proc, p, A(p))
       /\ obj' = IF Is(p, "exit") /\ Stdio(q) # << >> /\ Has(p, "out") /\ file[q.files.out].wr # 0
                 THEN [obj EXCEPT ![file[q.files.out].wr].buf = @ \o Stdio(q)] ELSE obj
       /\ UNCHANGED <<scene, file, left>>

\* external: pthread_exit(); the process ends with its last thread.  The children of one thread
\* go to another of the process; they see the death of the thread as that of a parent.
ThreadExitIt(p) ==
    /\ LET others == {q \in Pids \ {p} : proc[q].tg = proc[p].tg /\ proc[q].st = "run"}
           left1 == CHOOSE q \in others : \A k \in others : q <= k
           moved(q) == [proc[q] EXCEPT !.by = left1]
           after(q) == IF q = p THEN Corpse(proc[p], "done", A(p))
                       ELSE IF proc[q].by # p \/ proc[q].tg = proc[p].tg THEN proc[q]
                       ELSE IF proc[q].pdeath = "" THEN moved(q) ELSE Posted(moved(q), proc[q].pdeath)
       IN  IF others = {} THEN Only(End(proc, p, "0")) ELSE Only([q \in Pids |-> after(q)])

-----------------------------------------------------------------------------
\* external: the children that a wait of process p may report, and what there is to report;
\* __WCLONE asks for those that end with another signal than SIGCHLD
Children(p) == {c \in Pids : proc[c].ppid = proc[p].tg /\ proc[c].tg = c /\ proc[c].st # "gone"
                             /\ (("CLONE" \in B(p)) = (proc[c].csig # "CHLD"))}
Awaited(p) == IF A(p) = "any" THEN Children(p) ELSE Children(p) \cap {Get(proc[p], A(p))}
News(p) == {c \in Awaited(p) : \/ proc[c].st = "zombie"
                               \/ "UNTRACED" \in B(p) /\ proc[c].ev # ""}
WaitIt(p) ==
    /\ \/ \E c \in News(p) :
            LET done == proc[c].st = "zombie" IN
            Only([Becomes(p, Let(Result(proc[p], c), "status", IF done THEN proc[c].status ELSE proc[c].ev))
                    EXCEPT ![c].st = IF done THEN "gone" ELSE @, ![c].ev = ""])
       \/ /\ Awaited(p) = {}
          /\ Only(Becomes(p, Error(proc[p], "ECHILD")))
       \/ /\ Awaited(p) # {} /\ News(p) = {} /\ "NOHANG" \in B(p)
          /\ Only(Becomes(p, Result(proc[p], 0)))

\* external: getppid(), getpid(), prctl(PR_SET_PDEATHSIG), prctl(PR_SET_CHILD_SUBREAPER)
IdentityIt(p) ==
    \/ Is(p, "getppid") /\ Only(Becomes(p, Let(Skip(proc[p]), A(p), proc[proc[p].tg].ppid)))
    \/ Is(p, "getpid") /\ Only(Becomes(p, Let(Skip(proc[p]), A(p), proc[p].tg)))
    \/ Is(p, "status") /\ Only(Becomes(p, Let(Skip(proc[p]), B(p), proc[Get(proc[p], A(p))].st)))
    \/ Is(p, "prctl") /\ A(p) = "pdeath" /\ Only(Becomes(p, Skip([proc[p] EXCEPT !.pdeath = B(p)])))
    \/ Is(p, "prctl") /\ A(p) = "reaper" /\ Only(Becomes(p, Skip([proc[p] EXCEPT !.reaper = B(p)])))

\* external: setpgid(0, 0); setsid(), which the leader of a process group may not call
SessionIt(p) ==
    \/ Is(p, "setpgid") /\ Only(Becomes(p, Skip([proc[p] EXCEPT !.pg = p])))
    \/ /\ Is(p, "setsid")
       /\ IF \E q \in Pids : proc[q].pg = p /\ proc[q].st # "gone" THEN Only(Becomes(p, Error(proc[p], "EPERM")))
          ELSE Only(Becomes(p, Skip([proc[p] EXCEPT !.pg = p, !.sid = p])))

\* external: umask and working directory are shared by those that were cloned with CLONE_FS
FsIt(p) ==
    \/ /\ Is(p, "fs") \/ Is(p, "resetfs")
       /\ LET ps == Becomes(p, Skip(proc[p])) IN
          Only([q \in Pids |-> IF ps[q].share.fs = ps[p].share.fs THEN [ps[q] EXCEPT !.fs[A(p)] = IF Is(p, "fs") THEN B(p) ELSE Get(proc[p], B(p))] ELSE ps[q]])
    \/ Is(p, "getfs") /\ Only(Becomes(p, Let(Skip(proc[p]), B(p), proc[p].fs[A(p)])))

\* external: a call whose effect is not modelled
SysIt(p) == Only(Becomes(p, Result(proc[p], 0)))

ProcessCall(p, op) ==
    \/ op = "sys" /\ SysIt(p)
    \/ op \in LocalOps /\ Access(p)
    \/ op = "loop" /\ LoopIt(p)
    \/ op = "return" /\ Ret(p)
    \/ op = "longjmp" /\ LongjmpIt(p)
    \/ op = "choose" /\ ChooseIt(p)
    \/ op = "say" /\ SayIt(p)
    \/ op = "clone" /\ CloneIt(p)
    \/ op = "exec" /\ ExecIt(p)
    \/ op = "atexit" /\ AtexitIt(p)
    \/ op \in {"exit", "_exit"} /\ ExitIt(p)
    \/ op = "thread_exit" /\ ThreadExitIt(p)
    \/ op = "wait" /\ WaitIt(p)
    \/ op \in {"getppid", "getpid", "status", "prctl"} /\ IdentityIt(p)
    \/ op \in {"setpgid", "setsid"} /\ SessionIt(p)
    \/ op \in {"fs", "resetfs", "getfs"} /\ FsIt(p)
=============================================================================
