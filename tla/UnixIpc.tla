------------------------------ MODULE UnixIpc -------------------------------
(***************************************************************************)
(* Message queues, semaphores, and locks on files.  An identifier is a     *)
(* descriptor, or the name of an object that exists before the programs.   *)
(***************************************************************************)
EXTENDS UnixState

Named(name) == {o \in DOMAIN obj : obj[o].name = name}
Gone(o) == obj[o].kind = "gone"

\* The object that the call of p refers to; 0 when there is none.
Ref(p) == IF Has(p, A(p)) THEN (IF file[proc[p].files[A(p)]].rd # 0 THEN file[proc[p].files[A(p)]].rd ELSE file[proc[p].files[A(p)]].wr)
          ELSE IF Named(A(p)) = {} THEN 0 ELSE CHOOSE o \in Named(A(p)) : TRUE
Missing(p) == Ref(p) = 0 \/ Gone(Ref(p))
Alive(p) == p \in Pids /\ proc[p].st \in {"run", "stop"}
Done(p, q, objs) == proc' = Becomes(p, q) /\ obj' = objs /\ UNCHANGED <<scene, file, left>>
Fails(p, e) == Only(Becomes(p, Error(proc[p], e)))

\* external: msgget(), semget(), shmget(), and the opens of POSIX objects; IPC_RMID, after which
\* an identifier is good for nothing, while an unlinked POSIX object remains
GetIt(p) ==
    /\ LET there == Named(B(p).name)
           F == B(p).flags
           o == IF there = {} THEN Len(obj) + 1 ELSE CHOOSE x \in there : TRUE
       IN  IF there = {} /\ "CREAT" \notin F THEN Fails(p, "ENOENT")
           ELSE IF there # {} /\ {"CREAT", "EXCL"} \subseteq F THEN Fails(p, "EEXIST")
           ELSE /\ obj' = IF there = {} THEN Append(obj, NewObj(B(p).kind, B(p).name, B(p).init, 2)) ELSE obj
                /\ file' = Append(file, [NewFile(o, o) EXCEPT !.nb = "NONBLOCK" \in F])
                /\ proc' = PutFiles(Becomes(p, Result(proc[p], 0)), p, (A(p) :> Len(file) + 1) @@ proc[p].files)
                /\ UNCHANGED <<scene, left>>
RmidIt(p) ==
    /\ IF Missing(p) THEN Fails(p, "EINVAL")
       ELSE Done(p, Result(proc[p], 0), [obj EXCEPT ![Ref(p)].kind = "gone", ![Ref(p)].name = "", ![Ref(p)].buf = << >>])

\* external: msgsnd() waits for room; msgrcv() takes the first message of one of the types, {} for all
Fits(p, o, k) == B(p).types = {} \/ obj[o].buf[k].type \in B(p).types
NoMessage(p, o) == \A k \in DOMAIN obj[o].buf : ~ Fits(p, o, k)
MsgIt(p) ==
    /\ LET o == Ref(p) IN
       IF Missing(p) THEN Fails(p, "EIDRM")
       ELSE IF Is(p, "msgsnd")
       THEN IF Len(obj[o].buf) < obj[o].cap THEN Done(p, Result(proc[p], 0), [obj EXCEPT ![o].buf = Append(@, B(p).msg)])
            ELSE B(p).nowait /\ Fails(p, "EAGAIN")
       ELSE IF NoMessage(p, o) THEN "NOWAIT" \in B(p).flags /\ Fails(p, "ENOMSG")
       ELSE \E k \in DOMAIN obj[o].buf :
                /\ Fits(p, o, k) /\ \A j \in 1..(k - 1) : ~ Fits(p, o, j)
                /\ LET data == obj[o].buf[k].data
                       n == IF Len(data) < B(p).most THEN Len(data) ELSE B(p).most
                   IN  IF n < Len(data) /\ "NOERROR" \notin B(p).flags THEN Fails(p, "E2BIG")
                       ELSE Done(p, Let(Result(proc[p], n), "buf", SubSeq(data, 1, n)),
                                 [obj EXCEPT ![o].buf = SubSeq(@, 1, k - 1) \o SubSeq(@, k + 1, Len(@))])

-----------------------------------------------------------------------------
\* external: the values of a set of semaphores; what a process did with SEM_UNDO is undone by its end
Values(o) ==
    LET undone(n) == {p \in DOMAIN obj[o].reg : ~ Alive(p) /\ obj[o].reg[p][n] # 0}
        sum[n \in DOMAIN obj[o].buf, P \in SUBSET Pids] ==
            IF P = {} THEN 0 ELSE LET p == CHOOSE x \in P : TRUE IN obj[o].reg[p][n] + sum[n, P \ {p}]
    IN  [n \in DOMAIN obj[o].buf |-> IF undone(n) = {} THEN obj[o].buf[n] ELSE obj[o].buf[n] + sum[n, undone(n)]]

\* external: the operations of one semop(), in their order; "stuck" is the first one that cannot be done
SemResult(vals, ops) ==
    LET run[k \in 0..Len(ops)] ==
            IF k = 0 THEN [vals |-> vals, stuck |-> 0]
            ELSE LET before == run[k - 1]
                     v == before.vals[ops[k].num]
                 IN  IF before.stuck # 0 THEN before
                     ELSE IF v + ops[k].op < 0 \/ (ops[k].op = 0 /\ v # 0) THEN [before EXCEPT !.stuck = k]
                     ELSE [before EXCEPT !.vals[ops[k].num] = v + ops[k].op]
    IN  run[Len(ops)]
\* external: the adjustments of process p after these operations
Adjusted(p, o, ops) ==
    LET old == IF p \in DOMAIN obj[o].reg THEN obj[o].reg[p] ELSE [n \in DOMAIN obj[o].buf |-> 0]
        run[k \in 0..Len(ops)] == IF k = 0 THEN old
                                  ELSE [run[k - 1] EXCEPT ![ops[k].num] = IF "UNDO" \in ops[k].flags THEN @ - ops[k].op ELSE @]
    IN  run[Len(ops)]
SemopIt(p) ==
    /\ LET o == Ref(p)
           res == SemResult(Values(o), B(p))
           done == SemResult(obj[o].buf, B(p))
           undo == \E k \in DOMAIN B(p) : "UNDO" \in B(p)[k].flags
       IN  IF Missing(p) THEN Fails(p, "EIDRM")
           ELSE IF res.stuck = 0
           THEN Done(p, Result(proc[p], 0),
                     [obj EXCEPT ![o].buf = [n \in DOMAIN @ |-> @[n] + res.vals[n] - Values(o)[n]], ![o].at = {"otime"},
                                 ![o].reg = IF undo THEN (p :> Adjusted(p, o, B(p))) @@ @ ELSE @])
           ELSE \/ "NOWAIT" \in B(p)[res.stuck].flags /\ Fails(p, "EAGAIN")
                \/ "TIMEOUT" \in B(p)[res.stuck].flags /\ Fails(p, "ETIMEDOUT")

\* external: semctl(); setting the values forgets all adjustments
SemctlIt(p) ==
    /\ LET o == Ref(p) IN
       IF Missing(p) THEN Fails(p, "EINVAL")
       ELSE CASE Is(p, "setall") -> Done(p, Result(proc[p], 0), [obj EXCEPT ![o].buf = B(p), ![o].reg = << >>])
              [] Is(p, "getval") -> Only(Becomes(p, Let(Result(proc[p], 0), B(p), Values(o)[1])))
              [] Is(p, "otime") -> Only(Becomes(p, Let(Result(proc[p], 0), B(p), "otime" \in obj[o].at)))

-----------------------------------------------------------------------------
\* external: POSIX message queues keep the order of priorities
Insert(q, m) == LET before == {k \in DOMAIN q : q[k].prio >= m.prio}
                IN  SubSeq(q, 1, Cardinality(before)) \o <<m>> \o SubSeq(q, Cardinality(before) + 1, Len(q))

\* external: a message that comes to an empty queue notifies the process that is registered, and
\* ends its registration; nobody waits in mq_receive() in the scenes with a notification
Spawned(q, label) == Settle([q EXCEPT !.b = label, !.i = 1, !.stk = << >>, !.pend = << >>, !.said = << >>, !.blk = FALSE, !.alarm = FALSE, !.csig = "none"])
Notified(ps, o) ==
    LET R == {p \in DOMAIN obj[o].reg : Alive(p)}
        p == CHOOSE x \in R : TRUE
        how == obj[o].reg[p]
    IN  IF obj[o].buf # << >> \/ R = {} THEN ps
        ELSE IF how.thread = "" THEN Post(ps, p, how.sig)
        ELSE Append(ps, Spawned(ps[p], how.thread))
MqIt(p) ==
    /\ LET o == Ref(p)  k == proc[p].files[A(p)] IN
       CASE Is(p, "mqsend") ->
              IF Len(obj[o].buf) < obj[o].cap
              THEN /\ proc' = Notified(Becomes(p, Result(proc[p], 0)), o)
                   /\ obj' = [obj EXCEPT ![o].buf = Insert(@, B(p)), ![o].reg = IF obj[o].buf = << >> THEN << >> ELSE @]
                   /\ UNCHANGED <<scene, file, left>>
              ELSE file[k].nb /\ Fails(p, "EAGAIN")
         [] Is(p, "mqreceive") ->
              IF obj[o].buf # << >>
              THEN Done(p, Let(Let(Result(proc[p], 1), "buf", Head(obj[o].buf).data), "prio", Head(obj[o].buf).prio), [obj EXCEPT ![o].buf = Tail(@)])
              ELSE file[k].nb /\ Fails(p, "EAGAIN")
         [] Is(p, "mqnotify") ->
              IF \E q \in DOMAIN obj[o].reg : Alive(q) THEN Fails(p, "EBUSY")
              ELSE Done(p, Result(proc[p], 0), [obj EXCEPT ![o].reg = proc[p].tg :> B(p)])

-----------------------------------------------------------------------------
\* external: locks on bytes of a file belong to a process (fcntl) or to an open file description (flock,
\* OFD locks), and end with the process, the description, or the process's close of the file, which
\* the programs here open once
Owner(p) == IF B(p).by = "proc" THEN <<"proc", proc[p].tg>> ELSE <<"file", proc[p].files[A(p)]>>
Valid(o, w) == IF w[1] = "file" THEN w[2] \in OpenFiles
               ELSE Alive(w[2]) /\ \E f \in DOMAIN proc[w[2]].files : file[proc[w[2]].files[f]].rd = o \/ file[proc[w[2]].files[f]].wr = o
Against(p) ==
    LET o == Ref(p) IN
    {w \in DOMAIN obj[o].reg \ {Owner(p)} : Valid(o, w) /\ \E x \in B(p).bytes : x \in obj[o].reg[w].w \/ (B(p).type = "w" /\ x \in obj[o].reg[w].r)}
\* external: F_SETLKW detects that p and another process would wait for each other
Deadlocked(p) ==
    /\ B(p).by = "proc"
    /\ \E q \in Pids \ {p} : /\ proc[q].st = "run" /\ Is(q, "lock") /\ proc[q].blk
                             /\ <<"proc", proc[q].tg>> \in Against(p) /\ Owner(p) \in Against(q)
LockIt(p) ==
    /\ LET o == Ref(p)
           old == IF Owner(p) \in DOMAIN obj[o].reg /\ Valid(o, Owner(p)) THEN obj[o].reg[Owner(p)] ELSE [r |-> {}, w |-> {}]
           new == [r |-> IF B(p).type = "r" THEN old.r \cup B(p).bytes ELSE old.r \ B(p).bytes,
                   w |-> IF B(p).type = "w" THEN old.w \cup B(p).bytes ELSE old.w \ B(p).bytes]
       IN  IF B(p).type = "u" \/ Against(p) = {}
           THEN Done(p, Result(proc[p], 0), [obj EXCEPT ![o].reg = (Owner(p) :> new) @@ @])
           ELSE \/ ~ B(p).wait /\ Fails(p, "EAGAIN")
                \/ B(p).wait /\ Deadlocked(p) /\ Fails(p, "EDEADLK")
\* external: F_GETLK: 0, or the first of those that hold a lock against this one
GetlkIt(p) == /\ Only(Becomes(p, Let(Result(proc[p], 0), B(p).v, IF Against(p) = {} THEN 0 ELSE (CHOOSE w \in Against(p) : TRUE)[2])))

\* external: ftruncate() and fstat()
SizeIt(p) ==
    LET o == Ref(p) IN
    \/ /\ Is(p, "ftruncate")
       /\ Done(p, Result(proc[p], 0), [obj EXCEPT ![o].buf = [k \in 1..B(p) |-> IF k \in DOMAIN @ THEN @[k] ELSE "0"]])
    \/ Is(p, "fsize") /\ Only(Becomes(p, Let(Result(proc[p], 0), B(p), Len(obj[o].buf))))

\* external: pthread_join()
JoinIt(p) == ~ Alive(Get(proc[p], A(p))) /\ Only(Becomes(p, Result(proc[p], 0)))

IpcOps == {"join", "get", "rmid", "msgsnd", "msgrcv", "semop", "setall", "getval", "otime", "mqsend", "mqreceive", "mqnotify",
           "lock", "getlk", "ftruncate", "fsize"}
IpcWaits(p) ==
    LET op == Ins(proc[p]).op  o == Ref(p) IN
    IF op = "join" THEN Alive(Get(proc[p], A(p)))
    ELSE ~ Missing(p) /\
    CASE op = "msgsnd" -> ~ B(p).nowait /\ Len(obj[o].buf) >= obj[o].cap
      [] op = "msgrcv" -> "NOWAIT" \notin B(p).flags /\ NoMessage(p, o)
      [] op = "semop" -> LET k == SemResult(Values(o), B(p)).stuck IN k # 0 /\ {"NOWAIT", "TIMEOUT"} \cap B(p)[k].flags = {}
      [] op = "mqsend" -> ~ file[proc[p].files[A(p)]].nb /\ Len(obj[o].buf) >= obj[o].cap
      [] op = "mqreceive" -> ~ file[proc[p].files[A(p)]].nb /\ obj[o].buf = << >>
      [] op = "lock" -> B(p).type # "u" /\ B(p).wait /\ Against(p) # {} /\ ~ Deadlocked(p)
      [] OTHER -> FALSE
IpcCall(p, op) ==
    \/ op = "get" /\ GetIt(p)
    \/ op = "rmid" /\ RmidIt(p)
    \/ op \in {"msgsnd", "msgrcv"} /\ MsgIt(p)
    \/ op = "semop" /\ SemopIt(p)
    \/ op \in {"setall", "getval", "otime"} /\ SemctlIt(p)
    \/ op \in {"mqsend", "mqreceive", "mqnotify"} /\ MqIt(p)
    \/ op = "lock" /\ LockIt(p)
    \/ op = "getlk" /\ GetlkIt(p)
    \/ op \in {"ftruncate", "fsize"} /\ SizeIt(p)
    \/ op = "join" /\ JoinIt(p)
=============================================================================
